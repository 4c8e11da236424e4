--------------------- MODULE OperatorCheckpointsProofs ---------------------
(***************************************************************************)
(* Theorems about OperatorCheckpoints, for every set of runs, GSTINs and   *)
(* requests, and every bound.                                              *)
(***************************************************************************)
EXTENDS OperatorCheckpoints, TLAPS

\* Where each kind of run waits, and in which stage its labels occur.
StagesFit ==
  \A r \in Runs :
    /\ kind[r] = "gst_auth_session" => stage[r] = "auth"
    /\ kind[r] = "assisted_gstr2b_execution" => stage[r] = "work"
    /\ pc[r] \in {"opening", "filling", "submitting", "resolving", "persisting", "continuing"}
         => stage[r] = "auth"

\* A stage that has not created its checkpoint has none.
CheckpointFresh ==
  \A r \in Runs :
    /\ pc[r] \in {"begun", "opening", "filling", "creating"} => cp[Row(r)] = "absent"
    /\ pc[r] = "begun" => cp[<<r, "auth">>] = "absent"
    /\ stage[r] = "auth" => cp[<<r, "work">>] = "absent"

\* Nothing is persisted, and no approval written, before a page showed a login.
LoginShown == \A r \in Runs : pc[r] \in {"resolving", "persisting"} => loggedIn[r]

\* A portal session is added before the run goes on to its end.
SessionStored ==
  \A r \in Runs :
    /\ pc[r] = "continuing" => stored[r] # "no"
    /\ pc[r] = "closing" /\ kind[r] = "gst_auth_session" => stored[r] # "no"

\* A rejection that was read leaves a run only the way of a page that showed a login.
SeenRejection ==
  \A r \in Runs : seen[r] = "rejected" /\ kind[r] # "assisted_gstr2b_execution" =>
    /\ stage[r] = "auth" /\ loggedIn[r]
    /\ pc[r] \in {"resolving", "verify", "persisting", "continuing", "closing"}

\* A request under way read its row as pending, so the row is there.
RequestsRead ==
  \A o \in Requests : api[o] # Nobody => api[o].read = "pending" /\ cp[api[o].row] # "absent"

\* The inductive invariant.
IndInv ==
  /\ TypeOK /\ LoginMutex /\ ResultsDurable
  /\ StagesFit /\ CheckpointFresh /\ LoginShown /\ SessionStored /\ SeenRejection /\ RequestsRead

-----------------------------------------------------------------------------
\* Typing of what several steps assign.

\* The list of a run's checkpoint stays a list of actions.
LEMMA QueueType ==
  ASSUME TypeOK, NEW r \in Runs
  PROVE  /\ Forget(r) => queue' \in [Rows -> Seq(Actions)]
         /\ queue[Row(r)] # << >> /\ Popped(r) => queue' \in [Rows -> Seq(Actions)]
<1>1. Row(r) \in Rows
  BY DEF TypeOK, Row, Rows
<1>2. << >> \in Seq(Actions)
  OBVIOUS
<1>3. queue[Row(r)] # << >> => Tail(queue[Row(r)]) \in Seq(Actions)
  BY <1>1 DEF TypeOK
<1> QED BY <1>1, <1>2, <1>3 DEF TypeOK, Forget, Popped

\* What a run reads or writes of its checkpoint is a status.
LEMMA StatusType ==
  ASSUME TypeOK, NEW r \in Runs
  PROVE  /\ Row(r) \in Rows /\ Loaded(r) \in Statuses
         /\ {"absent", "pending", "approved"} \subseteq Statuses
<1>1. Row(r) \in Rows
  BY DEF TypeOK, Row, Rows
<1> QED BY <1>1 DEF TypeOK, Loaded, Statuses, Resolutions

-----------------------------------------------------------------------------
\* A run's steps keep the invariant.

\* A handler raises, is cancelled, or dies with its worker.
LEMMA EndsKeeps ==
  ASSUME IndInv, NEW r \in Runs, Ends(r, "failed"), lock' \in {lock, Released(r)},
         UNCHANGED <<kind, gstin, stage, cp, obs, api>>
  PROVE  IndInv'
<1> USE DEF IndInv, Ends, Goto
<1>a. stored' \in [Runs -> {"no", "added", "committed"}]
  BY DEF TypeOK
<1>b. lock' \in [Gstins -> Runs \cup {Nobody}]
      /\ \A g \in Gstins : lock'[g] # lock[g] => lock[g] = r
  BY DEF TypeOK, Released
<1>c. queue' \in [Rows -> Seq(Actions)] /\ "absent" \in Statuses
  BY QueueType, StatusType
<1>1. TypeOK'
  BY <1>a, <1>b, <1>c DEF TypeOK, Ended
<1>2. LoginMutex'
  <2>1. ~InLogin(r)'
    BY DEF InLogin, TypeOK, Pcs
  <2>2. ASSUME NEW q \in Runs \ {r}, InLogin(q)', q \notin expired'
        PROVE  lock'[gstin'[q]] = q
    BY <2>2, <1>b DEF InLogin, TypeOK, LoginMutex
  <2> QED BY <2>1, <2>2 DEF LoginMutex
<1>3. ResultsDurable' /\ StagesFit' /\ LoginShown' /\ SessionStored'
  BY DEF TypeOK, ResultsDurable, StagesFit, LoginShown, SessionStored
<1>4. SeenRejection'
  BY DEF TypeOK, SeenRejection
<1>5. CheckpointFresh' /\ RequestsRead'
  BY DEF TypeOK, CheckpointFresh, RequestsRead, Row
<1> QED BY <1>1, <1>2, <1>3, <1>4, <1>5

\* A login inside an observation is over.
LEMMA LeaveInlineKeeps ==
  ASSUME IndInv, NEW r \in Runs, Inline(r), LeaveInline(r), lock' = Released(r),
         stored' \in {stored, [stored EXCEPT ![r] = "committed"]},
         UNCHANGED <<kind, gstin, cp, obs, api>>
  PROVE  IndInv'
<1> USE DEF IndInv, LeaveInline, Goto, Inline
<1>a. stored' \in [Runs -> {"no", "added", "committed"}]
      /\ \A q \in Runs \ {r} : stored'[q] = stored[q]
  BY DEF TypeOK
<1>b. lock' \in [Gstins -> Runs \cup {Nobody}]
      /\ \A g \in Gstins : lock'[g] # lock[g] => lock[g] = r
  BY DEF TypeOK, Released
<1>c. queue' \in [Rows -> Seq(Actions)] /\ "absent" \in Statuses
  BY QueueType, StatusType
<1>d. pc' = [pc EXCEPT ![r] = "creating"] /\ stage' = [stage EXCEPT ![r] = "work"]
  OBVIOUS
<1>1. TypeOK'
  BY <1>a, <1>b, <1>c DEF TypeOK, Pcs, Stages
<1>2. LoginMutex'
  <2>1. ~InLogin(r)'
    BY DEF InLogin, TypeOK
  <2>2. ASSUME NEW q \in Runs \ {r}, InLogin(q)', q \notin expired'
        PROVE  lock'[gstin'[q]] = q
    BY <2>2, <1>b DEF InLogin, TypeOK, LoginMutex
  <2> QED BY <2>1, <2>2 DEF LoginMutex
<1>3. ResultsDurable' /\ StagesFit' /\ LoginShown' /\ SessionStored'
  <2>1. ResultsDurable'
    BY <1>a, <1>d DEF TypeOK, ResultsDurable
  <2>2. StagesFit' /\ LoginShown'
    BY DEF TypeOK, StagesFit, LoginShown
  <2>3. SessionStored'
    BY <1>a, <1>d DEF TypeOK, SessionStored
  <2> QED BY <2>1, <2>2, <2>3
<1>4. SeenRejection'
  BY DEF TypeOK, SeenRejection
<1>5. CheckpointFresh' /\ RequestsRead'
  BY <1>d DEF TypeOK, CheckpointFresh, RequestsRead, Row
<1> QED BY <1>1, <1>2, <1>3, <1>4, <1>5

\* An exception, whoever catches it.
LEMMA FailsKeeps ==
  ASSUME IndInv, NEW r \in Runs, Fails(r)
  PROVE  IndInv'
<1>1. lock' \in {lock, Released(r)} /\ (Inline(r) => lock' = Released(r))
  BY DEF Fails, Unlock, Inline
<1>2. CASE Inline(r) /\ LeaveInline(r) /\ UNCHANGED stored
  BY <1>1, <1>2, LeaveInlineKeeps DEF Fails
<1>3. CASE ~Inline(r) /\ Ends(r, "failed") /\ UNCHANGED stage
  BY <1>1, <1>3, EndsKeeps DEF Fails
<1> QED BY <1>2, <1>3 DEF Fails

\* The deadline of a wait passes.
LEMMA DeadlinePassesKeeps ==
  ASSUME IndInv, NEW r \in Runs, DeadlinePasses(r)
  PROVE  IndInv'
<1> USE DEF IndInv, DeadlinePasses
<1>1. TypeOK'
  BY DEF TypeOK, Pcs, Ended, Stages
<1>2. LoginMutex'
  BY CheckpointAssumption DEF LoginMutex, InLogin, TypeOK, StagesFit, Pcs
<1>3. ResultsDurable' /\ StagesFit' /\ LoginShown' /\ SessionStored'
  BY DEF TypeOK, ResultsDurable, StagesFit, LoginShown, SessionStored, Stages, Kinds
<1>4. SeenRejection'
  BY DEF TypeOK, SeenRejection
<1>5. CheckpointFresh' /\ RequestsRead'
  BY CheckpointAssumption DEF TypeOK, CheckpointFresh, RequestsRead, StagesFit, Rows, Row, Stages, Statuses, Resolutions
<1> QED BY <1>1, <1>2, <1>3, <1>4, <1>5

\* The assisted run's look at its start page.
LEMMA StartAssistedKeeps ==
  ASSUME IndInv, NEW r \in Runs, StartAssisted(r)
  PROVE  IndInv'
<1> USE DEF IndInv, StartAssisted, Goto
<1>1. TypeOK'
  BY DEF TypeOK, Pcs, Ended, Stages
<1>2. LoginMutex'
  BY CheckpointAssumption DEF LoginMutex, InLogin, TypeOK, StagesFit, Pcs
<1>3. ResultsDurable' /\ StagesFit' /\ LoginShown' /\ SessionStored'
  BY DEF TypeOK, ResultsDurable, StagesFit, LoginShown, SessionStored, Stages, Kinds
<1>4. SeenRejection'
  BY DEF TypeOK, SeenRejection
<1>5. CheckpointFresh' /\ RequestsRead'
  BY CheckpointAssumption DEF TypeOK, CheckpointFresh, RequestsRead, StagesFit, Rows, Row, Stages, Statuses, Resolutions
<1> QED BY <1>1, <1>2, <1>3, <1>4, <1>5

\* An observation's look at its start page.
LEMMA DetectAtStartKeeps ==
  ASSUME IndInv, NEW r \in Runs, DetectAtStart(r)
  PROVE  IndInv'
<1> USE DEF IndInv, DetectAtStart, Goto
<1>1. TypeOK'
  BY DEF TypeOK, Pcs, Ended, Stages
<1>2. LoginMutex'
  BY CheckpointAssumption DEF LoginMutex, InLogin, TypeOK, StagesFit, Pcs
<1>3. ResultsDurable' /\ StagesFit' /\ LoginShown' /\ SessionStored'
  BY DEF TypeOK, ResultsDurable, StagesFit, LoginShown, SessionStored, Stages, Kinds
<1>4. SeenRejection'
  BY DEF TypeOK, SeenRejection
<1>5. CheckpointFresh' /\ RequestsRead'
  BY CheckpointAssumption DEF TypeOK, CheckpointFresh, RequestsRead, StagesFit, Rows, Row, Stages, Statuses, Resolutions
<1> QED BY <1>1, <1>2, <1>3, <1>4, <1>5

\* The login takes its lock.
LEMMA AcquireLoginKeeps ==
  ASSUME IndInv, NEW r \in Runs, AcquireLogin(r)
  PROVE  IndInv'
<1> USE DEF IndInv, AcquireLogin, LockFree, Goto
<1>1. TypeOK'
  BY DEF TypeOK, Pcs, Ended, Stages
<1>2. LoginMutex'
  BY CheckpointAssumption DEF LoginMutex, InLogin, TypeOK, StagesFit, Pcs
<1>3. ResultsDurable' /\ StagesFit' /\ LoginShown' /\ SessionStored'
  BY DEF TypeOK, ResultsDurable, StagesFit, LoginShown, SessionStored, Stages, Kinds
<1>4. SeenRejection'
  BY DEF TypeOK, SeenRejection
<1>5. CheckpointFresh' /\ RequestsRead'
  BY CheckpointAssumption DEF TypeOK, CheckpointFresh, RequestsRead, StagesFit, Rows, Row, Stages, Statuses, Resolutions
<1> QED BY <1>1, <1>2, <1>3, <1>4, <1>5

\* The login page is opened.
LEMMA OpenLoginKeeps ==
  ASSUME IndInv, NEW r \in Runs, OpenLogin(r)
  PROVE  IndInv'
<1> USE DEF IndInv, OpenLogin, Goto, Detects
<1>a. \E b \in BOOLEAN, label \in {"persisting", "filling", "creating"} :
        /\ loggedIn' = [loggedIn EXCEPT ![r] = b] /\ pc' = [pc EXCEPT ![r] = label]
        /\ label = "persisting" => b
  OBVIOUS
<1>1. TypeOK'
  BY DEF TypeOK, Pcs, Ended
<1>2. LoginMutex'
  BY DEF LoginMutex, InLogin, TypeOK, Pcs
<1>3. ResultsDurable' /\ StagesFit' /\ LoginShown' /\ SessionStored'
  <2>1. stage[r] = "auth"
    BY DEF StagesFit
  <2>2. pc'[r] \in {"persisting", "filling", "creating"} /\ (pc'[r] = "persisting" => loggedIn'[r])
    BY <1>a DEF TypeOK
  <2>3. \A q \in Runs \ {r} : pc'[q] = pc[q] /\ loggedIn'[q] = loggedIn[q]
    BY <1>a DEF TypeOK
  <2> QED BY <2>1, <2>2, <2>3 DEF ResultsDurable, StagesFit, LoginShown, SessionStored
<1>4. SeenRejection'
  BY DEF TypeOK, SeenRejection
<1>5. CheckpointFresh' /\ RequestsRead'
  BY DEF TypeOK, CheckpointFresh, RequestsRead, Row
<1> QED BY <1>1, <1>2, <1>3, <1>4, <1>5

\* The login form is filled in.
LEMMA FillLoginKeeps ==
  ASSUME IndInv, NEW r \in Runs, FillLogin(r)
  PROVE  IndInv'
<1> USE DEF IndInv, FillLogin, Goto, Detects
<1>1. TypeOK'
  BY DEF TypeOK, Pcs, Ended, Stages
<1>2. LoginMutex'
  BY CheckpointAssumption DEF LoginMutex, InLogin, TypeOK, StagesFit, Pcs
<1>3. ResultsDurable' /\ StagesFit' /\ LoginShown' /\ SessionStored'
  BY DEF TypeOK, ResultsDurable, StagesFit, LoginShown, SessionStored, Stages, Kinds
<1>4. SeenRejection'
  BY DEF TypeOK, SeenRejection
<1>5. CheckpointFresh' /\ RequestsRead'
  BY CheckpointAssumption DEF TypeOK, CheckpointFresh, RequestsRead, StagesFit, Rows, Row, Stages, Statuses, Resolutions
<1> QED BY <1>1, <1>2, <1>3, <1>4, <1>5

\* The checkpoint is created and committed.
LEMMA CreateCheckpointKeeps ==
  ASSUME IndInv, NEW r \in Runs, CreateCheckpoint(r)
  PROVE  IndInv'
<1> USE DEF IndInv, CreateCheckpoint, Goto, LoopHead
<1>1. TypeOK'
  BY StatusType DEF TypeOK, Pcs, Ended, Stages
<1>2. LoginMutex'
  BY CheckpointAssumption DEF LoginMutex, InLogin, TypeOK, StagesFit, Pcs
<1>3. ResultsDurable' /\ StagesFit' /\ LoginShown' /\ SessionStored'
  BY DEF TypeOK, ResultsDurable, StagesFit, LoginShown, SessionStored, Stages, Kinds
<1>4. SeenRejection'
  BY DEF TypeOK, SeenRejection
<1>5. CheckpointFresh' /\ RequestsRead'
  BY CheckpointAssumption DEF TypeOK, CheckpointFresh, RequestsRead, StagesFit, Rows, Row, Stages, Statuses, Resolutions
<1> QED BY <1>1, <1>2, <1>3, <1>4, <1>5

\* A wait ends at its deadline.
LEMMA TimesOutKeeps ==
  ASSUME IndInv, NEW r \in Runs, TimesOut(r)
  PROVE  IndInv'
<1> USE DEF IndInv, TimesOut, LoopHead, AfterLoop, Goto
<1>1. TypeOK'
  BY DEF TypeOK, Pcs, Ended, Stages
<1>2. LoginMutex'
  BY CheckpointAssumption DEF LoginMutex, InLogin, TypeOK, StagesFit, Pcs
<1>3. ResultsDurable' /\ StagesFit' /\ LoginShown' /\ SessionStored'
  BY DEF TypeOK, ResultsDurable, StagesFit, LoginShown, SessionStored, Stages, Kinds
<1>4. SeenRejection'
  BY DEF TypeOK, SeenRejection
<1>5. CheckpointFresh' /\ RequestsRead'
  BY CheckpointAssumption DEF TypeOK, CheckpointFresh, RequestsRead, StagesFit, Rows, Row, Stages, Statuses, Resolutions
<1> QED BY <1>1, <1>2, <1>3, <1>4, <1>5

\* A look at the row that is not a rejection.
LEMMA PollGoesOnKeeps ==
  ASSUME IndInv, NEW r \in Runs, pc[r] = "poll", ~Rejects(r),
         seen' = [seen EXCEPT ![r] = Loaded(r)],
         Goto(r, IF Loaded(r) = "approved" THEN AfterLoop(r) ELSE "pop"),
         UNCHANGED <<kind, gstin, stage, late, loggedIn, lock, expired, cp, queue, stored, obs, api>>
  PROVE  IndInv'
<1> USE DEF IndInv, Goto, LoopHead, AfterLoop
<1>1. TypeOK'
  BY StatusType DEF TypeOK, Pcs
<1>2. LoginMutex'
  BY DEF LoginMutex, InLogin, TypeOK, Pcs
<1>3. ResultsDurable' /\ StagesFit' /\ LoginShown' /\ SessionStored'
  BY DEF TypeOK, ResultsDurable, StagesFit, LoginShown, SessionStored
<1>4. SeenRejection'
  BY DEF TypeOK, SeenRejection, Rejects
<1>5. CheckpointFresh' /\ RequestsRead'
  BY DEF TypeOK, CheckpointFresh, RequestsRead, Row
<1> QED BY <1>1, <1>2, <1>3, <1>4, <1>5

\* Nothing to pop.
LEMMA PopNothingKeeps ==
  ASSUME IndInv, NEW r \in Runs, PopNothing(r)
  PROVE  IndInv'
<1> USE DEF IndInv, PopNothing, Goto
<1>1. TypeOK'
  BY DEF TypeOK, Pcs, Ended, Stages
<1>2. LoginMutex'
  BY CheckpointAssumption DEF LoginMutex, InLogin, TypeOK, StagesFit, Pcs
<1>3. ResultsDurable' /\ StagesFit' /\ LoginShown' /\ SessionStored'
  BY DEF TypeOK, ResultsDurable, StagesFit, LoginShown, SessionStored, Stages, Kinds
<1>4. SeenRejection'
  BY DEF TypeOK, SeenRejection
<1>5. CheckpointFresh' /\ RequestsRead'
  BY CheckpointAssumption DEF TypeOK, CheckpointFresh, RequestsRead, StagesFit, Rows, Row, Stages, Statuses, Resolutions
<1> QED BY <1>1, <1>2, <1>3, <1>4, <1>5

\* An action at the login page.
LEMMA LoginActionKeeps ==
  ASSUME IndInv, NEW r \in Runs, LoginAction(r)
  PROVE  IndInv'
<1> USE DEF IndInv, LoginAction, Goto, Detects
<1>a. loggedIn' \in [Runs -> BOOLEAN] /\ \A q \in Runs \ {r} : loggedIn'[q] = loggedIn[q]
  BY DEF TypeOK
<1>b. /\ seen' \in [Runs -> Statuses] /\ pc' \in [Runs -> Pcs \cup Ended]
      /\ \A q \in Runs \ {r} : pc'[q] = pc[q] /\ seen'[q] = seen[q]
  <2>1. Loaded(r) \in Statuses
    BY StatusType
  <2>2. CASE pc' = [pc EXCEPT ![r] = "resolving"] /\ seen' = [seen EXCEPT ![r] = Loaded(r)]
    BY <2>1, <2>2 DEF TypeOK, Pcs
  <2>3. CASE pc' = [pc EXCEPT ![r] = "submitting"] /\ seen' = seen
    BY <2>3 DEF TypeOK, Pcs
  <2> QED BY <2>2, <2>3
<1>e. \/ pc'[r] = "resolving" /\ loggedIn'[r]
      \/ pc'[r] = "submitting" /\ seen'[r] = seen[r]
  BY DEF TypeOK
<1>c. /\ queue' \in [Rows -> Seq(Actions)] /\ Loaded(r) \in Statuses
      /\ UNCHANGED <<kind, gstin, stage, late, lock, expired, cp, stored, obs, api>>
  BY QueueType, StatusType
<1> HIDE DEF LoginAction
<1>d. stage[r] = "auth" /\ pc[r] = "pop"
  BY DEF LoginAction
<1>1. TypeOK'
  BY <1>a, <1>b, <1>c DEF TypeOK
<1>2. LoginMutex'
  BY <1>b, <1>c, <1>d, <1>e DEF LoginMutex, InLogin, TypeOK, Pcs
<1>3. ResultsDurable' /\ StagesFit' /\ LoginShown' /\ SessionStored'
  <2>1. ResultsDurable' /\ SessionStored'
    BY <1>b, <1>c, <1>e DEF ResultsDurable, SessionStored
  <2>2. StagesFit'
    BY <1>b, <1>c, <1>d, <1>e DEF StagesFit
  <2>3. LoginShown'
    BY <1>a, <1>b, <1>e DEF LoginShown
  <2> QED BY <2>1, <2>2, <2>3
<1>4. SeenRejection'
  BY <1>a, <1>b, <1>c, <1>d, <1>e DEF TypeOK, SeenRejection
<1>5. CheckpointFresh' /\ RequestsRead'
  BY <1>b, <1>c, <1>d, <1>e DEF TypeOK, CheckpointFresh, RequestsRead, Row
<1> QED BY <1>1, <1>2, <1>3, <1>4, <1>5

\* The login form is submitted again.
LEMMA SubmitAfterHumanKeeps ==
  ASSUME IndInv, NEW r \in Runs, SubmitAfterHuman(r)
  PROVE  IndInv'
<1> USE DEF IndInv, SubmitAfterHuman, Goto
<1>1. TypeOK'
  BY DEF TypeOK, Pcs, Ended, Stages
<1>2. LoginMutex'
  BY CheckpointAssumption DEF LoginMutex, InLogin, TypeOK, StagesFit, Pcs
<1>3. ResultsDurable' /\ StagesFit' /\ LoginShown' /\ SessionStored'
  BY DEF TypeOK, ResultsDurable, StagesFit, LoginShown, SessionStored, Stages, Kinds
<1>4. SeenRejection'
  BY DEF TypeOK, SeenRejection
<1>5. CheckpointFresh' /\ RequestsRead'
  BY CheckpointAssumption DEF TypeOK, CheckpointFresh, RequestsRead, StagesFit, Rows, Row, Stages, Statuses, Resolutions
<1> QED BY <1>1, <1>2, <1>3, <1>4, <1>5

\* An action at another page.
LEMMA WorkActionKeeps ==
  ASSUME IndInv, NEW r \in Runs, WorkAction(r)
  PROVE  IndInv'
<1> USE DEF IndInv, WorkAction, Goto
<1>1. TypeOK'
  BY QueueType DEF TypeOK, Pcs, Ended, Stages
<1>2. LoginMutex'
  BY CheckpointAssumption DEF LoginMutex, InLogin, TypeOK, StagesFit, Pcs
<1>3. ResultsDurable' /\ StagesFit' /\ LoginShown' /\ SessionStored'
  BY DEF TypeOK, ResultsDurable, StagesFit, LoginShown, SessionStored, Stages, Kinds
<1>4. SeenRejection'
  BY DEF TypeOK, SeenRejection
<1>5. CheckpointFresh' /\ RequestsRead'
  BY CheckpointAssumption DEF TypeOK, CheckpointFresh, RequestsRead, StagesFit, Rows, Row, Stages, Statuses, Resolutions
<1> QED BY <1>1, <1>2, <1>3, <1>4, <1>5

\* A run approves its own checkpoint.
LEMMA ResolveOwnKeeps ==
  ASSUME IndInv, NEW r \in Runs, ResolveOwn(r)
  PROVE  IndInv'
<1> USE DEF IndInv, ResolveOwn, Goto
<1>a. \A c \in Rows : /\ cp[c] # "absent" => cp'[c] # "absent"
                      /\ c # Row(r) => cp'[c] = cp[c]
  BY StatusType DEF TypeOK
<1>1. TypeOK'
  BY StatusType DEF TypeOK, Pcs, Ended
<1>2. LoginMutex'
  BY DEF LoginMutex, InLogin, TypeOK, Pcs
<1>3. ResultsDurable' /\ StagesFit' /\ LoginShown' /\ SessionStored'
  BY DEF TypeOK, ResultsDurable, StagesFit, LoginShown, SessionStored
<1>4. SeenRejection'
  BY DEF TypeOK, SeenRejection
<1>5. CheckpointFresh' /\ RequestsRead'
  <2>1. CheckpointFresh'
    BY <1>a DEF StagesFit, TypeOK, CheckpointFresh, Row, Rows, Stages
  <2>2. ASSUME NEW o \in Requests, api[o] # Nobody PROVE api[o].row \in Rows
    BY <2>2 DEF TypeOK
  <2>3. RequestsRead'
    BY <1>a, <2>2 DEF RequestsRead
  <2> QED BY <2>1, <2>3
<1> QED BY <1>1, <1>2, <1>3, <1>4, <1>5

\* The final detection shows a login.
LEMMA VerifiedKeeps ==
  ASSUME IndInv, NEW r \in Runs, pc[r] = "verify", NEW b \in BOOLEAN, Verified(r, b), Detects(r, b),
         Goto(r, IF stage[r] = "auth" THEN "persisting" ELSE "closing"),
         UNCHANGED <<kind, gstin, stage, late, seen, lock, expired, cp, queue, stored, obs, api>>
  PROVE  IndInv'
<1> USE DEF IndInv, Goto, Detects, Verified
<1>1. TypeOK'
  BY DEF TypeOK, Pcs
<1>2. LoginMutex'
  BY DEF LoginMutex, InLogin, TypeOK, Pcs
<1>3. ResultsDurable' /\ StagesFit' /\ LoginShown' /\ SessionStored'
  BY DEF TypeOK, ResultsDurable, StagesFit, LoginShown, SessionStored, Stages
<1>4. SeenRejection'
  BY DEF TypeOK, SeenRejection
<1>5. CheckpointFresh' /\ RequestsRead'
  BY DEF TypeOK, CheckpointFresh, RequestsRead, Row
<1> QED BY <1>1, <1>2, <1>3, <1>4, <1>5

\* The portal session is added.
LEMMA PersistKeeps ==
  ASSUME IndInv, NEW r \in Runs, Persist(r)
  PROVE  IndInv'
<1> USE DEF IndInv, Persist, Goto
<1>1. TypeOK'
  BY DEF TypeOK, Pcs, Ended, Stages
<1>2. LoginMutex'
  BY CheckpointAssumption DEF LoginMutex, InLogin, TypeOK, StagesFit, Pcs
<1>3. ResultsDurable' /\ StagesFit' /\ LoginShown' /\ SessionStored'
  BY DEF TypeOK, ResultsDurable, StagesFit, LoginShown, SessionStored, Stages, Kinds
<1>4. SeenRejection'
  BY DEF TypeOK, SeenRejection
<1>5. CheckpointFresh' /\ RequestsRead'
  BY CheckpointAssumption DEF TypeOK, CheckpointFresh, RequestsRead, StagesFit, Rows, Row, Stages, Statuses, Resolutions
<1> QED BY <1>1, <1>2, <1>3, <1>4, <1>5

\* A login of its own is over.
LEMMA LoginDoneKeeps ==
  ASSUME IndInv, NEW r \in Runs, pc[r] = "continuing", lock' = Released(r), Goto(r, "closing"),
         stored' \in {stored, [stored EXCEPT ![r] = "committed"]},
         UNCHANGED <<kind, gstin, stage, late, loggedIn, seen, expired, cp, queue, obs, api>>
  PROVE  IndInv'
<1> USE DEF IndInv, Goto
<1>1. TypeOK'
  BY DEF TypeOK, Pcs, Released
<1>2. LoginMutex'
  BY CheckpointAssumption DEF LoginMutex, InLogin, TypeOK, Pcs, Released
<1>3. ResultsDurable' /\ StagesFit' /\ LoginShown' /\ SessionStored'
  BY DEF TypeOK, ResultsDurable, StagesFit, LoginShown, SessionStored
<1>4. SeenRejection'
  BY DEF TypeOK, SeenRejection
<1>5. CheckpointFresh' /\ RequestsRead'
  BY DEF TypeOK, CheckpointFresh, RequestsRead, Row
<1> QED BY <1>1, <1>2, <1>3, <1>4, <1>5

\* The handler returned.
LEMMA CloseKeeps ==
  ASSUME IndInv, NEW r \in Runs, Close(r)
  PROVE  IndInv'
<1> USE DEF IndInv, Close, Goto
<1>1. TypeOK'
  BY QueueType, StatusType DEF TypeOK, Pcs, Ended, Stages
<1>2. LoginMutex'
  BY CheckpointAssumption DEF LoginMutex, InLogin, TypeOK, StagesFit, Pcs
<1>3. ResultsDurable' /\ StagesFit' /\ LoginShown' /\ SessionStored'
  BY DEF TypeOK, ResultsDurable, StagesFit, LoginShown, SessionStored, Stages, Kinds
<1>4. SeenRejection'
  BY DEF TypeOK, SeenRejection
<1>5. CheckpointFresh' /\ RequestsRead'
  BY CheckpointAssumption DEF TypeOK, CheckpointFresh, RequestsRead, StagesFit, Rows, Row, Stages, Statuses, Resolutions
<1> QED BY <1>1, <1>2, <1>3, <1>4, <1>5

\* So does every step of a run.
LEMMA StepKeeps ==
  ASSUME IndInv, NEW r \in Runs, Step(r)
  PROVE  IndInv'
<1>1. CASE LoginBusy(r) \/ ActionRaises(r)
  BY <1>1, FailsKeeps DEF LoginBusy, ActionRaises
<1>2. CASE Poll(r)
  BY <1>2, FailsKeeps, PollGoesOnKeeps DEF Poll
<1>3. CASE Verify(r)
  BY <1>3, FailsKeeps, VerifiedKeeps DEF Verify
<1>4. CASE PostAuthContinue(r)
  <2>1. stage[r] = "auth" /\ lock' = Released(r)
    BY <1>4 DEF PostAuthContinue, Unlock, IndInv, StagesFit
  <2>2. stored' \in {stored, [stored EXCEPT ![r] = "committed"]}
    BY <1>4 DEF PostAuthContinue
  <2>3. CASE Inline(r) /\ LeaveInline(r)
    BY <1>4, <2>1, <2>2, <2>3, LeaveInlineKeeps DEF PostAuthContinue
  <2>4. CASE ~Inline(r) /\ Goto(r, "closing") /\ UNCHANGED <<stage, seen, loggedIn, late, expired, queue>>
    BY <1>4, <2>1, <2>2, <2>4, LoginDoneKeeps DEF PostAuthContinue
  <2> QED BY <1>4, <2>3, <2>4 DEF PostAuthContinue
<1> QED
  BY <1>1, <1>2, <1>3, <1>4, StartAssistedKeeps, DetectAtStartKeeps, AcquireLoginKeeps,
     OpenLoginKeeps, FillLoginKeeps, CreateCheckpointKeeps, TimesOutKeeps, PopNothingKeeps,
     LoginActionKeeps, SubmitAfterHumanKeeps, WorkActionKeeps, ResolveOwnKeeps, PersistKeeps,
     CloseKeeps DEF Step

\* And every exception, cancellation and crash.
LEMMA InterruptedKeeps ==
  ASSUME IndInv, NEW r \in Runs, Interrupted(r)
  PROVE  IndInv'
<1>1. CASE Raises(r)
  BY <1>1, FailsKeeps DEF Raises
<1>2. CASE BudgetExceeded(r)
  BY <1>2, EndsKeeps DEF BudgetExceeded, Unlock
<1>3. CASE Crash(r)
  BY <1>3, EndsKeeps DEF Crash
<1> QED BY <1>1, <1>2, <1>3 DEF Interrupted

-----------------------------------------------------------------------------
\* Operators and the clock keep the invariant.

\* Operators see rows of runs.
LEMMA AttendedType == ASSUME TypeOK PROVE Attended \subseteq Rows
<1> SUFFICES ASSUME NEW c \in Attended PROVE c \in Rows
  OBVIOUS
<1>1. PICK r \in Runs : c = Row(r)
  BY DEF Attended
<1> QED BY <1>1 DEF TypeOK, Row, Rows

\* An operator's request reads a pending row, or writes its decision.
LEMMA ResolveKeeps ==
  ASSUME IndInv, NEW o \in Requests,
         \/ CommitResolve(o)
         \/ \E c \in Attended, status \in Resolutions : ReadForResolve(o, c, status)
  PROVE  IndInv'
<1> USE DEF IndInv, runVars
<1>1. CASE CommitResolve(o)
  <2>1. api[o].row \in Rows /\ api[o].status \in Resolutions
    BY <1>1 DEF TypeOK, CommitResolve
  <2>2. /\ cp' \in [Rows -> Statuses] /\ cp'[api[o].row] # "absent"
        /\ \A c \in Rows : cp[c] # "absent" => cp'[c] # "absent"
        /\ \A c \in Rows : cp[c] = "absent" => cp'[c] = "absent"
    BY <1>1, <2>1 DEF TypeOK, RequestsRead, CommitResolve, Statuses, Resolutions
  <2>3. api' \in [Requests -> {Nobody} \cup [row : Rows, status : Resolutions, read : Statuses]]
    BY <1>1 DEF TypeOK, CommitResolve
  <2>4. TypeOK'
    BY <1>1, <2>2, <2>3 DEF TypeOK, CommitResolve
  <2>5. LoginMutex' /\ ResultsDurable' /\ StagesFit' /\ LoginShown' /\ SessionStored' /\ SeenRejection'
    BY <1>1 DEF CommitResolve, LoginMutex, InLogin, ResultsDurable, StagesFit, LoginShown,
                SessionStored, SeenRejection
  <2>6. CheckpointFresh'
    BY <1>1, <2>2 DEF CommitResolve, TypeOK, CheckpointFresh, Row, Rows, Stages
  <2>7. RequestsRead'
    <3> SUFFICES ASSUME NEW p \in Requests, api'[p] # Nobody
                 PROVE  api'[p].read = "pending" /\ cp'[api'[p].row] # "absent"
      BY DEF RequestsRead
    <3>1. api'[p] = api[p] /\ api[p] # Nobody
      BY <1>1 DEF TypeOK, CommitResolve
    <3>2. api[p].row \in Rows
      BY <3>1 DEF TypeOK
    <3> QED BY <2>2, <3>1, <3>2 DEF RequestsRead
  <2> QED BY <2>4, <2>5, <2>6, <2>7
<1>2. ASSUME NEW c \in Attended, NEW status \in Resolutions, ReadForResolve(o, c, status)
      PROVE  IndInv'
  <2>1. c \in Rows
    BY AttendedType
  <2>2. cp[c] = "pending"
    BY <1>2 DEF ReadForResolve, MayResolve
  <2>3. api' \in [Requests -> {Nobody} \cup [row : Rows, status : Resolutions, read : Statuses]]
    BY <1>2, <2>1, <2>2 DEF TypeOK, ReadForResolve, Statuses
  <2>4. TypeOK'
    BY <1>2, <2>3 DEF TypeOK, ReadForResolve
  <2>5. LoginMutex' /\ ResultsDurable' /\ StagesFit' /\ LoginShown' /\ SessionStored' /\ SeenRejection'
    BY <1>2 DEF ReadForResolve, LoginMutex, InLogin, ResultsDurable, StagesFit, LoginShown,
                SessionStored, SeenRejection
  <2>6. CheckpointFresh' /\ RequestsRead'
    BY <1>2, <2>2 DEF ReadForResolve, TypeOK, CheckpointFresh, RequestsRead, Row
  <2> QED BY <2>4, <2>5, <2>6
<1> QED BY <1>1, <1>2

\* An action is queued.
LEMMA EnqueueKeeps ==
  ASSUME IndInv, NEW c \in Attended, NEW a \in Actions, EnqueueAction(c, a)
  PROVE  IndInv'
<1> USE DEF IndInv, runVars, EnqueueAction
<1>1. c \in Rows
  BY AttendedType
<1>2. queue' \in [Rows -> Seq(Actions)]
  <2>1. Append(queue[c], a) \in Seq(Actions)
    BY <1>1 DEF TypeOK
  <2> QED BY <2>1 DEF TypeOK
<1>3. TypeOK'
  BY <1>2 DEF TypeOK
<1>4. LoginMutex' /\ ResultsDurable' /\ StagesFit' /\ LoginShown' /\ SessionStored' /\ SeenRejection'
  BY DEF LoginMutex, InLogin, ResultsDurable, StagesFit, LoginShown, SessionStored, SeenRejection
<1>5. CheckpointFresh' /\ RequestsRead'
  BY DEF CheckpointFresh, RequestsRead, Row
<1> QED BY <1>3, <1>4, <1>5

\* A lock outlives its TTL.
LEMMA LockExpiresKeeps ==
  ASSUME IndInv, NEW g \in Gstins, LockExpires(g)
  PROVE  IndInv'
<1> USE DEF IndInv, runVars, LockExpires
<1>1. TypeOK'
  BY DEF TypeOK
<1>2. LoginMutex'
  BY DEF TypeOK, LoginMutex, InLogin, Active
<1>3. ResultsDurable' /\ StagesFit' /\ LoginShown' /\ SessionStored' /\ SeenRejection'
  BY DEF ResultsDurable, StagesFit, LoginShown, SessionStored, SeenRejection
<1>4. CheckpointFresh' /\ RequestsRead'
  BY DEF CheckpointFresh, RequestsRead, Row
<1> QED BY <1>1, <1>2, <1>3, <1>4

-----------------------------------------------------------------------------
\* The theorems.

LEMMA InitInv == Init => IndInv
<1> SUFFICES ASSUME Init PROVE IndInv
  OBVIOUS
<1>1. TypeOK
  BY DEF Init, TypeOK, Pcs, Stages, Kinds, Statuses, Rows
<1>2. LoginMutex /\ ResultsDurable /\ StagesFit /\ LoginShown /\ SessionStored /\ SeenRejection
  BY DEF Init, LoginMutex, InLogin, ResultsDurable, StagesFit, LoginShown, SessionStored,
         SeenRejection
<1>3. CheckpointFresh /\ RequestsRead
  BY <1>1 DEF Init, TypeOK, CheckpointFresh, RequestsRead, Row, Rows, Stages
<1> QED BY <1>1, <1>2, <1>3 DEF IndInv

LEMMA NextKeeps == IndInv /\ [Next]_vars => IndInv'
<1> SUFFICES ASSUME IndInv, [Next]_vars PROVE IndInv'
  OBVIOUS
<1>1. CASE \E r \in Runs : Step(r) \/ Interrupted(r)
  BY <1>1, StepKeeps, InterruptedKeeps
<1>2. CASE Operators
  BY <1>2, ResolveKeeps, EnqueueKeeps DEF Operators
<1>3. CASE Time
  BY <1>3, DeadlinePassesKeeps, LockExpiresKeeps DEF Time
<1>4. CASE UNCHANGED vars
  BY <1>4 DEF vars, runVars, IndInv, TypeOK, LoginMutex, InLogin, ResultsDurable, StagesFit,
              CheckpointFresh, LoginShown, SessionStored, SeenRejection, RequestsRead, Row
<1> QED BY <1>1, <1>2, <1>3, <1>4 DEF Next

\* The invariant holds in every behaviour.
THEOREM Invariance == Spec => []IndInv
BY InitInv, NextKeeps, PTL DEF Spec

\* Every variable keeps its type (the rows, lists and locals of the three engines).
THEOREM Typing == Spec => []TypeOK
BY Invariance, PTL DEF IndInv

\* At most one login per GSTIN is inside GstAuthSessionEngine.run, unless its lock expired.
THEOREM Mutex == Spec => []LoginMutex
BY Invariance, PTL DEF IndInv

\* What a returned run promised is committed (the commit of run_job after the handler).
THEOREM Durable == Spec => []ResultsDurable
BY Invariance, PTL DEF IndInv

\* A run that read a rejection of its present checkpoint does not end as done, unless its page
\* showed a login, which is not asked what the row says, or it is the assisted one.
THEOREM Rejection == Spec => []RejectionHonoured
<1>1. IndInv => RejectionHonoured
  BY DEF IndInv, SeenRejection, RejectionHonoured
<1> QED BY <1>1, Invariance, PTL

-----------------------------------------------------------------------------
\* Action properties.

\* Steps of a run that write neither its portal session nor a checkpoint row.
LEMMA QuietSteps ==
  ASSUME NEW r \in Runs, Step(r) \/ Interrupted(r)
  PROVE  \/ UNCHANGED <<stored, cp>>
         \/ UNCHANGED cp /\ stored' = [stored EXCEPT ![r] = IF @ = "added" THEN "no" ELSE @]
         \/ CreateCheckpoint(r) \/ ResolveOwn(r) \/ Persist(r) \/ PostAuthContinue(r) \/ Close(r)
<1>1. Fails(r) => \/ UNCHANGED <<stored, cp>>
                  \/ UNCHANGED cp /\ stored' = [stored EXCEPT ![r] = IF @ = "added" THEN "no" ELSE @]
  BY DEF Fails, Ends
<1>2. CASE Interrupted(r)
  BY <1>1, <1>2 DEF Interrupted, Raises, BudgetExceeded, Crash, Ends
<1>3. CASE LoginBusy(r) \/ ActionRaises(r) \/ Poll(r) \/ Verify(r)
  BY <1>1, <1>3 DEF LoginBusy, ActionRaises, Poll, Verify
<1>4. CASE \/ StartAssisted(r) \/ DetectAtStart(r) \/ AcquireLogin(r) \/ OpenLogin(r)
           \/ FillLogin(r) \/ TimesOut(r) \/ PopNothing(r)
  BY <1>4 DEF StartAssisted, DetectAtStart, AcquireLogin, OpenLogin, FillLogin, TimesOut, PopNothing
<1>5. CASE LoginAction(r) \/ SubmitAfterHuman(r) \/ WorkAction(r)
  BY <1>5 DEF LoginAction, SubmitAfterHuman, WorkAction
<1> QED BY <1>2, <1>3, <1>4, <1>5 DEF Step

\* A portal session is stored only after a page that showed a login (the final detection
\* in GstAuthSessionEngine.run).
THEOREM SessionAfterLogin == Spec => SessionFromLogin
<1>1. ASSUME IndInv, [Next]_vars, NEW q \in Runs, stored[q] = "no", stored'[q] # "no"
      PROVE  loggedIn[q]
  <2> USE <1>1 DEF IndInv, TypeOK
  <2>1. PICK r \in Runs : Step(r) \/ Interrupted(r)
    BY DEF Next, vars, runVars, Operators, Time, CommitResolve, ReadForResolve, EnqueueAction,
           DeadlinePasses, LockExpires
  <2>2. CASE CreateCheckpoint(r) \/ Close(r)
    BY <2>2 DEF CreateCheckpoint, Close
  <2>3. CASE ResolveOwn(r)
    BY <2>3 DEF ResolveOwn
  <2>4. CASE Persist(r)
    BY <2>4 DEF Persist, LoginShown
  <2>5. CASE PostAuthContinue(r)
    BY <2>5 DEF PostAuthContinue, SessionStored
  <2> QED BY <2>1, <2>2, <2>3, <2>4, <2>5, QuietSteps
<1>2. IndInv /\ [Next]_vars
        => [\A r \in Runs : stored[r] = "no" /\ stored'[r] # "no" => loggedIn[r]]_vars
  BY <1>1
<1> QED BY <1>2, Invariance, PTL DEF Spec, SessionFromLogin

\* A decision is replaced only by a request that read the row as pending, or by the run's
\* own approval after a login (OperatorCheckpointService.resolve).
THEOREM Decisions == Spec => DecisionStands
<1>1. ASSUME IndInv, [Next]_vars, NEW c \in Rows, cp[c] \in Resolutions, cp'[c] # cp[c]
      PROVE  \/ \E o \in Requests : api[o] # Nobody /\ api[o].row = c /\ api[o].read = "pending"
             \/ pc[c[1]] = "resolving" /\ stage[c[1]] = c[2] /\ loggedIn[c[1]]
  <2> USE <1>1 DEF IndInv, TypeOK
  <2>1. CASE \E r \in Runs : Step(r) \/ Interrupted(r)
    <3>1. PICK r \in Runs : Step(r) \/ Interrupted(r)
      BY <2>1
    <3>2. CASE CreateCheckpoint(r)
      BY <3>2 DEF CreateCheckpoint, CheckpointFresh, Resolutions
    <3>3. CASE ResolveOwn(r)
      BY <3>3 DEF ResolveOwn, LoginShown, Row
    <3>4. CASE Persist(r) \/ PostAuthContinue(r) \/ Close(r)
      BY <3>4 DEF Persist, PostAuthContinue, Close
    <3> QED BY <3>1, <3>2, <3>3, <3>4, QuietSteps
  <2>2. CASE \E o \in Requests : CommitResolve(o)
    BY <2>2 DEF CommitResolve, RequestsRead
  <2> QED
    BY <2>1, <2>2 DEF Next, vars, Operators, Time, ReadForResolve, EnqueueAction, DeadlinePasses,
                      LockExpires
<1>2. IndInv /\ [Next]_vars
        => [\A c \in Rows : cp[c] \in Resolutions /\ cp'[c] # cp[c] =>
              \/ \E o \in Requests : api[o] # Nobody /\ api[o].row = c /\ api[o].read = "pending"
              \/ pc[c[1]] = "resolving" /\ stage[c[1]] = c[2] /\ loggedIn[c[1]]]_vars
  BY <1>1
<1> QED BY <1>2, Invariance, PTL DEF Spec, DecisionStands
=============================================================================
