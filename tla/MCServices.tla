----------------------------- MODULE MCServices -----------------------------
(***************************************************************************)
(* The services on small instances.  A behaviour is one of a single        *)
(* service, the focus, and the others stay as they start: their states add *)
(* up instead of multiplying.                                              *)
(***************************************************************************)
EXTENDS Services

CONSTANTS
  c1, t2,       \* a client, a tick of the month
  r1, r2, r3,   \* a smoke run, a probe, a bundle
  x2,           \* a text
  j1, j2,       \* validated jobs
  j3, l1        \* another and a login job

VARIABLE focus

ServiceNames == {"month", "mail", "contexts", "alerts", "import", "promotion", "evidence", "operators",
             "campaigns", "captcha"}

\* Bounds: no chaos validation, which differs from smoke in the end of its verdict only; at
\* most one text is empty.
MCInit ==
  /\ focus \in ServiceNames
  /\ Month!Init /\ Mail!Init /\ Contexts!Init /\ Alerts!Init
  /\ Import!Init /\ Promotion!Init /\ Evidence!Init /\ Operators!Init
  /\ Campaigns!Init /\ Captcha!Init
  /\ focus # "month" => due = {}
  /\ focus # "operators" => allowed
  /\ kind \in IF focus = "campaigns" THEN {"none", "smoke", "recovery"} ELSE {"none"}
  /\ empty \in IF focus = "captcha" THEN {{}, {x2}} ELSE {{}}

\* Bound: the second tick and the batch job are not in the same behaviour.
TickOrBatch == tick'[t2].pc = "idle" \/ job'[<<c1, "batch">>] = "absent"

\* Bound: nor are two of a smoke run, a probe and a bundle, which share the retention only.
OneRun == Cardinality({q \in {r1, r2, r3} : evidencePc'[q] # "idle"}) <= 1

\* Bounds: a replay file has one of a line written in part, a clock set back and 5000 lines,
\* and then nothing of its run expires.
OneFlaw ==
  \A q \in Smokes : LET flaws == log'[q] \cap (Evidence!Flaws \cup {"many"}) IN
    flaws = {} \/ (Cardinality(flaws) = 1 /\ aged' = {})

\* Bounds: one text is sent, and no login meets a captcha, in a behaviour in which the handler
\* is held up.
HeldUpOrTexts ==
  \/ \A h \in Handlers : held'[h] = 0
  \/ meant'[x2] = Nobody /\ \A l \in Logins : login'[l] = "idle"

\* Bounds: beside a validation only its own jobs run, without retries and late heartbeats,
\* and none when it is over; without one, at most one of the two other jobs runs.
FewJobs ==
  /\ \E j \in {j3, l1} : jobState'[j] = "queued"
  /\ kind # "none" =>
       /\ \A j \in {j3, l1} : jobState'[j] = "queued"
       /\ \A j \in {j1, j2} : jobState'[j] # "retrying" /\ lease'[j] # "revived"
       /\ campaignPc \in {"over", "dead"} => UNCHANGED jobState /\ UNCHANGED lease /\ UNCHANGED contextRows

Frozen ==
  /\ UNCHANGED focus
  /\ focus # "month" => UNCHANGED monthVars
  /\ focus # "mail" => UNCHANGED mailVars
  /\ focus # "contexts" => UNCHANGED contextVars
  /\ focus # "alerts" => UNCHANGED alertVars
  /\ focus # "import" => UNCHANGED importVars
  /\ focus # "promotion" => UNCHANGED promotionVars
  /\ focus # "evidence" => UNCHANGED evidenceVars
  /\ focus # "operators" => UNCHANGED operatorVars
  /\ focus # "campaigns" => UNCHANGED campaignVars
  /\ focus # "captcha" => UNCHANGED captchaVars

MCNext ==
  \/ focus = "month" /\ Month!Next /\ TickOrBatch /\ Frozen
  \/ focus = "mail" /\ Mail!Next /\ Frozen
  \/ focus = "contexts" /\ Contexts!Next /\ Frozen
  \/ focus = "alerts" /\ Alerts!Next /\ Frozen
  \/ focus = "import" /\ Import!Next /\ Frozen
  \/ focus = "promotion" /\ Promotion!Next /\ Frozen
  \/ focus = "evidence" /\ Evidence!Next /\ OneRun /\ OneFlaw /\ Frozen
  \/ focus = "operators" /\ Operators!Next /\ Frozen
  \/ focus = "campaigns" /\ Campaigns!Next /\ FewJobs /\ Frozen
  \/ focus = "captcha" /\ Captcha!Next /\ HeldUpOrTexts /\ Frozen

MCvars == <<focus, monthVars, mailVars, contextVars, alertVars, importVars, promotionVars,
            evidenceVars, operatorVars, campaignVars, captchaVars>>

MCSpec == MCInit /\ [][MCNext]_MCvars /\ Month!Fairness /\ Campaigns!Fairness
=============================================================================
