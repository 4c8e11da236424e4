------------------------------ MODULE Services ------------------------------
(***************************************************************************)
(* Ten services side by side.  They share no state of these models, so a   *)
(* behaviour of all is one of each, in any interleaving or at once.        *)
(***************************************************************************)
EXTENDS Integers, Sequences, FiniteSets

CONSTANTS
  Clients, BatchClients, HandCopied, Ticks,       \* a month of downloads
  MailRuns,                                       \* the mail of a key
  Tasks, MaxContexts,                             \* a worker's browser
  Types, Callers, Cooldown, Window, Cap, MaxNow, MaxRecords,  \* alerts
  Imports, ApiImports,                            \* client imports
  Promotions,                                     \* versions of a selector
  Smokes, Probes, Bundles, Captures, Screenshots, MaxTakes, Sweeps,   \* evidence of portal runs
  Registers, Disables, Texts, Reminders,          \* a Telegram user
  OkCases, FailCases, Others, Logins,             \* jobs that are validated, and others
  Handlers, Timeout, Slice, Pause,                \* executions that meet a captcha
  Nobody

\* Different things have different names, Nobody (and Never, -1) is none of them, and times
\* and limits are numbers.
ASSUME NamesAssumption ==
  /\ BatchClients \subseteq Clients
  /\ ((Clients \X {"overnight"}) \cup (BatchClients \X {"batch"})) \cap Ticks = {}
  /\ Nobody \notin Ticks \cup (Clients \X {"overnight"}) \cup (BatchClients \X {"batch"})
  /\ Nobody \notin MailRuns \cup Tasks \cup Imports \cup Clients
  /\ MaxContexts \in Int
  /\ Cooldown \in Int /\ Window \in Int /\ MaxNow \in Nat /\ MaxRecords \in Nat
  /\ -1 \notin Callers
  /\ Smokes \cap Bundles = {} /\ Screenshots \subseteq Captures
  /\ {"workflow.start", "workflow.completed", "torn", "earlier", "many"} \cap Captures = {}
  /\ Nobody \notin Registers \cup Disables \cup Texts \cup Reminders
  /\ Logins \cap Handlers = {} /\ Nobody \notin Logins \cup Handlers
  /\ Timeout \in Nat /\ Slice \in Nat \ {0} /\ Pause \in Nat

VARIABLES
  due, file, job, tracker, writer, lock, tick, run,
  mailRow, mailWriter, mailPc, mails, lost,
  browser, old, created, open, task, contextPc, row, committed,
  now, alerted, exists, holder, call,
  known, user, vault, tmp, clientHolder, imp, torn, clashed,
  rows, new, promotionPc, found,
  evidencePc, disk, flushed, log, done, index, aged, sweep,
  allowed, status, statusHolder, statusPc, saw, logged, reminded,
  kind, campaignPc, campaign, pending, completed, failed, late, verdicts, result,
  jobState, lease, beating, contextRows, intact, scan, doubt, scored, said,
  captchaFile, login, list, meant, empty, captchaPc, captchaRow, elapsed, till, text, typed, told,
  held, asked

monthVars == <<due, file, job, tracker, writer, lock, tick, run>>
mailVars == <<mailRow, mailWriter, mailPc, mails, lost>>
contextVars == <<browser, old, created, open, task, contextPc, row, committed>>
alertVars == <<now, alerted, exists, holder, call>>
importVars == <<known, user, vault, tmp, clientHolder, imp, torn, clashed>>
promotionVars == <<rows, new, promotionPc, found>>
evidenceVars == <<evidencePc, disk, flushed, log, done, index, aged, sweep>>
operatorVars == <<allowed, status, statusHolder, statusPc, saw, logged, reminded>>
campaignVars == <<kind, campaignPc, campaign, pending, completed, failed, late, verdicts, result,
                  jobState, lease, beating, contextRows, intact, scan, doubt, scored, said>>
captchaVars == <<captchaFile, login, list, meant, empty, captchaPc, captchaRow, elapsed, till,
                 text, typed, told, held, asked>>

Month == INSTANCE Gstr2bDownload
Mail == INSTANCE EmailDelivery
  WITH Runs <- MailRuns, row <- mailRow, writer <- mailWriter, pc <- mailPc
Contexts == INSTANCE BrowserContexts WITH pc <- contextPc
Alerts == INSTANCE AnomalyAlerts
Import == INSTANCE ClientImport WITH holder <- clientHolder
Promotion == INSTANCE SelectorPromotion WITH pc <- promotionPc
Evidence == INSTANCE RunEvidence WITH pc <- evidencePc
Operators == INSTANCE TelegramOperators WITH holder <- statusHolder, pc <- statusPc
Campaigns == INSTANCE ValidationCampaigns
  WITH pc <- campaignPc, run <- campaign, found <- verdicts, job <- jobState, context <- contextRows
Captcha == INSTANCE CaptchaRelay
  WITH Nothing <- Nobody, file <- captchaFile, pc <- captchaPc, row <- captchaRow

Spec ==
  /\ Month!Spec /\ Mail!Spec /\ Contexts!Spec /\ Alerts!Spec /\ Import!Spec
  /\ Promotion!Spec /\ Evidence!Spec /\ Operators!Spec /\ Campaigns!Spec /\ Captcha!Spec

-----------------------------------------------------------------------------
\* The properties of the services; each is stated, with its reason, in its module.

\* Every service's variables keep their types: what the code writes only into a session
\* that is rolled back (the tracker's running and failed, a mail's queued and failed) is
\* never found committed.
TypeOK ==
  /\ Month!TypeOK /\ Mail!TypeOK /\ Contexts!TypeOK /\ Alerts!TypeOK /\ Import!TypeOK
  /\ Promotion!TypeOK /\ Evidence!TypeOK /\ Operators!TypeOK /\ Campaigns!TypeOK
  /\ Captcha!TypeOK

\* gst/gstr2b_download.py: one run at a time works on a client's month.
ExclusiveDownload == Month!ExclusiveDownload

\* gst/gstr2b_download.py and gst/overnight.py: ok and skipped are said only of good files.
OutcomeTruthful == Month!OutcomeTruthful

\* gst/overnight.py: a tick enqueues or settles all its clients, or does nothing.
TickAllOrNothing == Month!TickAllOrNothing

\* gst/overnight.py: a tick that was started ends, whatever runs and ticks hold its rows.
TickEnds == Month!TickEnds

\* orchestration/handlers/email_delivery.py: a second mail only for a lost transaction.
MailOnce == Mail!MailOnce

\* browser/pool.py: leaked contexts are bounded by the retirement of their browser.
OpenBounded == Contexts!OpenBounded

\* browser/session.py: the context of a row committed as closed is not open.
ClosedMeansGone == Contexts!ClosedMeansGone

\* watchdog/anomaly.py: alerts of a type keep the cooldown unless their transactions overlap.
AlertsSpaced == Alerts!AlertsSpaced

\* clients/service.py, vault/file_vault.py: a committed credential row has its password, until
\* two processes write the vault at a time.
CredentialsMatch == Import!CredentialsMatch

\* gst/selector_promotion.py: an acknowledged promotion is the newest version.
AcknowledgedIsNewest == Promotion!AcknowledgedIsNewest

\* browser/artifacts.py, validation/retention.py: files and rows come and go together.
FilesMatchRows == Evidence!FilesMatchRows

\* validation/replay_integrity.py: no alarm about a smoke run whose evidence is fresh.
AuditTrue == Evidence!AuditTrue

\* telegram_bot/service.py: what was under way when a user was disabled does not undo it.
DisableHolds == Operators!DisableHolds

\* validation, stability: no verdict passes once a job has completed.
PassOnlyBeforeCompletion == Campaigns!PassOnlyBeforeCompletion

\* validation/validate_runner.py: a validation that was started ends.
ValidationEnds == Campaigns!ValidationEnds

\* gst/captcha_handler.py: approved means that this captcha's text was typed.
ApprovedMeansTyped == Captcha!ApprovedMeansTyped

\* gst/captcha_handler.py: the wait for a text keeps its timeout.
StopsInTime == Captcha!StopsInTime
=============================================================================
