------------------------- MODULE TelegramOperators -------------------------
(***************************************************************************)
(* The row of one Telegram user (telegram_bot/service.py): the API         *)
(* registers and disables it (app/routes/telegram.py), every text the user *)
(* sends upserts it as active if the user is on the bot's allow-list       *)
(* (telegram_bot/runtime.py), reminders go to active rows                  *)
(* (telegram_bot/scheduler.py).  Each works in a transaction of its own.   *)
(***************************************************************************)
EXTENDS FiniteSets

CONSTANTS
  Registers, Disables,  \* requests of the API
  Texts,                \* messages the bot receives from the user
  Reminders,            \* runs of send_morning_reminder
  Nobody                \* no transaction

VARIABLES
  allowed,   \* the user or the chat is in telegram_allowed_user_ids
  status,    \* committed status of the row
  holder,    \* the transaction that wrote the row and has not committed
  pc,
  saw,       \* the status a transaction loaded
  logged,    \* texts with a committed message row
  reminded   \* reminders that were sent to the user

vars == <<allowed, status, holder, pc, saw, logged, reminded>>

Txs == Registers \cup Disables \cup Texts \cup Reminders
Statuses == {"none", "active", "disabled"}

TypeOK ==
  /\ allowed \in BOOLEAN
  /\ status \in Statuses /\ holder \in Txs \cup {Nobody}
  /\ pc \in [Txs -> {"idle", "loaded", "written", "broken", "over"}]
  /\ saw \in [Txs -> Statuses]
  /\ logged \subseteq Texts /\ reminded \subseteq Reminders

Init ==
  /\ allowed \in BOOLEAN
  /\ status = "none" /\ holder = Nobody
  /\ pc = [t \in Txs |-> "idle"] /\ saw = [t \in Txs |-> "none"]
  /\ logged = {} /\ reminded = {}

Goto(t, label) == pc' = [pc EXCEPT ![t] = label]
Released(t) == holder' = IF holder = t THEN Nobody ELSE holder

\* The first SELECT.  409 for a user who is active, 404 for one who is not there.
Load(t) ==
  /\ pc[t] = "idle" /\ t \notin Reminders /\ (t \in Texts => allowed)
  /\ saw' = [saw EXCEPT ![t] = status]
  /\ LET refused == \/ t \in Registers /\ status = "active"
                    \/ t \in Disables /\ status = "none"
     IN  Goto(t, IF refused THEN "over" ELSE "loaded")
  /\ UNCHANGED <<allowed, status, holder, logged, reminded>>

\* Bound: the user's role is operator.
ListedAsOperator == status = "active"

\* Sent before the transaction, which writes audit rows only, commits.
Remind(t) ==
  /\ t \in Reminders /\ pc[t] = "idle" /\ Goto(t, "over")
  /\ reminded' = IF ListedAsOperator THEN reminded \cup {t} ELSE reminded
  /\ UNCHANGED <<allowed, status, holder, saw, logged>>

\* A text of a user who is not allowed is logged and audited, if the commit succeeds; the
\* row is not touched.
Reject(t) ==
  /\ t \in Texts /\ ~allowed /\ pc[t] = "idle" /\ Goto(t, "over")
  /\ logged' \in {logged, logged \cup {t}}
  /\ UNCHANGED <<allowed, status, holder, saw, reminded>>

\* A registration that changes no column writes nothing.
Unchanged(t) ==
  /\ pc[t] = "loaded" /\ t \notin Disables /\ saw[t] = "active"
  /\ Goto(t, "written")
  /\ UNCHANGED <<allowed, status, holder, saw, logged, reminded>>

\* The flush, behind the row's or the key's writer.  An insert of a user who has appeared
\* breaks the session; the bot swallows that exception and goes on to its commit.
Flush(t) ==
  /\ pc[t] = "loaded" /\ holder = Nobody
  /\ \/ /\ saw[t] = "none" /\ status # "none"
        /\ Goto(t, IF t \in Texts THEN "broken" ELSE "over") /\ UNCHANGED holder
     \/ /\ saw[t] # "none" \/ status = "none"
        /\ Goto(t, "written") /\ holder' = t
  /\ UNCHANGED <<allowed, status, saw, logged, reminded>>

Asks(t) == IF t \in Disables THEN "disabled" ELSE "active"

\* Mutant of Commits: the UPDATE names every column.
CommitsAll(t) == Asks(t)

\* The UPDATE names the columns that differ from what the session loaded.
Commits(t) == IF saw[t] = Asks(t) THEN status ELSE Asks(t)

Commit(t) ==
  /\ pc[t] = "written" /\ Goto(t, "over")
  /\ status' = Commits(t) /\ Released(t)
  /\ logged' = logged \cup ({t} \cap Texts)
  /\ UNCHANGED <<allowed, saw, reminded>>

\* PendingRollbackError at the commit of a broken session, an error on the way, the end of
\* the process: the message row and the audit go too.
RollBack(t) ==
  /\ pc[t] \in {"loaded", "written", "broken"} /\ Goto(t, "over")
  /\ Released(t)
  /\ UNCHANGED <<allowed, status, saw, logged, reminded>>

Next ==
  \E t \in Txs :
    \/ Load(t) \/ Remind(t) \/ Reject(t)
    \/ Unchanged(t) \/ Flush(t) \/ Commit(t) \/ RollBack(t)

Spec == Init /\ [][Next]_vars

-----------------------------------------------------------------------------
\* Properties.

\* A disabled user becomes active again only by a registration or a text that found the
\* user disabled: one that was under way when the user was disabled does not undo it,
\* though it flushes the row afterwards.
DisableHolds ==
  [][(status = "disabled" /\ status' = "active") =>
       \E t \in Txs : Commit(t) /\ saw[t] = "disabled"]_vars
=============================================================================
