--------------------------- MODULE EmailDelivery ---------------------------
(***************************************************************************)
(* The mail of one idempotency key (orchestration/handlers/                *)
(* email_delivery.py, email/smtp_mailer.py): executions of its jobs, which *)
(* overlap when a job is reclaimed while its first execution is blocked in *)
(* the SMTP call, and the email_deliveries row that keeps them apart.      *)
(***************************************************************************)
EXTENDS Integers, FiniteSets

CONSTANTS
  Runs,      \* executions, of one job or of several with the same key
  Nobody     \* no execution

VARIABLES
  row,       \* committed status of the row; queued and failed are only ever flushed
  writer,    \* the execution that inserted the row and has not committed
  pc,
  mails,     \* mails the SMTP server accepted
  lost       \* executions whose mail was accepted and whose transaction was not committed

vars == <<row, writer, pc, mails, lost>>

Pcs == {"idle", "selecting", "inserting", "sending", "sent", "done", "failed"}

TypeOK ==
  /\ row \in {"none", "sent"}
  /\ writer \in Runs \cup {Nobody}
  /\ pc \in [Runs -> Pcs]
  /\ mails \in Nat /\ lost \subseteq Runs

Init ==
  /\ row = "none" /\ writer = Nobody
  /\ pc = [r \in Runs |-> "idle"] /\ mails = 0 /\ lost = {}

Goto(r, label) == pc' = [pc EXCEPT ![r] = label]

Start(r) == pc[r] = "idle" /\ Goto(r, "selecting") /\ UNCHANGED <<row, writer, mails, lost>>

\* email.idempotent_skip, or the row is to be inserted.
Select(r) ==
  /\ pc[r] = "selecting"
  /\ Goto(r, IF row = "sent" THEN "done" ELSE "inserting")
  /\ UNCHANGED <<row, writer, mails, lost>>

Conflict == row # "none"

\* Mutant of KeyFree: an insert does not wait for an uncommitted one.
KeyFreeAlways == TRUE

\* The unique index makes a second insert wait for the first transaction's end.
KeyFree == writer = Nobody

Insert(r) ==
  /\ pc[r] = "inserting" /\ KeyFree
  /\ \/ /\ Conflict
        /\ Goto(r, "failed") /\ UNCHANGED writer
     \/ /\ ~Conflict
        /\ writer' = r /\ Goto(r, "sending")
  /\ UNCHANGED <<row, mails, lost>>

\* smtplib blocks the event loop: neither the heartbeat nor the budget runs meanwhile.
Send(r) ==
  /\ pc[r] = "sending"
  /\ mails' = mails + 1 /\ Goto(r, "sent")
  /\ UNCHANGED <<row, writer, lost>>

\* The runtime commits the handler's session.
Commit(r) ==
  /\ pc[r] = "sent"
  /\ row' = "sent" /\ writer' = IF writer = r THEN Nobody ELSE writer
  /\ Goto(r, "done")
  /\ UNCHANGED <<mails, lost>>

\* Before the commit: the SMTP server refuses (status = failed is flushed, then rolled
\* back by the exception), or takes the mail and the connection breaks; the budget that
\* ran out during the call cancels the next await; the commit fails; the worker dies.
RollsBack(r, accepted) ==
  /\ pc[r] \in {"selecting", "inserting", "sending", "sent"}
  /\ accepted => pc[r] = "sending"
  /\ mails' = IF accepted THEN mails + 1 ELSE mails
  /\ lost' = IF accepted \/ pc[r] = "sent" THEN lost \cup {r} ELSE lost
  /\ writer' = IF writer = r THEN Nobody ELSE writer
  /\ Goto(r, "failed")
  /\ UNCHANGED row

Next ==
  \E r \in Runs :
    \/ Start(r) \/ Select(r) \/ Insert(r) \/ Send(r) \/ Commit(r)
    \/ \E accepted \in BOOLEAN : RollsBack(r, accepted)

Spec == Init /\ [][Next]_vars

-----------------------------------------------------------------------------
\* Properties.

\* A key's mail goes out a second time only for a transaction that was lost after the
\* mail was accepted, however executions overlap (the unique index on idempotency_key
\* holds a second insert back until the first transaction ends).
MailOnce == mails <= 1 + Cardinality(lost)
=============================================================================
