----------------------------- MODULE JobLedger -----------------------------
(***************************************************************************)
(* What the durable orchestration promises a caller, without leases,       *)
(* fencing tokens, messages or ticks: a job is held by at most one worker  *)
(* at a time; each attempt ends at most once, the last before the next     *)
(* begins; a completed or buried job never moves again.  It promises no    *)
(* progress: a job whose holder died stays held.                           *)
(***************************************************************************)
EXTENDS Integers, Sequences

CONSTANTS Jobs, Workers, Nobody

VARIABLES
  status,   \* "none", "ready", "held", "done" or "buried"
  holder,   \* the worker holding each job, Nobody when it is not held
  history   \* outcomes of its attempts; "running" while the last one is open

ledgerVars == <<status, holder, history>>

Init ==
  /\ status = [j \in Jobs |-> "none"]
  /\ holder = [j \in Jobs |-> Nobody]
  /\ history = [j \in Jobs |-> << >>]

\* A created job is committed.
Admit(j) ==
  /\ status[j] = "none"
  /\ status' = [status EXCEPT ![j] = "ready"]
  /\ UNCHANGED <<holder, history>>

\* A worker takes the job and opens the next attempt.
Claim(j, w) ==
  /\ status[j] = "ready"
  /\ status' = [status EXCEPT ![j] = "held"]
  /\ holder' = [holder EXCEPT ![j] = w]
  /\ history' = [history EXCEPT ![j] = Append(@, "running")]

\* The holder ends the open attempt.
End(j, to, outcome) ==
  /\ status[j] = "held"
  /\ status' = [status EXCEPT ![j] = to]
  /\ holder' = [holder EXCEPT ![j] = Nobody]
  /\ history' = [history EXCEPT ![j][Len(history[j])] = outcome]

Complete(j) == End(j, "done", "completed")
GiveBack(j) == End(j, "ready", "retrying")

\* A job is given up.  Its open attempt is never closed, and the promise does not
\* say who gives up: the code checks no token here.
Bury(j) ==
  /\ status[j] \in {"ready", "held"}
  /\ status' = [status EXCEPT ![j] = "buried"]
  /\ holder' = [holder EXCEPT ![j] = Nobody]
  /\ UNCHANGED history

Next ==
  \E j \in Jobs :
    \/ Admit(j) \/ Complete(j) \/ GiveBack(j) \/ Bury(j)
    \/ \E w \in Workers : Claim(j, w)

Spec == Init /\ [][Next]_ledgerVars
=============================================================================
