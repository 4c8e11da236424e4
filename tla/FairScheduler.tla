--------------------------- MODULE FairScheduler ---------------------------
(***************************************************************************)
(* FairScheduler.select (scheduler/fairness.py): the round-robin loop of   *)
(* the watchdog that picks the runnable jobs to send.  One step is one     *)
(* pass of the while loop.  A client's bucket is its number of jobs left:  *)
(* the sort inside a bucket decides which job is popped, not how many.     *)
(***************************************************************************)
EXTENDS Integers, Sequences, FiniteSets

CONSTANTS
  NClients,     \* bucket keys in sorted order; 1 is the bucket of client_id None
  MaxWaiting,   \* bound: runnable jobs per client
  MaxInflight,  \* bound: lease rows per client before the call
  Limits,       \* values of FairnessPolicy.per_client_concurrency
  Caps,         \* values of FairnessPolicy.max_enqueue_per_tick
  Period        \* a multiple of every length the rotation can have

ASSUME SchedulerAssumption ==
  /\ NClients \in Nat \ {0} /\ MaxWaiting \in Nat /\ MaxInflight \in Nat
  /\ Limits \subseteq Nat /\ Caps \subseteq Nat
  /\ Period \in Nat \ {0}
  /\ \A n \in 1 .. NClients : Period % n = 0

Clients == 1 .. NClients

VARIABLES
  perClient, cap,  \* the policy
  waiting0,        \* runnable jobs per client at the call
  inflight0,       \* inflight_by_client at the call
  waiting,         \* len(buckets[cid])
  inflight,        \* inflight_by_client, which the loop updates
  taken,           \* jobs of each client in `selected`
  ids,             \* client_ids
  idx,             \* idx, modulo Period: only idx % len(client_ids) is used
  pc               \* "loop" or "done"

input == <<perClient, cap, waiting0, inflight0>>
vars == <<input, waiting, inflight, taken, ids, idx, pc>>

\* The jobs that a number of each client stands for: the k-th of client c is <<c, k>>.
JobsOf(number) == {p \in Clients \X (1 .. MaxWaiting) : p[2] <= number[p[1]]}

Selected == Cardinality(JobsOf(taken))

TypeOK ==
  /\ perClient \in Limits /\ cap \in Caps
  /\ waiting0 \in [Clients -> 0 .. MaxWaiting]
  /\ inflight0 \in [Clients -> 0 .. MaxInflight]
  /\ waiting \in [Clients -> Nat] /\ taken \in [Clients -> Nat]
  /\ inflight \in [Clients -> Nat]
  /\ ids \in Seq(Clients)
  /\ idx \in 0 .. (Period - 1)
  /\ pc \in {"loop", "done"}

\* sorted(buckets.keys()): the clients with a runnable job, each once, in order.
Sorted(rotation) ==
  /\ \A i, j \in DOMAIN rotation : i < j => rotation[i] < rotation[j]
  /\ {rotation[i] : i \in DOMAIN rotation} = {c \in Clients : waiting0[c] > 0}

\* Buckets exist for clients with a runnable job; jobs without a client have no
\* entry in inflight_by_client.
Init ==
  /\ perClient \in Limits /\ cap \in Caps
  /\ waiting0 \in [Clients -> 0 .. MaxWaiting]
  /\ inflight0 \in [Clients -> 0 .. MaxInflight] /\ inflight0[1] = 0
  /\ waiting = waiting0 /\ inflight = inflight0
  /\ taken = [c \in Clients |-> 0]
  /\ \E n \in 0 .. NClients : ids \in {rotation \in [1 .. n -> Clients] : Sorted(rotation)}
  /\ idx = 0 /\ pc = "loop"

\* The while condition, and the client whose turn it is.
Turn == Selected < cap /\ ids # << >>
Position == (idx % Len(ids)) + 1
Cid == ids[Position]

\* Mutant of Advance: `idx += 1` is forgotten.
AdvanceForgotten == idx' = idx
Advance == idx' = (idx + 1) % Period

\* Mutant of Saturated: > for >=.
SaturatedLate(c) == inflight[c] > perClient
Saturated(c) == inflight[c] >= perClient

\* Mutant of Skip: `break` for `continue`.
SkipBreaks ==
  /\ pc = "loop" /\ Turn /\ Saturated(Cid)
  /\ pc' = "done"
  /\ UNCHANGED <<input, waiting, inflight, taken, ids, idx>>

\* `continue` at the limit: the client stays in the rotation.
Skip ==
  /\ pc = "loop" /\ Turn /\ Saturated(Cid)
  /\ Advance
  /\ UNCHANGED <<input, waiting, inflight, taken, ids, pc>>

\* Mutant of Remove: the list is not filtered.
RemoveKeeps ==
  /\ pc = "loop" /\ Turn /\ ~Saturated(Cid) /\ waiting[Cid] = 0
  /\ Advance
  /\ UNCHANGED <<input, waiting, inflight, taken, ids, pc>>

\* The list without its k-th client, which is in it once.
Without(k) == [i \in 1 .. (Len(ids) - 1) |-> ids[IF i < k THEN i ELSE i + 1]]

\* An empty bucket leaves the rotation.
Remove ==
  /\ pc = "loop" /\ Turn /\ ~Saturated(Cid) /\ waiting[Cid] = 0
  /\ Advance
  /\ ids' = Without(Position)
  /\ UNCHANGED <<input, waiting, inflight, taken, pc>>

\* One job is popped.
Select ==
  /\ pc = "loop" /\ Turn /\ ~Saturated(Cid) /\ waiting[Cid] > 0
  /\ Advance
  /\ waiting' = [waiting EXCEPT ![Cid] = @ - 1]
  /\ taken' = [taken EXCEPT ![Cid] = @ + 1]
  /\ inflight' = [inflight EXCEPT ![Cid] = @ + 1]
  /\ UNCHANGED <<input, ids, pc>>

Return ==
  /\ pc = "loop" /\ ~Turn
  /\ pc' = "done"
  /\ UNCHANGED <<input, waiting, inflight, taken, ids, idx>>

Next == Skip \/ Remove \/ Select \/ Return

\* A thread that runs the loop keeps running it.
Spec == Init /\ [][Next]_vars /\ WF_vars(Next)
-----------------------------------------------------------------------------
InRotation(c) == \E i \in 1 .. Len(ids) : ids[i] = c

\* Selection never takes a client beyond the concurrency limit, however many
\* lease rows it had before.
ClientLimit ==
  \A c \in Clients :
    taken[c] > 0 => inflight0[c] + taken[c] <= perClient

\* Round robin: of two clients still eligible, one is ahead by at most one job
\* and one more for each client that left the rotation (the index is not
\* adjusted when the list shrinks, so a turn can repeat).
FairTurns ==
  LET gone == Cardinality({c \in Clients : waiting0[c] > 0 /\ ~InRotation(c)})
  IN  \A c, d \in Clients :
        InRotation(c) /\ InRotation(d) /\ ~Saturated(c) /\ ~Saturated(d)
          /\ waiting[d] > 0
          => taken[c] <= taken[d] + 1 + gone

\* The jobs of c that fit under its limit.
Fits(c) ==
  LET room == IF perClient > inflight0[c] THEN perClient - inflight0[c] ELSE 0
  IN  IF waiting0[c] < room THEN waiting0[c] ELSE room

\* When select comes back: the cap stops it, or no client with runnable jobs
\* reaches its limit.
CanReturn ==
  \/ Cardinality(JobsOf([c \in Clients |-> Fits(c)])) >= cap
  \/ \A c \in Clients : waiting0[c] > 0 => inflight0[c] + waiting0[c] < perClient

\* select returns only under CanReturn, the condition that JobOrchestration's
\* SelectDiverges negates, and then with as many jobs as fit.
ReturnsOnlyWhen ==
  pc = "done" =>
    /\ CanReturn
    /\ Selected < cap => \A c \in Clients : taken[c] = Fits(c)

\* Under CanReturn it does return.
ReturnsWhen == CanReturn ~> pc = "done"

\* tests/test_fair_scheduler.py ("Should select one from each client first")
\* calls select with a client that reaches its limit and expects its result:
\* select always returns.
SelectReturns == <>(pc = "done")
=============================================================================
