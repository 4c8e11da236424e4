------------------------ MODULE MCJobOrchestration ------------------------
(***************************************************************************)
(* Instances of JobOrchestration for TLC.                                  *)
(***************************************************************************)
EXTENDS JobOrchestration, TLC

CONSTANTS j1, c1

\* j1 belongs to a client; further jobs have none, as replayed ones.
MCClientOf == [j \in Jobs |-> IF j = j1 THEN c1 ELSE Nobody]

\* Bound of the replay instance: the other jobs are created only once j1 is a
\* dead letter, as its replays.
CreatedByReplay ==
  \A j \in Jobs \ {j1} : state[j] # "absent" \/ j \in apiTx => j1 \in dlq

\* Bound of the heartbeat instance: one heartbeat in the life of a job's lease row,
\* by its owner, by the owner after clear, or under the second attempt.
OneHeartbeat == \A j \in Jobs : lease[j].fence <= Len(attempts[j]) + 1

\* Bound of the same instance: every worker has registered before a job exists.
RegisteredFirst ==
  (\A w \in Workers : reg[w].gen > 0) \/ (\A j \in Jobs : state[j] = "absent" /\ j \notin apiTx)

\* Workers differ in nothing but their names.
WorkerSymmetry == Permutations(Workers)
=============================================================================
