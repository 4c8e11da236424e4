------------------------ MODULE Gstr2bDownloadProofs ------------------------
(***************************************************************************)
(* Exclusive downloads, truthful outcomes and ticks that commit all or     *)
(* nothing, for any number of clients, ticks and runs.                     *)
(***************************************************************************)
EXTENDS Gstr2bDownload, TLAPS

\* What the names stand for is different things.
Names ==
  /\ BatchClients \subseteq Clients
  /\ Jobs \cap Ticks = {} /\ Nobody \notin Jobs \cup Ticks

Settled == {"ok", "skipped"}
InHand == {"mark", "enqueue", "track"}

\* A run that is past the lock is its holder.
LockHeld == \A j \in Jobs : run[j] \in {"locked", "portal", "verified"} => lock[Client(j)] = j

\* Why a client a tick is through with needs nothing more from it.
Provided(t, c) ==
  \/ job[<<c, "overnight">>] # "absent" \/ tracker[c] \in Settled
  \/ c \in tick[t].made \/ (writer[c] = t /\ tick[t].rows[c] \in Settled)

\* A tick writes ok only of a file it saw, queued only of a client it has made a job for.
TickSound(t) ==
  /\ tick[t].pc \in InHand => tick[t].at \in Clients
  /\ tick[t].pc = "mark" => file[tick[t].at] = "good" /\ tick[t].saw # "ok"
  /\ tick[t].pc = "track" => tick[t].at \in tick[t].made
  /\ \A c \in Clients :
       /\ tick[t].rows[c] \in Settled => file[c] = "good"
       /\ writer[c] = t => tick[t].rows[c] \in Settled \/ c \in tick[t].made
  /\ tick[t].pc \in InHand \cup {"next"} =>
       \A c \in tick[t].picked \ tick[t].todo :
         Provided(t, c) \/ (tick[t].pc \in {"mark", "enqueue"} /\ c = tick[t].at)

IndInv == TypeOK /\ LockHeld /\ OutcomeTruthful /\ \A t \in Ticks : TickSound(t)

TickRecord == [pc : {"idle", "next", "mark", "enqueue", "track", "broken", "done"},
               picked : SUBSET Clients, todo : SUBSET Clients,
               at : Clients \cup {Nobody}, saw : Trackers,
               made : SUBSET Clients, rows : [Clients -> Trackers]]

LEMMA ClientOfJob == ASSUME Names, NEW j \in Jobs PROVE Client(j) \in Clients
BY DEF Names, Jobs, Client

LEMMA OvernightJob == ASSUME NEW c \in Clients PROVE <<c, "overnight">> \in Jobs
BY DEF Jobs

LEMMA IdleTyped == IdleTick \in TickRecord
BY DEF IdleTick, TickRecord, Trackers

LEMMA IndInvInit == ASSUME Names PROVE Init => IndInv
<1> SUFFICES ASSUME Init PROVE IndInv
  OBVIOUS
<1>1. tick = [t \in Ticks |-> IdleTick]
  BY DEF Init
<1>2. TypeOK
  BY <1>1, IdleTyped DEF Init, TypeOK, TickRecord, JobStates, Trackers, Contents
<1>3. LockHeld /\ OutcomeTruthful
  BY DEF Init, LockHeld, OutcomeTruthful
<1>4. ASSUME NEW t \in Ticks PROVE TickSound(t)
  BY <1>1 DEF Init, IdleTick, TickSound, Settled, InHand, Names
<1> QED BY <1>2, <1>3, <1>4 DEF IndInv

-----------------------------------------------------------------------------
\* What a step of a run changes: its own place, its own job, the locks it holds; of the
\* tracker at most the row of its client, when the file is there.
RunEffect(j) ==
  /\ UNCHANGED <<due, tick, file>>
  /\ \E place \in {"idle", "checking", "locked", "portal", "verified"} :
       /\ run' = [run EXCEPT ![j] = place]
       /\ \/ place \in {"idle", "checking"}
          \/ place = "locked" /\ lock[Client(j)] = Nobody /\ lock'[Client(j)] = j
          \/ run[j] \in {"locked", "portal", "verified"} /\ UNCHANGED lock
  /\ \E state \in JobStates \ {"absent"} : job' = [job EXCEPT ![j] = state] \/ UNCHANGED job
  /\ \/ UNCHANGED tracker
     \/ file[Client(j)] = "good" /\ tracker' = [tracker EXCEPT ![Client(j)] = "skipped"]
  /\ \/ writer' \in {writer, Unwritten(j)}
     \/ writer[Client(j)] = Nobody /\ writer' = [writer EXCEPT ![Client(j)] = j]
  /\ \/ UNCHANGED lock
     \/ lock' = [c \in Clients |-> IF lock[c] = j /\ run[j] # "checking" THEN Nobody ELSE lock[c]]
     \/ lock[Client(j)] = Nobody /\ lock' = [lock EXCEPT ![Client(j)] = j]

\* The ends of a run.
LEMMA EndsEffect ==
  ASSUME NEW j \in Jobs, NEW state \in JobStates \ {"absent"}, RunEnds(j, state), UNCHANGED file,
         \/ UNCHANGED tracker
         \/ file[Client(j)] = "good" /\ tracker' = [tracker EXCEPT ![Client(j)] = "skipped"]
  PROVE  RunEffect(j)
<1>1. /\ run' = [run EXCEPT ![j] = "idle"] /\ job' = [job EXCEPT ![j] = state]
      /\ writer' = Unwritten(j)
      /\ lock' = [c \in Clients |-> IF lock[c] = j /\ run[j] # "checking" THEN Nobody ELSE lock[c]]
      /\ UNCHANGED <<due, tick>>
  BY DEF RunEnds
<1> QED BY <1>1 DEF RunEffect

LEMMA RunHasEffect ==
  ASSUME TypeOK, Names, NEW j \in Jobs, RunStep(j) \/ Budgeted(j)
  PROVE  RunEffect(j)
<1>c. Client(j) \in Clients
  BY ClientOfJob
<1>s. {"queued", "running", "retrying", "completed", "dead_lettered"} = JobStates \ {"absent"}
  BY DEF JobStates
<1>1. CASE StartRun(j)
  BY <1>1, <1>s DEF StartRun, RunEffect
<1>2. CASE SkipDownloaded(j)
  BY <1>2, <1>s, EndsEffect DEF SkipDownloaded
<1>3. CASE AcquireLock(j)
  <2>1. lock'[Client(j)] = j
    BY <1>3, <1>c DEF AcquireLock, TypeOK
  <2> QED BY <1>3, <2>1, <1>s DEF AcquireLock, LockFree, RunEffect
<1>4. CASE LockContended(j)
  BY <1>4, <1>s, EndsEffect DEF LockContended
<1>5. CASE MarkRunning(j) \/ Download(j)
  BY <1>5, <1>s DEF MarkRunning, Download, RunEffect
<1>6. ASSUME NEW copy \in Contents, Finalize(j, copy) PROVE RunEffect(j)
  <2>1. ~Accepted(copy)
    BY DEF Accepted, VerifierAccepts
  <2> QED BY <1>6, <2>1, <1>s, EndsEffect DEF Finalize
<1>7. CASE FailsRetryably(j) \/ FailsFatally(j) \/ Budgeted(j)
  BY <1>7, <1>s, EndsEffect DEF FailsRetryably, FailsFatally, Budgeted, BudgetExceeded
<1>8. CASE Crash(j)
  BY <1>8, <1>s DEF Crash, RunEffect
<1> QED BY <1>1, <1>2, <1>3, <1>4, <1>5, <1>6, <1>7, <1>8 DEF RunStep

\* What a step of a tick changes: itself, and the rows it locks and releases.  Only its
\* commit reaches jobs and tracker.
TickEffect(t) ==
  /\ UNCHANGED <<due, file, lock, run>>
  /\ \E next \in TickRecord : tick' = [tick EXCEPT ![t] = next]
  /\ \/ UNCHANGED writer \/ writer' = Unwritten(t)
     \/ \E c \in Clients : writer[c] = Nobody /\ writer' = [writer EXCEPT ![c] = t]
  /\ TickCommit(t) \/ UNCHANGED <<job, tracker>>

LEMMA OnwardTyped ==
  ASSUME TypeOK, NEW t \in Ticks, NEW label \in {"next", "broken"}
  PROVE  /\ Onward(t, label) \in TickRecord
         /\ Onward(t, label) = [tick[t] EXCEPT !.pc = label, !.at = Nobody, !.saw = "none"]
<1>1. tick[t] \in TickRecord
  BY DEF TypeOK, TickRecord
<1> QED BY <1>1 DEF Onward, TickRecord, Trackers

\* A flush of a tracker row: the session breaks, or the row is the tick's.
LEMMA UpsertEffect ==
  ASSUME TypeOK, NEW t \in Ticks, NEW status \in {"ok", "queued"}, TickUpsert(t, status),
         tick[t].at \in Clients
  PROVE  /\ UNCHANGED <<due, file, job, tracker, lock, run>>
         /\ \/ tick' = [tick EXCEPT ![t] = Onward(t, "broken")] /\ UNCHANGED writer
            \/ /\ writer[tick[t].at] = Nobody
               /\ writer' = [writer EXCEPT ![tick[t].at] = t]
               /\ tick' = [tick EXCEPT ![t] =
                    [Onward(t, "next") EXCEPT !.rows[tick[t].at] = Upserted(t, status)]]
         /\ \E next \in TickRecord : tick' = [tick EXCEPT ![t] = next]
<1>1. Onward(t, "next") \in TickRecord
  BY OnwardTyped
<1>2. Upserted(t, status) \in Trackers
  BY DEF TypeOK, Upserted, Trackers
<1>3. [Onward(t, "next") EXCEPT !.rows[tick[t].at] = Upserted(t, status)] \in TickRecord
  BY <1>1, <1>2 DEF TickRecord
<1>4. Onward(t, "broken") \in TickRecord
  BY OnwardTyped
<1>5. \/ tick' = [tick EXCEPT ![t] = Onward(t, "broken")] /\ UNCHANGED writer
      \/ /\ writer[tick[t].at] = Nobody
         /\ writer' = [writer EXCEPT ![tick[t].at] = t]
         /\ tick' = [tick EXCEPT ![t] =
              [Onward(t, "next") EXCEPT !.rows[tick[t].at] = Upserted(t, status)]]
  BY DEF TickUpsert
<1>6. \E next \in TickRecord : tick' = [tick EXCEPT ![t] = next]
  BY <1>3, <1>4, <1>5
<1> QED BY <1>5, <1>6 DEF TickUpsert

LEMMA TickHasEffect ==
  ASSUME TypeOK, NEW t \in Ticks, TickSound(t), TickStep(t) \/ TickDies(t)
  PROVE  TickEffect(t)
<1>t. tick[t] \in TickRecord /\ due \subseteq Clients /\ tracker \in [Clients -> Trackers]
  BY DEF TypeOK, TickRecord
<1>1. CASE TickBegin(t)
  <2>1. [tick[t] EXCEPT !.pc = "next", !.picked = due, !.todo = due] \in TickRecord
    BY <1>t DEF TickRecord
  <2> QED BY <1>1, <2>1 DEF TickBegin, TickEffect
<1>2. ASSUME NEW c \in Clients, TickLook(t, c) PROVE TickEffect(t)
  <2>1. UNCHANGED <<due, file, job, tracker, writer, lock, run>>
    BY <1>2 DEF TickLook
  <2>2. CASE tracker[c] = "ok"
    <3>1. tick' = [tick EXCEPT ![t] = [tick[t] EXCEPT !.todo = @ \ {c}]]
      BY <1>2, <2>2 DEF TickLook
    <3>2. [tick[t] EXCEPT !.todo = @ \ {c}] \in TickRecord
      BY <1>t DEF TickRecord
    <3> QED BY <2>1, <3>1, <3>2 DEF TickEffect
  <2>3. CASE tracker[c] # "ok"
    <3> DEFINE label == IF file[c] = "good" THEN "mark" ELSE "enqueue"
    <3>1. tick' = [tick EXCEPT ![t] = [tick[t] EXCEPT !.pc = label, !.todo = @ \ {c}, !.at = c,
                                                      !.saw = tracker[c]]]
      BY <1>2, <2>3 DEF TickLook
    <3>2. [tick[t] EXCEPT !.pc = label, !.todo = @ \ {c}, !.at = c, !.saw = tracker[c]] \in TickRecord
      BY <1>t DEF TickRecord
    <3> QED BY <2>1, <3>1, <3>2 DEF TickEffect
  <2> QED BY <2>2, <2>3
<1>3. CASE TickMark(t) \/ TickTrack(t)
  <2>1. PICK status \in {"ok", "queued"} : TickUpsert(t, status) /\ tick[t].at \in Clients
    BY <1>3 DEF TickMark, TickTrack, TickSound, InHand
  <2>2. UNCHANGED <<due, file, job, tracker, lock, run>>
    BY <2>1, UpsertEffect
  <2>3. \/ tick' = [tick EXCEPT ![t] = Onward(t, "broken")] /\ UNCHANGED writer
        \/ /\ writer[tick[t].at] = Nobody
           /\ writer' = [writer EXCEPT ![tick[t].at] = t]
    BY <2>1, UpsertEffect
  <2>4. \E next \in TickRecord : tick' = [tick EXCEPT ![t] = next]
    BY <2>1, UpsertEffect
  <2> QED BY <2>1, <2>2, <2>3, <2>4 DEF TickEffect
<1>4. CASE TickEnqueue(t)
  <2> DEFINE c == tick[t].at
             Y == [tick[t] EXCEPT !.pc = "track", !.made = @ \cup {c},
                                  !.saw = IF @ = "none" THEN tracker[c] ELSE @]
             Z == [Onward(t, "next") EXCEPT !.made = @ \cup {c}]
  <2>1. c \in Clients
    BY <1>4 DEF TickEnqueue, TickSound, InHand
  <2>2. Y \in TickRecord /\ Z \in TickRecord /\ Onward(t, "broken") \in TickRecord
    BY <1>t, <2>1, OnwardTyped DEF TickRecord
  <2>3. /\ \/ tick' = [tick EXCEPT ![t] = Onward(t, "broken")]
           \/ tick' = [tick EXCEPT ![t] = Y]
           \/ tick' = [tick EXCEPT ![t] = Z]
        /\ UNCHANGED <<due, file, job, tracker, writer, lock, run>>
    <3>1. CASE job[<<c, "overnight">>] # "absent"
      BY <1>4, <3>1 DEF TickEnqueue
    <3>2. CASE job[<<c, "overnight">>] = "absent"
      BY <1>4, <3>2 DEF TickEnqueue
    <3> QED BY <3>1, <3>2
  <2> HIDE DEF Y, Z
  <2> QED BY <2>2, <2>3 DEF TickEffect
<1>5. [IdleTick EXCEPT !.pc = "done"] \in TickRecord
  BY IdleTyped DEF TickRecord
<1>6. CASE TickCommit(t)
  BY <1>5, <1>6 DEF TickCommit, TickEffect
<1>7. CASE TickRaises(t) \/ TickDies(t)
  BY <1>5, <1>7 DEF TickRaises, TickDies, TickEffect
<1>8. CASE TickDeadlocked(t)
  BY <1>8, OnwardTyped DEF TickDeadlocked, TickEffect
<1> QED BY <1>1, <1>2, <1>3, <1>4, <1>6, <1>7, <1>8 DEF TickStep

\* What anybody else changes.
ElseEffect ==
  /\ UNCHANGED <<tracker, writer, tick, run>> /\ due' \subseteq Clients
  /\ \/ UNCHANGED file
     \/ \E c \in Clients : file' = [file EXCEPT ![c] = "good"]
  /\ UNCHANGED job \/ \E j \in Jobs : job' = [job EXCEPT ![j] = "queued"]
  /\ \/ UNCHANGED lock
     \/ \E c \in Clients : MayExpire(c) /\ lock' = [lock EXCEPT ![c] = Nobody]

LEMMA ElseHasEffect ==
  ASSUME TypeOK, NEW c \in Clients, EnqueueBatch(c) \/ LockExpires(c) \/ Activate(c) \/ PlaceFile(c)
  PROVE  ElseEffect
<1>t. due \subseteq Clients
  BY DEF TypeOK
<1>1. CASE EnqueueBatch(c)
  <2>1. <<c, "batch">> \in Jobs
    BY <1>1 DEF EnqueueBatch, Jobs
  <2> QED BY <1>1, <1>t, <2>1 DEF EnqueueBatch, ElseEffect
<1>2. CASE LockExpires(c)
  BY <1>2, <1>t DEF LockExpires, ElseEffect
<1>3. CASE Activate(c)
  BY <1>3, <1>t DEF Activate, ElseEffect
<1>4. CASE PlaceFile(c)
  BY <1>4, <1>t DEF PlaceFile, ElseEffect
<1> QED BY <1>1, <1>2, <1>3, <1>4

\* Every step has one of the three effects.
LEMMA StepEffect ==
  ASSUME Names, IndInv, Next
  PROVE  (\E t \in Ticks : TickEffect(t)) \/ (\E j \in Jobs : RunEffect(j)) \/ ElseEffect
<1>1. TypeOK /\ \A t \in Ticks : TickSound(t)
  BY DEF IndInv
<1> QED BY <1>1, TickHasEffect, RunHasEffect, ElseHasEffect DEF Next

-----------------------------------------------------------------------------
\* Each part of the invariant is kept.

LEMMA WritersTyped ==
  ASSUME TypeOK, NEW w \in Ticks \cup Jobs
  PROVE  Unwritten(w) \in [Clients -> Ticks \cup Jobs \cup {Nobody}]
BY DEF TypeOK, Unwritten

LEMMA TypeNext ==
  ASSUME Names, IndInv, Next
  PROVE  TypeOK'
<1>t. /\ TypeOK /\ due \subseteq Clients /\ file \in [Clients -> Contents \cup {"absent"}]
      /\ job \in [Jobs -> JobStates] /\ tracker \in [Clients -> Trackers]
      /\ writer \in [Clients -> Ticks \cup Jobs \cup {Nobody}]
      /\ lock \in [Clients -> Jobs \cup {Nobody}]
      /\ tick \in [Ticks -> TickRecord]
      /\ run \in [Jobs -> {"idle", "checking", "locked", "portal", "verified"}]
  BY DEF IndInv, TypeOK, TickRecord
<1>1. ASSUME NEW t \in Ticks, TickEffect(t) PROVE TypeOK'
  <2>1. UNCHANGED <<due, file, lock, run>>
    BY <1>1 DEF TickEffect
  <2>2. tick' \in [Ticks -> TickRecord]
    BY <1>1, <1>t DEF TickEffect
  <2>3. writer' \in [Clients -> Ticks \cup Jobs \cup {Nobody}]
    BY <1>1, <1>t, WritersTyped DEF TickEffect
  <2>4. job' \in [Jobs -> JobStates] /\ tracker' \in [Clients -> Trackers]
    <3>1. CASE UNCHANGED <<job, tracker>>
      BY <3>1, <1>t
    <3>2. CASE TickCommit(t)
      <4>1. \A c \in Clients : tick[t].rows[c] \in Trackers
        BY <1>t DEF TickRecord
      <4> QED BY <3>2, <4>1, <1>t DEF TickCommit, JobStates
    <3> QED BY <1>1, <3>1, <3>2 DEF TickEffect
  <2> QED BY <1>t, <2>1, <2>2, <2>3, <2>4 DEF TypeOK, TickRecord
<1>2. ASSUME NEW j \in Jobs, RunEffect(j) PROVE TypeOK'
  <2>1. /\ UNCHANGED <<due, tick, file>> /\ job' \in [Jobs -> JobStates]
        /\ run' \in [Jobs -> {"idle", "checking", "locked", "portal", "verified"}]
    BY <1>2, <1>t DEF RunEffect
  <2>2. tracker' \in [Clients -> Trackers]
    BY <1>2, <1>t DEF RunEffect, Trackers
  <2>3. writer' \in [Clients -> Ticks \cup Jobs \cup {Nobody}]
    BY <1>2, <1>t, WritersTyped DEF RunEffect
  <2>4. lock' \in [Clients -> Jobs \cup {Nobody}]
    BY <1>2, <1>t DEF RunEffect
  <2> QED BY <1>t, <2>1, <2>2, <2>3, <2>4 DEF TypeOK, TickRecord
<1>3. ASSUME ElseEffect PROVE TypeOK'
  <2>1. file' \in [Clients -> Contents \cup {"absent"}]
    BY <1>3, <1>t DEF ElseEffect, Contents
  <2>2. job' \in [Jobs -> JobStates] /\ lock' \in [Clients -> Jobs \cup {Nobody}]
    BY <1>3, <1>t DEF ElseEffect, JobStates
  <2> QED BY <1>3, <1>t, <2>1, <2>2 DEF ElseEffect, TypeOK, TickRecord
<1> QED BY <1>1, <1>2, <1>3, StepEffect

\* The holder loses its lock only when its run is over: it deletes it, or the TTL elapses,
\* which the budget has overtaken.
LEMMA LockNext ==
  ASSUME Names, IndInv, Next
  PROVE  LockHeld'
<1>t. /\ lock \in [Clients -> Jobs \cup {Nobody}]
      /\ run \in [Jobs -> {"idle", "checking", "locked", "portal", "verified"}]
  BY DEF IndInv, TypeOK
<1>h. LockHeld
  BY DEF IndInv
<1> SUFFICES ASSUME NEW i \in Jobs, run'[i] \in {"locked", "portal", "verified"}
             PROVE  lock'[Client(i)] = i
  BY DEF LockHeld
<1>c. Client(i) \in Clients /\ i # Nobody
  BY ClientOfJob DEF Names
<1>1. ASSUME NEW t \in Ticks, TickEffect(t) PROVE lock'[Client(i)] = i
  BY <1>1, <1>h DEF TickEffect, LockHeld
<1>2. ASSUME NEW j \in Jobs, RunEffect(j) PROVE lock'[Client(i)] = i
  <2>1. PICK place \in {"idle", "checking", "locked", "portal", "verified"} :
          /\ run' = [run EXCEPT ![j] = place]
          /\ \/ place \in {"idle", "checking"}
             \/ place = "locked" /\ lock[Client(j)] = Nobody /\ lock'[Client(j)] = j
             \/ run[j] \in {"locked", "portal", "verified"} /\ UNCHANGED lock
    BY <1>2 DEF RunEffect
  <2>2. CASE i = j
    BY <2>1, <2>2, <1>t, <1>h DEF LockHeld
  <2>3. CASE i # j
    <3>1. lock[Client(i)] = i
      BY <2>1, <2>3, <1>t, <1>h DEF LockHeld
    <3>2. \/ UNCHANGED lock
          \/ lock' = [c \in Clients |-> IF lock[c] = j /\ run[j] # "checking" THEN Nobody ELSE lock[c]]
          \/ lock[Client(j)] = Nobody /\ lock' = [lock EXCEPT ![Client(j)] = j]
      BY <1>2 DEF RunEffect
    <3> QED BY <3>1, <3>2, <2>3, <1>c, <1>t
  <2> QED BY <2>2, <2>3
<1>3. ASSUME ElseEffect PROVE lock'[Client(i)] = i
  <2>1. lock[Client(i)] = i /\ run[i] \in {"locked", "portal", "verified"}
    BY <1>3, <1>h DEF ElseEffect, LockHeld
  <2>2. CASE UNCHANGED lock
    BY <2>1, <2>2
  <2>3. ASSUME NEW c \in Clients, MayExpire(c), lock' = [lock EXCEPT ![c] = Nobody]
        PROVE  lock'[Client(i)] = i
    BY <2>1, <2>3, <1>c, <1>t DEF MayExpire
  <2> QED BY <1>3, <2>2, <2>3 DEF ElseEffect
<1> QED BY <1>1, <1>2, <1>3, StepEffect

\* A good file stays: nothing accepts a copy over it, and only good ones are copied by hand.
LEMMA FileKept ==
  ASSUME Names, IndInv, Next, NEW c \in Clients, file[c] = "good"
  PROVE  file'[c] = "good"
<1>1. file \in [Clients -> Contents \cup {"absent"}]
  BY DEF IndInv, TypeOK
<1>2. ASSUME ElseEffect PROVE file'[c] = "good"
  BY <1>1, <1>2 DEF ElseEffect
<1> QED BY <1>2, StepEffect DEF TickEffect, RunEffect

LEMMA JobKept ==
  ASSUME Names, IndInv, Next, NEW j \in Jobs, job[j] # "absent"
  PROVE  job'[j] # "absent"
<1>1. job \in [Jobs -> JobStates]
  BY DEF IndInv, TypeOK
<1>2. ASSUME NEW t \in Ticks, TickEffect(t) PROVE job'[j] # "absent"
  BY <1>1, <1>2 DEF TickEffect, TickCommit
<1>3. ASSUME NEW i \in Jobs, RunEffect(i) PROVE job'[j] # "absent"
  <2>1. PICK state \in JobStates \ {"absent"} : job' = [job EXCEPT ![i] = state] \/ UNCHANGED job
    BY <1>3 DEF RunEffect
  <2> QED BY <1>1, <2>1
<1>4. ASSUME ElseEffect PROVE job'[j] # "absent"
  BY <1>1, <1>4 DEF ElseEffect
<1> QED BY <1>2, <1>3, <1>4, StepEffect

\* What the commit of a tick makes of a client it has a row or a job for.
LEMMA CommitRow ==
  ASSUME IndInv, NEW t \in Ticks, TickCommit(t), NEW c \in Clients
  PROVE  /\ tracker'[c] = IF writer[c] = t THEN tick[t].rows[c] ELSE tracker[c]
         /\ c \in tick[t].made => job'[<<c, "overnight">>] = "queued"
<1>1. <<c, "overnight">> \in Jobs /\ Client(<<c, "overnight">>) = c
  BY OvernightJob DEF Client
<1> QED BY <1>1 DEF TickCommit

\* A row that says ok or skipped is written by a tick that saw the file or by a run that
\* verified it.
LEMMA OutcomeNext ==
  ASSUME Names, IndInv, Next
  PROVE  OutcomeTruthful'
<1> SUFFICES ASSUME NEW c \in Clients, tracker'[c] \in Settled PROVE file'[c] = "good"
  BY DEF OutcomeTruthful, Settled
<1>t. OutcomeTruthful /\ tracker \in [Clients -> Trackers] /\ \A t \in Ticks : TickSound(t)
  BY DEF IndInv, TypeOK
<1> SUFFICES file[c] = "good"
  BY FileKept
<1>1. ASSUME NEW t \in Ticks, TickEffect(t) PROVE file[c] = "good"
  <2>1. CASE UNCHANGED tracker
    BY <2>1, <1>t DEF OutcomeTruthful, Settled
  <2>2. CASE TickCommit(t)
    BY <2>2, <1>t, CommitRow DEF OutcomeTruthful, Settled, TickSound
  <2> QED BY <1>1, <2>1, <2>2 DEF TickEffect
<1>2. ASSUME NEW j \in Jobs, RunEffect(j) PROVE file[c] = "good"
  <2>1. Client(j) \in Clients
    BY ClientOfJob
  <2>2. \/ UNCHANGED tracker
        \/ file[Client(j)] = "good" /\ tracker' = [tracker EXCEPT ![Client(j)] = "skipped"]
    BY <1>2 DEF RunEffect
  <2> QED BY <1>t, <2>1, <2>2 DEF OutcomeTruthful, Settled
<1>3. ASSUME ElseEffect PROVE file[c] = "good"
  BY <1>3, <1>t DEF ElseEffect, OutcomeTruthful, Settled
<1> QED BY <1>1, <1>2, <1>3, StepEffect

\* Who takes a settled row away from a client gives it a job instead.
LEMMA TrackerKept ==
  ASSUME Names, IndInv, Next, NEW c \in Clients, tracker[c] \in Settled
  PROVE  tracker'[c] \in Settled \/ job'[<<c, "overnight">>] # "absent"
<1>t. tracker \in [Clients -> Trackers] /\ \A t \in Ticks : TickSound(t)
  BY DEF IndInv, TypeOK
<1>1. ASSUME NEW t \in Ticks, TickCommit(t)
      PROVE  tracker'[c] \in Settled \/ job'[<<c, "overnight">>] # "absent"
  BY <1>1, <1>t, CommitRow DEF TickSound
<1>2. ASSUME NEW j \in Jobs, RunEffect(j) PROVE tracker'[c] \in Settled
  <2>1. Client(j) \in Clients
    BY ClientOfJob
  <2> QED BY <1>2, <1>t, <2>1 DEF RunEffect, Settled
<1> QED BY <1>1, <1>2, StepEffect DEF TickEffect, ElseEffect

\* What others do disturbs no tick.
LEMMA OtherSound ==
  ASSUME Names, IndInv, Next, NEW t \in Ticks, tick'[t] = tick[t],
         \A c \in Clients : writer'[c] = t <=> writer[c] = t
  PROVE  TickSound(t)'
<1>s. TickSound(t) /\ TypeOK
  BY DEF IndInv
<1>1. tick[t].pc \in InHand => tick[t].at \in Clients
  BY <1>s DEF TickSound
<1>2. tick[t].pc = "mark" => file'[tick[t].at] = "good" /\ tick[t].saw # "ok"
  BY <1>s, <1>1, FileKept DEF TickSound, InHand
<1>3. \A c \in Clients :
       /\ tick[t].rows[c] \in Settled => file'[c] = "good"
       /\ writer'[c] = t => tick[t].rows[c] \in Settled \/ c \in tick[t].made
  BY <1>s, FileKept DEF TickSound
<1>4. ASSUME NEW c \in Clients, Provided(t, c) PROVE Provided(t, c)'
  BY <1>4, JobKept, TrackerKept, OvernightJob DEF Provided
<1>5. tick[t].picked \subseteq Clients
  BY <1>s DEF TypeOK
<1>6. tick[t].pc \in InHand \cup {"next"} =>
       \A c \in tick[t].picked \ tick[t].todo :
         Provided(t, c)' \/ (tick[t].pc \in {"mark", "enqueue"} /\ c = tick[t].at)
  BY <1>s, <1>4, <1>5 DEF TickSound
<1> QED BY <1>s, <1>1, <1>2, <1>3, <1>6 DEF TickSound

\* A step of the tick itself that leaves the stores alone and adds to what it has made.
LEMMA OwnProvided ==
  ASSUME NEW t \in Ticks, NEW c \in Clients, UNCHANGED <<job, tracker, writer>>,
         tick[t].made \subseteq tick'[t].made, tick'[t].rows = tick[t].rows, Provided(t, c)
  PROVE  Provided(t, c)'
BY DEF Provided

LEMMA UpsertSound ==
  ASSUME Names, IndInv, NEW t \in Ticks, NEW status \in {"ok", "queued"}, TickUpsert(t, status),
         \/ tick[t].pc = "mark" /\ status = "ok"
         \/ tick[t].pc = "track" /\ status = "queued"
  PROVE  TickSound(t)'
<1> DEFINE a == tick[t].at
           row == Upserted(t, status)
<1>s. /\ TickSound(t) /\ TypeOK /\ OutcomeTruthful /\ tick \in [Ticks -> TickRecord]
      /\ tick[t] \in TickRecord /\ writer \in [Clients -> Ticks \cup Jobs \cup {Nobody}]
  BY DEF IndInv, TypeOK, TickRecord
<1>a. a \in Clients
  BY <1>s DEF TickSound, InHand
<1>u. UNCHANGED <<file, job, tracker>>
  BY DEF TickUpsert
<1>1. CASE tick' = [tick EXCEPT ![t] = Onward(t, "broken")] /\ UNCHANGED writer
  <2>1. /\ tick'[t].pc = "broken" /\ tick'[t].rows = tick[t].rows
        /\ tick'[t].made = tick[t].made
    BY <1>1, <1>s DEF Onward, TickRecord
  <2> QED BY <1>1, <1>u, <1>s, <2>1 DEF TickSound, InHand
<1>2. CASE /\ writer[a] = Nobody /\ writer' = [writer EXCEPT ![a] = t]
           /\ tick' = [tick EXCEPT ![t] = [Onward(t, "next") EXCEPT !.rows[a] = row]]
  <2>1. /\ tick'[t].pc = "next" /\ tick'[t].made = tick[t].made
        /\ tick'[t].picked = tick[t].picked /\ tick'[t].todo = tick[t].todo
        /\ tick'[t].rows = [tick[t].rows EXCEPT ![a] = row]
    BY <1>2, <1>s DEF Onward, TickRecord
  <2>2. tick'[t].rows[a] = row /\ \A c \in Clients \ {a} : tick'[t].rows[c] = tick[t].rows[c]
    BY <2>1, <1>s, <1>a DEF TickRecord
  <2>3. row \in Settled => file[a] = "good"
    BY <1>s, <1>a DEF TickSound, Upserted, OutcomeTruthful, Settled
  <2>4. row \in Settled \/ a \in tick[t].made
    BY <1>s DEF TickSound, Upserted, Settled
  <2>5. \A c \in Clients : writer'[c] = t <=> writer[c] = t \/ c = a
    BY <1>2, <1>s, <1>a
  <2>6. \A c \in Clients :
         /\ tick'[t].rows[c] \in Settled => file'[c] = "good"
         /\ writer'[c] = t => tick'[t].rows[c] \in Settled \/ c \in tick'[t].made
    BY <1>s, <1>u, <2>1, <2>2, <2>3, <2>4, <2>5 DEF TickSound
  <2>7. ASSUME NEW c \in tick'[t].picked \ tick'[t].todo
        PROVE  Provided(t, c)'
    <3>0. c \in Clients
      BY <1>s, <2>1 DEF TickRecord
    <3>1. CASE c = a
      BY <3>1, <2>1, <2>2, <2>4, <2>5, <1>a DEF Provided
    <3>2. CASE c # a
      <4>1. Provided(t, c)
        BY <3>2, <1>s, <2>1 DEF TickSound, InHand
      <4> QED BY <3>0, <3>2, <4>1, <1>u, <2>1, <2>2, <2>5 DEF Provided
    <3> QED BY <3>1, <3>2
  <2> QED BY <2>1, <2>6, <2>7 DEF TickSound, InHand
<1> QED BY <1>1, <1>2, <1>a, UpsertEffect, <1>s

\* At the end of its transaction a tick has locks no longer.
LEMMA DoneSound ==
  ASSUME Names, IndInv, NEW t \in Ticks, writer' = Unwritten(t),
         tick' = [tick EXCEPT ![t] = [IdleTick EXCEPT !.pc = "done"]]
  PROVE  TickSound(t)'
<1>1. /\ tick'[t].pc = "done" /\ tick'[t].rows = [c \in Clients |-> "none"]
  BY DEF IndInv, TypeOK, IdleTick
<1>2. \A c \in Clients : writer'[c] # t
  BY DEF Unwritten, Names
<1> QED BY <1>1, <1>2 DEF TickSound, InHand, Settled

LEMMA OwnSound ==
  ASSUME Names, IndInv, NEW t \in Ticks, TickStep(t) \/ TickDies(t)
  PROVE  TickSound(t)'
<1>s. /\ TickSound(t) /\ TypeOK /\ tick \in [Ticks -> TickRecord] /\ tick[t] \in TickRecord
  BY DEF IndInv, TypeOK, TickRecord
<1>1. CASE TickBegin(t)
  <2>1. /\ tick'[t].pc = "next" /\ tick'[t].picked = due /\ tick'[t].todo = due
        /\ tick'[t].made = tick[t].made /\ tick'[t].rows = tick[t].rows
        /\ UNCHANGED <<file, writer, job, tracker>>
    BY <1>1, <1>s DEF TickBegin, TickRecord
  <2> QED BY <2>1, <1>s DEF TickSound, InHand
<1>2. ASSUME NEW c \in Clients, TickLook(t, c) PROVE TickSound(t)'
  <2>0. tick[t].pc = "next" /\ UNCHANGED <<file, writer, job, tracker>>
    BY <1>2 DEF TickLook
  <2>1. CASE tracker[c] = "ok"
    <3>1. tick' = [tick EXCEPT ![t] = [tick[t] EXCEPT !.todo = @ \ {c}]]
      BY <1>2, <2>1 DEF TickLook
    <3>2. /\ tick'[t].pc = "next" /\ tick'[t].picked = tick[t].picked
          /\ tick'[t].todo = tick[t].todo \ {c}
          /\ tick'[t].made = tick[t].made /\ tick'[t].rows = tick[t].rows
      BY <2>0, <3>1, <1>s DEF TickRecord
    <3>3. ASSUME NEW d \in tick'[t].picked \ tick'[t].todo PROVE Provided(t, d)'
      <4>1. d \in Clients
        BY <3>2, <1>s DEF TickRecord
      <4>2. Provided(t, d)
        BY <2>0, <2>1, <3>2, <1>s DEF TickSound, InHand, Provided, Settled
      <4> QED BY <4>1, <4>2, <2>0, <3>2, OwnProvided
    <3> QED BY <2>0, <3>2, <3>3, <1>s DEF TickSound, InHand
  <2>2. CASE tracker[c] # "ok"
    <3> DEFINE label == IF file[c] = "good" THEN "mark" ELSE "enqueue"
    <3>1. tick' = [tick EXCEPT ![t] = [tick[t] EXCEPT !.pc = label, !.todo = @ \ {c}, !.at = c,
                                                      !.saw = tracker[c]]]
      BY <1>2, <2>2 DEF TickLook
    <3>2. /\ tick'[t].pc = label /\ tick'[t].picked = tick[t].picked
          /\ tick'[t].todo = tick[t].todo \ {c} /\ tick'[t].at = c /\ tick'[t].saw = tracker[c]
          /\ tick'[t].made = tick[t].made /\ tick'[t].rows = tick[t].rows
      BY <3>1, <1>s DEF TickRecord
    <3>3. ASSUME NEW d \in tick'[t].picked \ tick'[t].todo PROVE Provided(t, d)' \/ d = c
      <4>1. d \in Clients
        BY <3>2, <1>s DEF TickRecord
      <4>2. Provided(t, d) \/ d = c
        BY <2>0, <3>2, <1>s DEF TickSound, InHand
      <4> QED BY <4>1, <4>2, <2>0, <3>2, OwnProvided
    <3> QED BY <2>0, <2>2, <3>2, <3>3, <1>s DEF TickSound, InHand
  <2> QED BY <2>1, <2>2
<1>3. CASE TickMark(t)
  BY <1>3, UpsertSound DEF TickMark
<1>4. CASE TickTrack(t)
  BY <1>4, UpsertSound DEF TickTrack
<1>5. CASE TickEnqueue(t)
  <2> DEFINE a == tick[t].at
  <2>0. tick[t].pc = "enqueue" /\ UNCHANGED <<file, writer, job, tracker>> /\ a \in Clients
    BY <1>5, <1>s DEF TickEnqueue, TickSound, InHand
  <2>1. CASE tick' = [tick EXCEPT ![t] = Onward(t, "broken")]
    <3>1. /\ tick'[t].pc = "broken" /\ tick'[t].rows = tick[t].rows
          /\ tick'[t].made = tick[t].made
      BY <2>1, <1>s DEF Onward, TickRecord
    <3> QED BY <2>0, <3>1, <1>s DEF TickSound, InHand
  <2>2. ASSUME /\ tick'[t].picked = tick[t].picked /\ tick'[t].todo = tick[t].todo
               /\ tick'[t].made = tick[t].made \cup {a} /\ tick'[t].rows = tick[t].rows
               /\ \/ tick'[t].pc = "track" /\ tick'[t].at = a
                  \/ tick'[t].pc = "next"
        PROVE  TickSound(t)'
    <3>1. ASSUME NEW d \in tick'[t].picked \ tick'[t].todo PROVE Provided(t, d)'
      <4>1. d \in Clients
        BY <2>2, <1>s DEF TickRecord
      <4>2. Provided(t, d) \/ d = a
        BY <2>0, <2>2, <1>s DEF TickSound, InHand
      <4>3. d = a => Provided(t, d)'
        BY <2>2 DEF Provided
      <4> QED BY <4>1, <4>2, <4>3, <2>0, <2>2, OwnProvided
    <3> QED BY <2>0, <2>2, <3>1, <1>s DEF TickSound, InHand
  <2>3. CASE tick' = [tick EXCEPT ![t] = [tick[t] EXCEPT !.pc = "track", !.made = @ \cup {a},
                                            !.saw = IF @ = "none" THEN tracker[a] ELSE @]]
    <3>1. /\ tick'[t].picked = tick[t].picked /\ tick'[t].todo = tick[t].todo
          /\ tick'[t].made = tick[t].made \cup {a} /\ tick'[t].rows = tick[t].rows
          /\ tick'[t].pc = "track" /\ tick'[t].at = a
      BY <2>3, <1>s DEF TickRecord
    <3> QED BY <2>2, <3>1
  <2>4. CASE tick' = [tick EXCEPT ![t] = [Onward(t, "next") EXCEPT !.made = @ \cup {a}]]
    <3>1. /\ tick'[t].picked = tick[t].picked /\ tick'[t].todo = tick[t].todo
          /\ tick'[t].made = tick[t].made \cup {a} /\ tick'[t].rows = tick[t].rows
          /\ tick'[t].pc = "next"
      BY <2>4, <1>s DEF Onward, TickRecord
    <3> QED BY <2>2, <3>1
  <2> QED BY <1>5, <2>1, <2>3, <2>4 DEF TickEnqueue
<1>6. CASE TickCommit(t) \/ TickRaises(t) \/ TickDies(t)
  BY <1>6, DoneSound DEF TickCommit, TickRaises, TickDies
<1>7. CASE TickDeadlocked(t)
  <2>1. tick' = [tick EXCEPT ![t] = Onward(t, "broken")] /\ UNCHANGED <<file, writer, job, tracker>>
    BY <1>7 DEF TickDeadlocked
  <2>2. /\ tick'[t].pc = "broken" /\ tick'[t].rows = tick[t].rows
        /\ tick'[t].made = tick[t].made
    BY <2>1, <1>s DEF Onward, TickRecord
  <2> QED BY <2>1, <2>2, <1>s DEF TickSound, InHand
<1> QED BY <1>1, <1>2, <1>3, <1>4, <1>5, <1>6, <1>7 DEF TickStep

LEMMA TickNext ==
  ASSUME Names, IndInv, Next, NEW t \in Ticks
  PROVE  TickSound(t)'
<1>t. /\ tick \in [Ticks -> TickRecord] /\ writer \in [Clients -> Ticks \cup Jobs \cup {Nobody}]
      /\ TypeOK /\ \A u \in Ticks : TickSound(u)
  BY DEF IndInv, TypeOK, TickRecord
<1>1. CASE TickStep(t) \/ TickDies(t)
  BY <1>1, OwnSound
<1>2. ASSUME NEW u \in Ticks \ {t}, TickStep(u) \/ TickDies(u) PROVE TickSound(t)'
  <2>1. TickEffect(u)
    BY <1>2, <1>t, TickHasEffect
  <2>2. tick'[t] = tick[t] /\ \A c \in Clients : writer'[c] = t <=> writer[c] = t
    BY <2>1, <1>t DEF TickEffect, Unwritten, Names
  <2> QED BY <2>2, OtherSound
<1>3. ASSUME NEW j \in Jobs, RunEffect(j) PROVE TickSound(t)'
  <2>1. j # t /\ t # Nobody
    BY DEF Names
  <2>2. tick'[t] = tick[t] /\ \A c \in Clients : writer'[c] = t <=> writer[c] = t
    BY <1>3, <1>t, <2>1 DEF RunEffect, Unwritten
  <2> QED BY <2>2, OtherSound
<1>4. CASE ElseEffect
  BY <1>4, OtherSound DEF ElseEffect
<1>5. (\E u \in Ticks : TickStep(u) \/ TickDies(u)) \/ (\E j \in Jobs : RunEffect(j)) \/ ElseEffect
  BY <1>t, RunHasEffect, ElseHasEffect DEF Next
<1> QED BY <1>1, <1>2, <1>3, <1>4, <1>5

-----------------------------------------------------------------------------
\* The theorems.

\* The invariant of the month holds for any number of clients, ticks and runs.
THEOREM Invariance == ASSUME Names PROVE Spec => []IndInv
<1>1. Init => IndInv
  BY IndInvInit
<1>2. IndInv /\ [Next]_vars => IndInv'
  <2>1. IndInv /\ Next => IndInv'
    BY TypeNext, LockNext, OutcomeNext, TickNext DEF IndInv
  <2>2. IndInv /\ UNCHANGED vars => IndInv'
    BY DEF IndInv, vars, TypeOK, LockHeld, OutcomeTruthful, TickSound, Provided, MayExpire
  <2> QED BY <2>1, <2>2
<1> QED BY <1>1, <1>2, PTL DEF Spec

\* At most one run of a client's month is past the lock.
THEOREM Exclusive == ASSUME Names PROVE Spec => []ExclusiveDownload
<1>1. IndInv => ExclusiveDownload
  BY DEF IndInv, LockHeld, ExclusiveDownload
<1> QED BY <1>1, Invariance, PTL

\* The committed row says ok or skipped only of a month whose file is good.
THEOREM Truthful == ASSUME Names PROVE Spec => []OutcomeTruthful
<1>1. IndInv => OutcomeTruthful
  BY DEF IndInv
<1> QED BY <1>1, Invariance, PTL

\* A tick that commits has provided for every client it selected.
THEOREM AllOrNothing == ASSUME Names PROVE Spec => TickAllOrNothing
<1>1. IndInv /\ [Next]_vars =>
        [\A t \in Ticks : TickCommit(t) =>
           \A c \in tick[t].picked :
             job'[<<c, "overnight">>] # "absent" \/ tracker'[c] \in {"ok", "skipped"}]_vars
  <2> SUFFICES ASSUME IndInv, Next, NEW t \in Ticks, TickCommit(t), NEW c \in tick[t].picked
               PROVE  job'[<<c, "overnight">>] # "absent" \/ tracker'[c] \in Settled
    BY DEF vars, TickCommit, Settled
  <2>1. c \in Clients /\ TickSound(t)
    BY DEF IndInv, TypeOK
  <2>2. tick[t].pc = "next" /\ tick[t].todo = {}
    BY DEF TickCommit, MayCommit
  <2>3. Provided(t, c)
    BY <2>1, <2>2 DEF TickSound, InHand
  <2>4. job[<<c, "overnight">>] # "absent" => job'[<<c, "overnight">>] # "absent"
    BY <2>1, JobKept, OvernightJob
  <2> QED BY <2>1, <2>3, <2>4, CommitRow DEF Provided, TickSound
<1> QED BY <1>1, Invariance, PTL DEF Spec, TickAllOrNothing
=============================================================================
