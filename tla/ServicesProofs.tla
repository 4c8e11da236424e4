--------------------------- MODULE ServicesProofs ---------------------------
(***************************************************************************)
(* The other services, whose rows stand for things outside the database:   *)
(* browser contexts, evidence files, jobs that are validated; the two with *)
(* proof modules of their own, the month and the captcha relay, whose      *)
(* theorems are carried over; and the types of all ten.                    *)
(***************************************************************************)
EXTENDS ServiceRowsProofs

-----------------------------------------------------------------------------
\* A worker's browser: one execution at a time, and room for what it opens.

\* The place of an execution: what its row says, in its session and committed, and what of
\* it can exist; only the execution under way is between its begin and its end, and it has
\* found room in its browser.
Room == IF MaxContexts > 0 THEN MaxContexts ELSE 1

Placed(t) ==
  /\ contextPc[t] \notin {"idle", "over"} => task = t
  /\ contextPc[t] \in {"idle", "acquire", "workspace", "context", "record"} =>
       row[t] = "none" /\ committed[t] = "none"
  /\ contextPc[t] \in {"idle", "acquire", "workspace", "context"} => t \notin open
  /\ contextPc[t] = "handler" => row[t] = "active" /\ committed[t] # "closed"
  /\ contextPc[t] = "commit" => t \notin open /\ committed[t] # "closed"
  /\ contextPc[t] \in {"workspace", "context"} => created < Room
  /\ committed[t] = "closed" => t \notin open

Counted == IsFiniteSet(open) /\ Cardinality(open) <= created /\ created <= Room

AllPlaced == Contexts!TypeOK /\ Counted /\ \A t \in Tasks : Placed(t)

LEMMA AllPlacedInit == ASSUME MaxContexts \in Int, Nobody \notin Tasks PROVE Contexts!Init => AllPlaced
<1> SUFFICES ASSUME Contexts!Init PROVE AllPlaced
  OBVIOUS
<1>1. Contexts!TypeOK
  BY DEF Contexts!Init, Contexts!TypeOK, Contexts!RowStates
<1>2. Counted
  BY FS_EmptySet DEF Contexts!Init, Counted, Room
<1>3. ASSUME NEW t \in Tasks PROVE Placed(t)
  BY DEF Contexts!Init, Placed
<1> QED BY <1>1, <1>2, <1>3 DEF AllPlaced

LEMMA OldNext == ASSUME Contexts!TypeOK, [Contexts!Next]_(Contexts!vars) PROVE old' \in BOOLEAN
<1>1. old \in BOOLEAN
  BY DEF Contexts!TypeOK
<1>2. CASE UNCHANGED old
  BY <1>1, <1>2
<1>3. CASE old' = FALSE \/ old' = TRUE
  BY <1>3
<1>4. UNCHANGED Contexts!vars \/ Contexts!GoesStale \/ Contexts!Ages \/ Contexts!WatchdogRestart
        => UNCHANGED old \/ old' = FALSE \/ old' = TRUE
  BY Zenon DEF Contexts!vars, Contexts!GoesStale, Contexts!Ages, Contexts!WatchdogRestart,
     Contexts!Gone
<1>5. ASSUME NEW t \in Tasks,
             \/ Contexts!Begin(t) \/ Contexts!Reuse(t) \/ Contexts!Launch(t)
                \/ Contexts!MakeWorkspace(t)
             \/ Contexts!NewContext(t) \/ Contexts!NewContextRetried(t)
                \/ Contexts!RecordFails(t) \/ Contexts!Record(t)
             \/ Contexts!HandlerCommits(t) \/ Contexts!CloseContext(t)
                \/ Contexts!CloseRaises(t) \/ Contexts!CommitSession(t)
             \/ Contexts!Crash(t)
      PROVE  UNCHANGED old \/ old' = FALSE
  BY <1>5, Zenon DEF Contexts!Begin, Contexts!Reuse, Contexts!Launch, Contexts!MakeWorkspace,
     Contexts!NewContext, Contexts!NewContextRetried, Contexts!RecordFails, Contexts!Record,
     Contexts!HandlerCommits, Contexts!CloseContext, Contexts!CloseRaises, Contexts!CommitSession,
     Contexts!Crash, Contexts!Launched, Contexts!Gone
<1> QED BY <1>2, <1>3, <1>4, <1>5 DEF Contexts!Next

LEMMA TypeNext == ASSUME Contexts!TypeOK, [Contexts!Next]_(Contexts!vars) PROVE Contexts!TypeOK'
<1> DEFINE Rest ==
      /\ browser \in {"absent", "live", "stale"} /\ created \in Nat
      /\ open \subseteq Tasks /\ task \in Tasks \cup {Nobody}
      /\ contextPc \in [Tasks -> {"idle", "acquire", "workspace", "context", "record", "handler",
                           "close", "commit", "over"}]
      /\ row \in [Tasks -> Contexts!RowStates] /\ committed \in [Tasks -> Contexts!RowStates]
<1>0. Rest
  BY DEF Contexts!TypeOK
<1>r. Rest'
  <2> USE <1>0 DEF Contexts!RowStates, Contexts!Goto, Contexts!Over, Contexts!Launched,
      Contexts!Gone
  <2>1. CASE UNCHANGED Contexts!vars
    BY <2>1 DEF Contexts!vars
  <2>2. CASE Contexts!GoesStale \/ Contexts!Ages \/ Contexts!WatchdogRestart
    BY <2>2 DEF Contexts!GoesStale, Contexts!Ages, Contexts!WatchdogRestart
  <2>3. ASSUME NEW t \in Tasks,
               Contexts!Begin(t) \/ Contexts!Reuse(t) \/ Contexts!Launch(t)
               \/ Contexts!MakeWorkspace(t) PROVE Rest'
    BY <2>3 DEF Contexts!Begin, Contexts!Reuse, Contexts!Launch, Contexts!MakeWorkspace
  <2>4. ASSUME NEW t \in Tasks, Contexts!NewContext(t) \/ Contexts!NewContextRetried(t) PROVE Rest'
    BY <2>4 DEF Contexts!NewContext, Contexts!NewContextRetried
  <2>5. ASSUME NEW t \in Tasks,
               Contexts!RecordFails(t) \/ Contexts!Record(t) \/ Contexts!HandlerCommits(t)
               PROVE  Rest'
    BY <2>5 DEF Contexts!RecordFails, Contexts!Record, Contexts!HandlerCommits
  <2>6. ASSUME NEW t \in Tasks,
               Contexts!CloseContext(t) \/ Contexts!CloseRaises(t) \/ Contexts!CommitSession(t)
               \/ Contexts!Crash(t)
        PROVE  Rest'
    BY <2>6 DEF Contexts!CloseContext, Contexts!CloseRaises, Contexts!CommitSession, Contexts!Crash
  <2> QED BY <2>1, <2>2, <2>3, <2>4, <2>5, <2>6 DEF Contexts!Next
<1> QED BY <1>r, OldNext, Zenon DEF Contexts!TypeOK

\* A step opens at most one context, which it has counted, in a browser that had room.
LEMMA CountedNext ==
  ASSUME MaxContexts \in Int, AllPlaced, [Contexts!Next]_(Contexts!vars) PROVE Counted'
<1> USE DEF AllPlaced
<1>c. Cardinality(open) \in Nat /\ created \in Nat /\ Room \in Nat /\ Room >= 1
  BY FS_CardinalityType DEF Counted, Contexts!TypeOK, Room
<1>e. IsFiniteSet({}) /\ Cardinality({}) = 0
  BY FS_EmptySet
<1>f. IsFiniteSet(open) /\ Cardinality(open) <= created /\ created <= Room
  BY DEF Counted
<1>m. Room' = Room
  BY DEF Room
<1>1. CASE UNCHANGED <<open, created>>
  BY <1>1 DEF Counted, Room
<1>2. CASE open' = {} /\ created' = 0
  BY <1>2, <1>c, <1>e DEF Counted, Room
<1>3. ASSUME NEW t \in Tasks, Contexts!NewContext(t) PROVE Counted'
  <2>1. created' = created + 1 /\ created < Room /\ (open' = open \cup {t} \/ open' = open)
    BY <1>3 DEF Contexts!NewContext, Placed
  <2>2. /\ IsFiniteSet(open \cup {t})
        /\ Cardinality(open \cup {t}) = IF t \in open THEN Cardinality(open)
             ELSE Cardinality(open) + 1
    BY <1>f, FS_AddElement
  <2>3. CASE open' = open
    BY <1>c, <1>f, <1>m, <2>1, <2>3 DEF Counted
  <2>4. CASE open' = open \cup {t}
    BY <1>c, <1>f, <1>m, <2>1, <2>2, <2>4 DEF Counted
  <2> QED BY <2>1, <2>3, <2>4
<1>4. ASSUME NEW t \in Tasks, Contexts!NewContextRetried(t) PROVE Counted'
  <2>1. \/ created' = 1 /\ (open' = {t} \/ open' = {})
        \/ created' = 0 /\ open' = {}
    BY <1>4, Zenon DEF Contexts!NewContextRetried, Contexts!Gone
  <2>2. IsFiniteSet({t}) /\ Cardinality({t}) = 1
    BY FS_Singleton
  <2> QED BY <1>c, <1>e, <2>1, <2>2 DEF Counted, Room
<1>5. ASSUME NEW t \in Tasks, Contexts!CloseContext(t) PROVE Counted'
  <2>1. open' = open \ {t} /\ created' = created
    BY <1>5 DEF Contexts!CloseContext
  <2>2. /\ IsFiniteSet(open \ {t})
        /\ Cardinality(open \ {t}) = IF t \in open THEN Cardinality(open) - 1 ELSE Cardinality(open)
    BY <1>f, FS_RemoveElement
  <2>3. Cardinality(open') <= created' /\ IsFiniteSet(open') /\ created' <= Room'
    BY <1>c, <1>f, <1>m, <2>1, <2>2
  <2> QED BY <2>3 DEF Counted
<1> QED BY <1>1, <1>2, <1>3, <1>4, <1>5 DEF Contexts!Next, Contexts!vars, Contexts!GoesStale,
           Contexts!Ages, Contexts!WatchdogRestart, Contexts!Begin, Contexts!Reuse,
           Contexts!Launch, Contexts!MakeWorkspace, Contexts!RecordFails, Contexts!Record,
           Contexts!HandlerCommits, Contexts!CloseRaises, Contexts!CommitSession, Contexts!Crash,
           Contexts!Launched, Contexts!Gone

\* The other executions stay where they are: what a step takes away it takes from all, what
\* it adds is its own.
LEMMA PlacedNext ==
  ASSUME Nobody \notin Tasks, MaxContexts \in Int, AllPlaced, [Contexts!Next]_(Contexts!vars),
         NEW u \in Tasks
  PROVE  Placed(u)'
<1> USE DEF AllPlaced, Contexts!TypeOK, Contexts!RowStates, Contexts!Goto, Contexts!Over,
            Contexts!Launched, Contexts!Gone
<1>t. Placed(u) /\ created \in Nat /\ Room \in Nat /\ Room >= 1 /\ Room' = Room
  BY DEF Room
<1>1. CASE UNCHANGED Contexts!vars
  BY <1>1, <1>t DEF Contexts!vars, Placed
<1>2. CASE Contexts!GoesStale \/ Contexts!Ages \/ Contexts!WatchdogRestart
  BY <1>2, <1>t DEF Contexts!GoesStale, Contexts!Ages, Contexts!WatchdogRestart, Placed
<1>3. ASSUME NEW t \in Tasks, t # u,
             \/ Contexts!Begin(t) \/ Contexts!Reuse(t) \/ Contexts!Launch(t)
                \/ Contexts!MakeWorkspace(t)
             \/ Contexts!NewContext(t) \/ Contexts!NewContextRetried(t)
                \/ Contexts!RecordFails(t) \/ Contexts!Record(t)
             \/ Contexts!HandlerCommits(t) \/ Contexts!CloseContext(t)
                \/ Contexts!CloseRaises(t) \/ Contexts!CommitSession(t)
             \/ Contexts!Crash(t)
      PROVE  Placed(u)'
  <2>1. contextPc[u] \in {"idle", "over"}
    BY <1>3, <1>t DEF Placed, Contexts!Begin, Contexts!Reuse, Contexts!Launch,
       Contexts!MakeWorkspace, Contexts!NewContext, Contexts!NewContextRetried,
       Contexts!RecordFails, Contexts!Record, Contexts!HandlerCommits, Contexts!CloseContext,
       Contexts!CloseRaises, Contexts!CommitSession, Contexts!Crash
  <2>2. /\ contextPc'[u] = contextPc[u] /\ row'[u] = row[u] /\ committed'[u] = committed[u]
        /\ u \in open' => u \in open
    BY <1>3, <1>t DEF Contexts!Begin, Contexts!Reuse, Contexts!Launch, Contexts!MakeWorkspace,
       Contexts!NewContext, Contexts!NewContextRetried, Contexts!RecordFails, Contexts!Record,
       Contexts!HandlerCommits, Contexts!CloseContext, Contexts!CloseRaises,
       Contexts!CommitSession, Contexts!Crash
  <2> QED BY <1>t, <2>1, <2>2 DEF Placed
<1>4. CASE Contexts!Begin(u) \/ Contexts!Reuse(u) \/ Contexts!Launch(u) \/ Contexts!MakeWorkspace(u)
  BY <1>4, <1>t DEF Placed, Contexts!Begin, Contexts!Reuse, Contexts!Launch,
     Contexts!MakeWorkspace, Contexts!Retire, Room
<1>5. CASE Contexts!NewContext(u) \/ Contexts!NewContextRetried(u)
  BY <1>5, <1>t DEF Placed, Contexts!NewContext, Contexts!NewContextRetried
<1>6. CASE Contexts!RecordFails(u) \/ Contexts!Record(u) \/ Contexts!HandlerCommits(u)
  BY <1>6, <1>t DEF Placed, Contexts!RecordFails, Contexts!Record, Contexts!HandlerCommits
<1>7. CASE Contexts!CloseContext(u) \/ Contexts!CloseRaises(u) \/ Contexts!CommitSession(u)
           \/ Contexts!Crash(u)
  BY <1>7, <1>t DEF Placed, Contexts!CloseContext, Contexts!CloseRaises, Contexts!CommitSession,
     Contexts!Crash
<1> QED BY <1>1, <1>2, <1>3, <1>4, <1>5, <1>6, <1>7 DEF Contexts!Next

\* The one execution under way has its place, and contexts are counted before they are there
\* (browser/pool.py, browser/session.py), for any number of executions.
THEOREM ContextsPlaced == Spec => []AllPlaced
<1>1. Nobody \notin Tasks /\ MaxContexts \in Int
  BY NamesAssumption
<1>2. Contexts!Init => AllPlaced
  BY <1>1, AllPlacedInit
<1>3. AllPlaced /\ [Contexts!Next]_(Contexts!vars) => AllPlaced'
  BY <1>1, TypeNext, CountedNext, PlacedNext DEF AllPlaced
<1> QED BY <1>2, <1>3, PTL DEF Spec, Contexts!Spec

\* However many executions fail and leak, a browser never has more contexts than its maximum.
THEOREM ContextsBounded == Spec => []OpenBounded
<1>1. AllPlaced => OpenBounded
  <2> SUFFICES ASSUME AllPlaced PROVE OpenBounded
    OBVIOUS
  <2>1. Cardinality(open) \in Nat /\ created \in Nat
    BY FS_CardinalityType DEF AllPlaced, Counted, Contexts!TypeOK
  <2>2. Contexts!Cardinality(open) = Cardinality(open)
    BY DEF Contexts!Cardinality, Cardinality
  <2>3. Cardinality(open) <= created /\ created <= Room /\ MaxContexts \in Int
    BY NamesAssumption DEF AllPlaced, Counted
  <2> QED BY <2>1, <2>2, <2>3 DEF Room, OpenBounded, Contexts!OpenBounded
<1> QED BY <1>1, ContextsPlaced, PTL

\* A context whose row was committed as closed is not open, whatever failed on its way.
THEOREM ClosedRowsTrue == Spec => []ClosedMeansGone
<1>1. AllPlaced => ClosedMeansGone
  BY DEF AllPlaced, Placed, ClosedMeansGone, Contexts!ClosedMeansGone
<1> QED BY <1>1, ContextsPlaced, PTL

-----------------------------------------------------------------------------
\* Evidence of portal runs: a run's rows, files and log until its commit, and after it.

Apart ==
  /\ Smokes \cap Bundles = {} /\ Screenshots \subseteq Captures
  /\ (Evidence!Events \cup Evidence!Flaws \cup {"many"}) \cap Captures = {}

\* A row of the file has expired.
Aged(x) == \E g \in aged : Evidence!FileOf(g) = x

\* A run that has not committed has a file for each of its rows, and nothing of it is indexed;
\* of one that has, every row is indexed or expired, and a file only stays with its rows.
RunRows(r) ==
  /\ r \in done =>
       /\ evidencePc[r] = "over"
       /\ \A e \in flushed[r] :
            <<r, e>> \in index \cup aged /\ (<<r, e[1]>> \in disk => <<r, e>> \in index)
  /\ r \notin done => \A e \in Evidence!Entries :
       <<r, e>> \notin index \cup aged /\ (e \in flushed[r] => <<r, e[1]>> \in disk)

\* What the audit reads of a run was written, whole, before the run could commit.
RunLog(r) ==
  /\ \A k \in log[r] \cap Captures : \E n \in 1..MaxTakes : <<k, n>> \in flushed[r]
  /\ evidencePc[r] = "indexing" => r \in Smokes
  /\ evidencePc[r] = "idle" => log[r] = {}
  /\ r \in Smokes /\ (evidencePc[r] \in {"running", "indexing", "returned", "closed"} \/ r \in done) =>
       /\ <<r, "replay">> \in disk \/ Aged(<<r, "replay">>)
       /\ "workflow.start" \in log[r] /\ "torn" \notin log[r]
  /\ r \in Smokes /\ (evidencePc[r] \in {"indexing", "returned", "closed"} \/ r \in done) =>
       "workflow.completed" \in log[r] \/ "many" \in log[r]

\* A sweep touches expired rows only; the files of those it deleted are gone.
SweepRows(s) ==
  /\ sweep[s].rows \cup sweep[s].gone \subseteq aged
  /\ \A g \in sweep[s].gone : Evidence!FileOf(g) \notin disk

Evident ==
  /\ Evidence!TypeOK
  /\ \A r \in Evidence!Runs : RunRows(r) /\ RunLog(r)
  /\ \A s \in Sweeps : SweepRows(s)
  /\ \A f \in index : Evidence!FileOf(f) \notin disk => Aged(Evidence!FileOf(f))

EvidencePcs == {"idle", "running", "indexing", "returned", "failing", "closed", "over"}

LEMMA EvidentInit == Evidence!Init => Evident
BY DEF Evidence!Init, Evident, Evidence!TypeOK, RunRows, RunLog, SweepRows, Evidence!NoSweep,
   Evidence!Files

\* A row's run and file.
LEMMA RowParts ==
  ASSUME NEW f \in Evidence!Rows
  PROVE  /\ f[1] \in Evidence!Runs /\ f[2] \in Evidence!Entries /\ f = <<f[1], f[2]>>
         /\ Evidence!FileOf(f) = <<f[1], f[2][1]>> /\ Evidence!FileOf(f) \in Evidence!Files
BY DEF Evidence!Rows, Evidence!Entries, Evidence!FileOf, Evidence!Files

\* A step of a run that has not committed: files, rows and lines are its own, which no row of
\* another run and no sweep has touched.
LEMMA RunStep ==
  ASSUME Evident, NEW r \in Evidence!Runs, r \notin done,
         UNCHANGED <<done, index, aged, sweep>>,
         NEW K \in SUBSET Evidence!Names, disk' = disk \cup {<<r, k>> : k \in K},
         NEW label \in EvidencePcs, evidencePc' = [evidencePc EXCEPT ![r] = label],
         flushed' \in [Evidence!Runs -> SUBSET Evidence!Entries],
         \A q \in Evidence!Runs \ {r} : flushed'[q] = flushed[q],
         \A e \in flushed'[r] : e \in flushed[r] \/ <<r, e[1]>> \in disk',
         log' \in [Evidence!Runs -> SUBSET Evidence!Lines],
         \A q \in Evidence!Runs \ {r} : log'[q] = log[q],
         RunLog(r)'
  PROVE  Evident'
<1>1. Evidence!TypeOK'
  <2>1. disk' \subseteq Evidence!Files
    BY DEF Evident, Evidence!TypeOK, Evidence!Files
  <2> QED BY <2>1 DEF Evident, Evidence!TypeOK, EvidencePcs
<1>2. \A q \in Evidence!Runs \ {r} : \A k : <<q, k>> \in disk' <=> <<q, k>> \in disk
  OBVIOUS
<1>3. ASSUME NEW q \in Evidence!Runs \ {r} PROVE RunRows(q)' /\ RunLog(q)'
  <2>1. evidencePc'[q] = evidencePc[q] /\ flushed'[q] = flushed[q] /\ log'[q] = log[q]
    BY DEF Evident, Evidence!TypeOK
  <2>2. RunRows(q)'
    BY <1>2, <2>1 DEF Evident, RunRows
  <2>3. RunLog(q)'
    BY <1>2, <2>1 DEF Evident, RunLog, Aged
  <2> QED BY <2>2, <2>3
<1>4. RunRows(r)'
  BY DEF Evident, RunRows
<1>5. \A s \in Sweeps : SweepRows(s)'
  <2> SUFFICES ASSUME NEW s \in Sweeps, NEW g \in sweep[s].gone
               PROVE  Evidence!FileOf(g) \notin disk'
    BY DEF Evident, SweepRows
  <2>1. g \in aged /\ Evidence!FileOf(g) \notin disk
    BY DEF Evident, SweepRows
  <2>2. g \in Evidence!Rows
    BY <2>1 DEF Evident, Evidence!TypeOK
  <2>3. g[1] # r
    BY <2>1, <2>2, RowParts DEF Evident, RunRows
  <2> QED BY <2>1, <2>2, <2>3, RowParts
<1>6. \A f \in index : Evidence!FileOf(f) \notin disk' => Aged(Evidence!FileOf(f))'
  BY DEF Evident, Aged
<1> QED BY <1>1, <1>3, <1>4, <1>5, <1>6 DEF Evident

\* A row of its own for a file that is there.
LEMMA Flushes ==
  ASSUME Evident, NEW r \in Evidence!Runs, NEW k \in Evidence!Names,
         Evidence!Flush(r, k) \/ UNCHANGED flushed
  PROVE  /\ flushed' \in [Evidence!Runs -> SUBSET Evidence!Entries]
         /\ \A q \in Evidence!Runs \ {r} : flushed'[q] = flushed[q]
         /\ \A e \in flushed'[r] : e \in flushed[r] \/ e[1] = k
         /\ flushed[r] \subseteq flushed'[r]
         /\ Evidence!Flush(r, k) => \E n \in 1..MaxTakes : <<k, n>> \in flushed'[r]
<1>0. flushed \in [Evidence!Runs -> SUBSET Evidence!Entries]
  BY DEF Evident, Evidence!TypeOK
<1>1. CASE UNCHANGED flushed /\ ~Evidence!Flush(r, k)
  BY <1>0, <1>1
<1>2. CASE Evidence!Flush(r, k)
  <2>1. PICK n \in 1..MaxTakes : flushed' = [flushed EXCEPT ![r] = flushed[r] \cup {<<k, n>>}]
    BY <1>2 DEF Evidence!Flush
  <2>2. <<k, n>> \in Evidence!Entries
    BY DEF Evidence!Entries
  <2> QED BY <1>0, <2>1, <2>2
<1> QED BY <1>1, <1>2

\* A line of its own, in the part of the replay file that is looked at.
LEMMA LogsLine ==
  ASSUME Evident, NEW r \in Evidence!Runs, NEW e \in Evidence!Lines,
         Evidence!Logs(r, e) \/ UNCHANGED log
  PROVE  /\ log' \in [Evidence!Runs -> SUBSET Evidence!Lines]
         /\ \A q \in Evidence!Runs \ {r} : log'[q] = log[q]
         /\ log[r] \subseteq log'[r] /\ log'[r] \subseteq log[r] \cup {e}
         /\ Evidence!Logs(r, e) /\ r \in Smokes => e \in log'[r] \/ "many" \in log[r]
BY DEF Evidence!Logs, Evident, Evidence!TypeOK

LEMMA NoFile ==
  ASSUME NEW r PROVE {} \in SUBSET Evidence!Names /\ {<<r, k>> : k \in {}} = {}
OBVIOUS

LEMMA OneFile ==
  ASSUME NEW r, NEW n \in Evidence!Names
  PROVE  {n} \in SUBSET Evidence!Names /\ {<<r, k>> : k \in {n}} = {<<r, n>>}
OBVIOUS

LEMMA NamesOf ==
  /\ Captures \subseteq Evidence!Names /\ {"replay", "trace", "bundle"} \subseteq Evidence!Names
  /\ Evidence!Events \cup Evidence!Flaws \cup {"many"} \cup Captures = Evidence!Lines
BY DEF Evidence!Names, Evidence!Lines

\* A run that is still going has not committed.
LEMMA NotDone ==
  ASSUME Evident, NEW r \in Evidence!Runs, evidencePc[r] # "over"
  PROVE  r \notin done
BY DEF Evident, RunRows

LEMMA StartNext == ASSUME Apart, Evident, NEW r \in Evidence!Runs, Evidence!StartWorkflow(r)
  PROVE  Evident'
<1> USE DEF Evidence!StartWorkflow, Evidence!Goto, EvidencePcs
<1>1. /\ r \notin done /\ log[r] = {} /\ flushed \in [Evidence!Runs -> SUBSET Evidence!Entries]
      /\ evidencePc'[r] = "running" /\ "workflow.start" \in Evidence!Lines
  BY NotDone DEF Evident, RunLog, Evidence!TypeOK, Evidence!Lines, Evidence!Events
<1>2. /\ log' \in [Evidence!Runs -> SUBSET Evidence!Lines]
      /\ \A q \in Evidence!Runs \ {r} : log'[q] = log[q]
      /\ log'[r] \subseteq {"workflow.start"} /\ (r \in Smokes => "workflow.start" \in log'[r])
  BY <1>1, LogsLine
<1>3. "workflow.start" \notin Captures
  BY DEF Apart, Evidence!Events
<1>4. RunLog(r)'
  BY <1>1, <1>2, <1>3 DEF RunLog
<1>5. ASSUME NEW K \in SUBSET Evidence!Names, disk' = disk \cup {<<r, k>> : k \in K} PROVE Evident'
  BY <1>1, <1>2, <1>4, <1>5, RunStep DEF Evident, RunRows
<1>6. CASE r \in Smokes
  BY <1>5, <1>6, NamesOf, OneFile
<1>7. CASE r \notin Smokes
  BY <1>5, <1>7, NoFile
<1> QED BY <1>6, <1>7

LEMMA StartFailsNext == ASSUME Apart, Evident, NEW r \in Evidence!Runs, Evidence!StartFails(r)
  PROVE  Evident'
<1> USE DEF Evidence!StartFails, Evidence!Goto, EvidencePcs
<1>1. /\ r \notin done /\ log[r] = {} /\ flushed \in [Evidence!Runs -> SUBSET Evidence!Entries]
      /\ evidencePc'[r] = "failing" /\ "torn" \in Evidence!Lines
  BY NotDone DEF Evident, RunLog, Evidence!TypeOK, Evidence!Lines, Evidence!Flaws
<1>2. /\ log' \in [Evidence!Runs -> SUBSET Evidence!Lines]
      /\ \A q \in Evidence!Runs \ {r} : log'[q] = log[q]
      /\ log'[r] \subseteq {"torn"}
  BY <1>1, LogsLine
<1>3. "torn" \notin Captures
  BY DEF Apart, Evidence!Flaws
<1>4. RunLog(r)'
  BY <1>1, <1>2, <1>3 DEF RunLog
<1>5. disk' = disk \cup {<<r, k>> : k \in {"replay"}} /\ {"replay"} \in SUBSET Evidence!Names
  BY NamesOf, OneFile DEF Evidence!Writes
<1> QED BY <1>1, <1>2, <1>4, <1>5, RunStep DEF Evident, RunRows

LEMMA ClockBackNext == ASSUME Apart, Evident, NEW r \in Evidence!Runs, Evidence!ClockBack(r)
  PROVE  Evident'
<1> USE DEF Evidence!ClockBack, EvidencePcs
<1>1. /\ r \notin done /\ flushed \in [Evidence!Runs -> SUBSET Evidence!Entries]
      /\ "earlier" \in Evidence!Lines /\ evidencePc' = [evidencePc EXCEPT ![r] = "running"]
  BY NotDone DEF Evident, Evidence!TypeOK, Evidence!Lines, Evidence!Flaws
<1>2. /\ log' \in [Evidence!Runs -> SUBSET Evidence!Lines]
      /\ \A q \in Evidence!Runs \ {r} : log'[q] = log[q]
      /\ log[r] \subseteq log'[r] /\ log'[r] \subseteq log[r] \cup {"earlier"}
  BY <1>1, LogsLine
<1>3. "earlier" \notin Captures
  BY DEF Apart, Evidence!Flaws
<1>4. RunLog(r)'
  <2>1. RunLog(r)
    BY DEF Evident
  <2> QED BY <1>1, <1>2, <1>3, <2>1 DEF RunLog, Aged
<1>5. \A e \in flushed'[r] : e \in flushed[r] \/ <<r, e[1]>> \in disk'
  OBVIOUS
<1>6. {} \in SUBSET Evidence!Names /\ disk' = disk \cup {<<r, k>> : k \in {}}
  BY NoFile
<1> QED BY <1>1, <1>2, <1>4, <1>5, <1>6, RunStep

LEMMA LogsManyNext == ASSUME Apart, Evident, NEW r \in Evidence!Runs, Evidence!LogsMany(r)
  PROVE  Evident'
<1> USE DEF Evidence!LogsMany, EvidencePcs
<1>1. /\ r \notin done /\ flushed \in [Evidence!Runs -> SUBSET Evidence!Entries]
      /\ "many" \in Evidence!Lines /\ evidencePc' = [evidencePc EXCEPT ![r] = "running"]
  BY NotDone DEF Evident, Evidence!TypeOK, Evidence!Lines
<1>2. /\ log' \in [Evidence!Runs -> SUBSET Evidence!Lines]
      /\ \A q \in Evidence!Runs \ {r} : log'[q] = log[q]
      /\ log'[r] = log[r] \cup {"many"}
  BY <1>1 DEF Evident, Evidence!TypeOK
<1>3. "many" \notin Captures
  BY DEF Apart
<1>4. RunLog(r)'
  <2>1. RunLog(r)
    BY DEF Evident
  <2> QED BY <1>1, <1>2, <1>3, <2>1 DEF RunLog, Aged
<1>5. \A e \in flushed'[r] : e \in flushed[r] \/ <<r, e[1]>> \in disk'
  OBVIOUS
<1>6. {} \in SUBSET Evidence!Names /\ disk' = disk \cup {<<r, k>> : k \in {}}
  BY NoFile
<1> QED BY <1>1, <1>2, <1>4, <1>5, <1>6, RunStep

LEMMA CaptureNext ==
  ASSUME Apart, Evident, NEW r \in Evidence!Runs, NEW k \in Captures, Evidence!Capture(r, k)
  PROVE  Evident'
<1> USE DEF Evidence!Capture, Evidence!Record, EvidencePcs
<1>1. /\ r \notin done /\ k \in Evidence!Names /\ k \in Evidence!Lines
      /\ evidencePc' = [evidencePc EXCEPT ![r] = "running"]
  BY NotDone, NamesOf DEF Evident, Evidence!TypeOK
<1>2. /\ log' \in [Evidence!Runs -> SUBSET Evidence!Lines]
      /\ \A q \in Evidence!Runs \ {r} : log'[q] = log[q]
      /\ log[r] \subseteq log'[r] /\ log'[r] \subseteq log[r] \cup {k}
  BY <1>1, LogsLine
<1>3. k \notin {"torn", "workflow.start", "workflow.completed", "many"}
  BY DEF Apart, Evidence!Flaws, Evidence!Events
<1>4. /\ flushed' \in [Evidence!Runs -> SUBSET Evidence!Entries]
      /\ \A q \in Evidence!Runs \ {r} : flushed'[q] = flushed[q]
      /\ \A e \in flushed'[r] : e \in flushed[r] \/ e[1] = k
      /\ flushed[r] \subseteq flushed'[r]
      /\ \E n \in 1..MaxTakes : <<k, n>> \in flushed'[r]
  BY <1>1, Flushes
<1>5. disk' = disk \cup {<<r, n>> : n \in {k}} /\ {k} \in SUBSET Evidence!Names /\ <<r, k>> \in disk'
  BY <1>1, OneFile DEF Evidence!Writes
<1>6. RunLog(r)'
  <2>1. RunLog(r)
    BY DEF Evident
  <2>2. \A m \in log'[r] \cap Captures : \E n \in 1..MaxTakes : <<m, n>> \in flushed'[r]
    BY <1>2, <1>4, <2>1 DEF RunLog
  <2> QED BY <1>1, <1>2, <1>3, <1>5, <2>1, <2>2 DEF RunLog, Aged
<1>7. \A e \in flushed'[r] : e \in flushed[r] \/ <<r, e[1]>> \in disk'
  BY <1>4, <1>5
<1> QED BY <1>1, <1>2, <1>4, <1>5, <1>6, <1>7, RunStep

LEMMA ActionFailsNext == ASSUME Apart, Evident, NEW r \in Evidence!Runs, Evidence!ActionFails(r)
  PROVE  Evident'
<1> USE DEF Evidence!ActionFails, Evidence!Goto, EvidencePcs
<1>1. /\ r \notin done /\ flushed \in [Evidence!Runs -> SUBSET Evidence!Entries]
      /\ evidencePc'[r] = "failing" /\ "torn" \in Evidence!Lines
  BY NotDone DEF Evident, Evidence!TypeOK, Evidence!Lines, Evidence!Flaws
<1>2. /\ log' \in [Evidence!Runs -> SUBSET Evidence!Lines]
      /\ \A q \in Evidence!Runs \ {r} : log'[q] = log[q]
      /\ log'[r] \subseteq log[r] \cup {"torn"}
  BY <1>1, LogsLine
<1>3. "torn" \notin Captures
  BY DEF Apart, Evidence!Flaws
<1>4. RunLog(r)'
  <2>1. RunLog(r)
    BY DEF Evident
  <2> QED BY <1>1, <1>2, <1>3, <2>1 DEF RunLog
<1>5. ASSUME NEW K \in SUBSET Evidence!Names, disk' = disk \cup {<<r, k>> : k \in K} PROVE Evident'
  BY <1>1, <1>2, <1>4, <1>5, RunStep DEF Evident, RunRows
<1>6. CASE disk' = disk
  BY <1>5, <1>6, NoFile
<1>7. ASSUME NEW k \in Captures, disk' = disk \cup {<<r, k>>} PROVE Evident'
  BY <1>5, <1>7, NamesOf, OneFile
<1> QED BY <1>6, <1>7

LEMMA CompletedNext == ASSUME Apart, Evident, NEW r \in Evidence!Runs, Evidence!Completed(r)
  PROVE  Evident'
<1> USE DEF Evidence!Completed, Evidence!Goto, EvidencePcs
<1>1. /\ r \notin done /\ flushed \in [Evidence!Runs -> SUBSET Evidence!Entries]
      /\ evidencePc'[r] = (IF r \in Smokes THEN "indexing" ELSE "returned")
      /\ "workflow.completed" \in Evidence!Lines
  BY NotDone DEF Evident, Evidence!TypeOK, Evidence!Lines, Evidence!Events
<1>2. /\ log' \in [Evidence!Runs -> SUBSET Evidence!Lines]
      /\ \A q \in Evidence!Runs \ {r} : log'[q] = log[q]
      /\ log[r] \subseteq log'[r] /\ log'[r] \subseteq log[r] \cup {"workflow.completed"}
      /\ r \in Smokes => "workflow.completed" \in log'[r] \/ "many" \in log'[r]
  BY <1>1, LogsLine
<1>3. "workflow.completed" \notin Captures
  BY DEF Apart, Evidence!Events
<1>4. RunLog(r)'
  <2>1. RunLog(r)
    BY DEF Evident
  <2> QED BY <1>1, <1>2, <1>3, <2>1 DEF RunLog, Aged
<1>5. \A e \in flushed'[r] : e \in flushed[r] \/ <<r, e[1]>> \in disk'
  OBVIOUS
<1>6. {} \in SUBSET Evidence!Names /\ disk' = disk \cup {<<r, k>> : k \in {}}
  BY NoFile
<1> QED BY <1>1, <1>2, <1>4, <1>5, <1>6, RunStep

LEMMA IndexReplayNext == ASSUME Apart, Evident, NEW r \in Evidence!Runs, Evidence!IndexReplay(r)
  PROVE  Evident'
<1> USE DEF Evidence!IndexReplay, Evidence!Goto, EvidencePcs
<1>1. /\ r \notin done /\ r \in Smokes /\ "replay" \in Evidence!Names
      /\ log \in [Evidence!Runs -> SUBSET Evidence!Lines] /\ RunLog(r)
      /\ \A g \in aged : Evidence!FileOf(g) # <<r, "replay">>
  <2>1. r \notin done /\ r \in Smokes
    BY NotDone DEF Evident, RunLog
  <2>2. ASSUME NEW g \in aged PROVE Evidence!FileOf(g) # <<r, "replay">>
    <3>1. g \in Evidence!Rows
      BY DEF Evident, Evidence!TypeOK
    <3> QED BY <2>1, <3>1, RowParts DEF Evident, RunRows
  <2> QED BY <2>1, <2>2, NamesOf DEF Evident, Evidence!TypeOK
<1>2. PICK label \in {"returned", "failing"} : evidencePc' = [evidencePc EXCEPT ![r] = label]
  OBVIOUS
<1>3. /\ flushed' \in [Evidence!Runs -> SUBSET Evidence!Entries]
      /\ \A q \in Evidence!Runs \ {r} : flushed'[q] = flushed[q]
      /\ \A e \in flushed'[r] : e \in flushed[r] \/ e[1] = "replay"
      /\ flushed[r] \subseteq flushed'[r]
  BY <1>1, Flushes
<1>4. <<r, "replay">> \in disk
  BY <1>1 DEF RunLog, Aged
<1>5. evidencePc'[r] = label
  BY <1>2 DEF Evident, Evidence!TypeOK
<1>6. RunLog(r)'
  BY <1>1, <1>3, <1>4, <1>5 DEF RunLog
<1>7. \A e \in flushed'[r] : e \in flushed[r] \/ <<r, e[1]>> \in disk'
  BY <1>3, <1>4
<1> QED BY <1>1, <1>2, <1>3, <1>6, <1>7, NoFile, RunStep

LEMMA CloseContextNext == ASSUME Apart, Evident, NEW r \in Evidence!Runs, Evidence!CloseContext(r)
  PROVE  Evident'
<1> USE DEF Evidence!CloseContext, Evidence!Goto, EvidencePcs
<1>1. /\ r \notin done /\ "trace" \in Evidence!Names
      /\ log \in [Evidence!Runs -> SUBSET Evidence!Lines] /\ RunLog(r)
      /\ flushed \in [Evidence!Runs -> SUBSET Evidence!Entries]
  BY NotDone, NamesOf DEF Evident, Evidence!TypeOK
<1>2. PICK label \in {"closed", "over"} :
        evidencePc' = [evidencePc EXCEPT ![r] = label] /\ (label = "closed" => evidencePc[r] = "returned")
  OBVIOUS
<1>3. evidencePc'[r] = label
  BY <1>2 DEF Evident, Evidence!TypeOK
<1>4. ASSUME disk \subseteq disk', flushed[r] \subseteq flushed'[r] PROVE RunLog(r)'
  BY <1>1, <1>2, <1>3, <1>4 DEF RunLog, Aged
<1>5. CASE UNCHANGED <<disk, flushed>>
  BY <1>1, <1>2, <1>4, <1>5, NoFile, RunStep
<1>6. CASE Evidence!Writes(r, "trace") /\ (Evidence!Flush(r, "trace") \/ UNCHANGED flushed)
  <2>1. /\ flushed' \in [Evidence!Runs -> SUBSET Evidence!Entries]
        /\ \A q \in Evidence!Runs \ {r} : flushed'[q] = flushed[q]
        /\ \A e \in flushed'[r] : e \in flushed[r] \/ e[1] = "trace"
        /\ flushed[r] \subseteq flushed'[r]
    BY <1>1, <1>6, Flushes
  <2>2. disk' = disk \cup {<<r, k>> : k \in {"trace"}} /\ {"trace"} \in SUBSET Evidence!Names
    BY <1>1, <1>6, OneFile DEF Evidence!Writes
  <2>3. \A e \in flushed'[r] : e \in flushed[r] \/ <<r, e[1]>> \in disk'
    BY <2>1, <2>2
  <2>4. RunLog(r)'
    BY <1>4, <2>1, <2>2
  <2> QED BY <1>1, <1>2, <2>1, <2>2, <2>3, <2>4, RunStep
<1> QED BY <1>5, <1>6

LEMMA PackageNext == ASSUME Apart, Evident, NEW r \in Evidence!Runs, Evidence!Package(r)
  PROVE  Evident'
<1> USE DEF Evidence!Package, Evidence!Record, Evidence!Goto, EvidencePcs
<1>1. /\ r \notin done /\ r \notin Smokes /\ "bundle" \in Evidence!Names
      /\ log \in [Evidence!Runs -> SUBSET Evidence!Lines] /\ RunLog(r)
  BY NotDone, NamesOf DEF Evident, Evidence!TypeOK, Apart
<1>2. PICK label \in {"closed", "over"} : evidencePc' = [evidencePc EXCEPT ![r] = label]
  OBVIOUS
<1>3. evidencePc'[r] = label
  BY <1>2 DEF Evident, Evidence!TypeOK
<1>4. /\ flushed' \in [Evidence!Runs -> SUBSET Evidence!Entries]
      /\ \A q \in Evidence!Runs \ {r} : flushed'[q] = flushed[q]
      /\ \A e \in flushed'[r] : e \in flushed[r] \/ e[1] = "bundle"
      /\ flushed[r] \subseteq flushed'[r]
  BY <1>1, Flushes
<1>5. disk' = disk \cup {<<r, k>> : k \in {"bundle"}} /\ {"bundle"} \in SUBSET Evidence!Names
  BY <1>1, OneFile DEF Evidence!Writes
<1>6. \A e \in flushed'[r] : e \in flushed[r] \/ <<r, e[1]>> \in disk'
  BY <1>4, <1>5
<1>7. RunLog(r)'
  BY <1>1, <1>3, <1>4 DEF RunLog
<1> QED BY <1>1, <1>2, <1>4, <1>5, <1>6, <1>7, RunStep

LEMMA RollBackNext == ASSUME Apart, Evident, NEW r \in Evidence!Runs, Evidence!RollBack(r)
  PROVE  Evident'
<1> USE DEF Evidence!RollBack, Evidence!Goto, EvidencePcs
<1>1. /\ r \notin done /\ RunLog(r) /\ evidencePc'[r] = "over"
      /\ log \in [Evidence!Runs -> SUBSET Evidence!Lines]
      /\ flushed \in [Evidence!Runs -> SUBSET Evidence!Entries]
  BY NotDone DEF Evident, Evidence!TypeOK
<1>2. RunLog(r)'
  BY <1>1 DEF RunLog
<1> QED BY <1>1, <1>2, NoFile, RunStep

LEMMA CommitNext == ASSUME Apart, Evident, NEW r \in Evidence!Runs, Evidence!Commit(r)
  PROVE  Evident'
<1> USE DEF Evidence!Commit, Evidence!Goto
<1>1. /\ r \notin done /\ flushed[r] \subseteq Evidence!Entries
      /\ evidencePc' = [evidencePc EXCEPT ![r] = "over"]
      /\ evidencePc \in [Evidence!Runs -> EvidencePcs]
  BY NotDone DEF Evident, Evidence!TypeOK, EvidencePcs
<1>2. \A q \in Evidence!Runs, e \in Evidence!Entries :
        <<q, e>> \in index' <=> <<q, e>> \in index \/ (q = r /\ e \in flushed[r])
  OBVIOUS
<1>3. index' \subseteq Evidence!Rows
  BY <1>1 DEF Evidence!Rows, Evident, Evidence!TypeOK
<1>4. Evidence!TypeOK'
  BY <1>1, <1>3 DEF Evident, Evidence!TypeOK, EvidencePcs
<1>5. \A f \in index' : Evidence!FileOf(f) \notin disk' => Aged(Evidence!FileOf(f))'
  <2> SUFFICES ASSUME NEW f \in index' \ index PROVE Evidence!FileOf(f) \in disk
    BY DEF Evident, Aged
  <2>1. f[1] = r /\ f[2] \in flushed[r] /\ f \in Evidence!Rows
    BY <1>3
  <2> QED BY <1>1, <2>1, RowParts DEF Evident, RunRows
<1>6. ASSUME NEW q \in Evidence!Runs PROVE RunRows(q)'
  <2>1. RunRows(q) /\ flushed[q] \subseteq Evidence!Entries
    BY DEF Evident, Evidence!TypeOK
  <2>2. CASE q = r
    BY <1>1, <1>2, <2>2 DEF RunRows
  <2>3. CASE q # r
    BY <1>1, <1>2, <2>1, <2>3 DEF RunRows
  <2> QED BY <2>2, <2>3
<1>7. ASSUME NEW q \in Evidence!Runs PROVE RunLog(q)'
  <2>1. RunLog(q)
    BY DEF Evident
  <2>2. CASE q = r
    BY <1>1, <2>1, <2>2 DEF RunLog, Aged
  <2>3. CASE q # r
    BY <1>1, <2>1, <2>3 DEF RunLog, Aged
  <2> QED BY <2>2, <2>3
<1>8. \A s \in Sweeps : SweepRows(s)'
  BY DEF Evident, SweepRows
<1> QED BY <1>4, <1>5, <1>6, <1>7, <1>8 DEF Evident

\* The retention removes expired rows, and files that have one, which are of runs that committed.
LEMMA Retained ==
  ASSUME Evident, UNCHANGED <<evidencePc, flushed, log, done>>,
         aged \subseteq aged', aged' \subseteq aged \cup index,
         index' \subseteq index, index \ index' \subseteq aged',
         \A g \in index \ index' : Evidence!FileOf(g) \notin disk',
         disk' \subseteq disk, \A x \in disk \ disk' : Aged(x)'
  PROVE  /\ \A r \in Evidence!Runs : RunRows(r)' /\ RunLog(r)'
         /\ \A f \in index' : Evidence!FileOf(f) \notin disk' => Aged(Evidence!FileOf(f))'
<1>1. \A x : Aged(x) => Aged(x)'
  BY DEF Aged
<1>2. ASSUME NEW r \in Evidence!Runs PROVE RunRows(r)'
  <2>1. RunRows(r) /\ flushed[r] \subseteq Evidence!Entries
    BY DEF Evident, Evidence!TypeOK
  <2>2. CASE r \in done
    <3>1. SUFFICES ASSUME NEW e \in flushed[r]
                   PROVE  /\ <<r, e>> \in index' \cup aged'
                          /\ <<r, e[1]>> \in disk' => <<r, e>> \in index'
      BY <2>1, <2>2 DEF RunRows
    <3>2. Evidence!FileOf(<<r, e>>) = <<r, e[1]>>
      BY DEF Evidence!FileOf
    <3> QED BY <2>1, <2>2, <3>2 DEF RunRows
  <2>3. CASE r \notin done
    <3>1. ASSUME NEW e \in flushed[r] PROVE <<r, e[1]>> \in disk'
      <4>1. <<r, e[1]>> \in disk
        BY <2>1, <2>3 DEF RunRows
      <4>2. ~Aged(<<r, e[1]>>)'
        <5> SUFFICES ASSUME NEW g \in aged', Evidence!FileOf(g) = <<r, e[1]>> PROVE FALSE
          BY DEF Aged
        <5>1. g \in Evidence!Rows /\ g \in index \cup aged
          BY DEF Evident, Evidence!TypeOK
        <5> QED BY <2>1, <2>3, <5>1, RowParts DEF RunRows
      <4> QED BY <4>1, <4>2
    <3> QED BY <2>1, <2>3, <3>1 DEF RunRows
  <2> QED BY <2>2, <2>3
<1>3. ASSUME NEW r \in Evidence!Runs PROVE RunLog(r)'
  BY <1>1 DEF Evident, RunLog
<1>4. \A f \in index' : Evidence!FileOf(f) \notin disk' => Aged(Evidence!FileOf(f))'
  BY <1>1 DEF Evident
<1> QED BY <1>2, <1>3, <1>4

LEMMA ExpireNext == ASSUME Evident, NEW f \in Evidence!Rows, Evidence!Expire(f) PROVE Evident'
<1>1. Evidence!TypeOK'
  BY DEF Evidence!Expire, Evident, Evidence!TypeOK
<1>2. \A s \in Sweeps : SweepRows(s)'
  BY DEF Evidence!Expire, Evident, SweepRows
<1> QED BY <1>1, <1>2, Retained DEF Evidence!Expire, Evident

LEMMA SweepSelectNext == ASSUME Evident, NEW s \in Sweeps, Evidence!SweepSelect(s) PROVE Evident'
<1>0. PICK expired \in SUBSET Evidence!Expired :
        sweep' = [sweep EXCEPT ![s] = [Evidence!NoSweep EXCEPT !.pc = "deleting", !.rows = expired]]
  BY DEF Evidence!SweepSelect
<1> DEFINE entry == [Evidence!NoSweep EXCEPT !.pc = "deleting", !.rows = expired]
<1>3. /\ entry \in [pc : {"idle", "deleting", "over"}, rows : SUBSET Evidence!Rows,
           gone : SUBSET Evidence!Rows]
      /\ entry.rows \subseteq aged /\ entry.gone = {} /\ sweep' = [sweep EXCEPT ![s] = entry]
  BY <1>0 DEF Evidence!NoSweep, Evidence!Expired, Evident, Evidence!TypeOK
<1> HIDE DEF entry
<1>1. Evidence!TypeOK'
  BY <1>3 DEF Evidence!SweepSelect, Evident, Evidence!TypeOK
<1>2. \A u \in Sweeps : SweepRows(u)'
  BY <1>3 DEF Evidence!SweepSelect, Evident, SweepRows, Evidence!TypeOK
<1> QED BY <1>1, <1>2, Retained DEF Evidence!SweepSelect, Evident

LEMMA SweepDeleteNext ==
  ASSUME Evident, NEW s \in Sweeps, NEW f \in Evidence!Rows, Evidence!SweepDelete(s, f)
  PROVE  Evident'
<1>0. f \in aged /\ sweep[s].rows \cup sweep[s].gone \subseteq aged
  BY DEF Evidence!SweepDelete, Evident, SweepRows
<1>4. sweep[s] \in [pc : {"idle", "deleting", "over"}, rows : SUBSET Evidence!Rows,
        gone : SUBSET Evidence!Rows]
  BY DEF Evident, Evidence!TypeOK
<1>5. PICK gone \in {sweep[s].gone, sweep[s].gone \cup {f}} :
        /\ sweep' = [sweep EXCEPT ![s] =
                        [sweep[s] EXCEPT !.rows = sweep[s].rows \ {f}, !.gone = gone]]
        /\ disk' = disk \ {Evidence!FileOf(f)} \/ (disk' = disk /\ gone = sweep[s].gone)
  <2>1. [sweep[s] EXCEPT !.rows = sweep[s].rows \ {f}]
        = [sweep[s] EXCEPT !.rows = sweep[s].rows \ {f}, !.gone = sweep[s].gone]
    BY <1>4
  <2> QED BY <2>1 DEF Evidence!SweepDelete
<1> DEFINE entry == [sweep[s] EXCEPT !.rows = sweep[s].rows \ {f}, !.gone = gone]
<1>3. /\ entry \in [pc : {"idle", "deleting", "over"}, rows : SUBSET Evidence!Rows,
           gone : SUBSET Evidence!Rows]
      /\ entry.rows \subseteq aged /\ entry.gone = gone /\ sweep' = [sweep EXCEPT ![s] = entry]
  BY <1>0, <1>4, <1>5
<1> HIDE DEF entry
<1>1. Evidence!TypeOK'
  BY <1>3, <1>5 DEF Evidence!SweepDelete, Evident, Evidence!TypeOK
<1>2. \A u \in Sweeps : SweepRows(u)'
  BY <1>0, <1>3, <1>5 DEF Evidence!SweepDelete, Evident, SweepRows, Evidence!TypeOK
<1>6. disk' \subseteq disk /\ \A x \in disk \ disk' : Aged(x)'
  BY <1>0, <1>5 DEF Evidence!SweepDelete, Aged
<1> QED BY <1>1, <1>2, <1>6, Retained DEF Evidence!SweepDelete, Evident

LEMMA OverSweep ==
  /\ [Evidence!NoSweep EXCEPT !.pc = "over"]
     \in [pc : {"idle", "deleting", "over"}, rows : SUBSET Evidence!Rows,
       gone : SUBSET Evidence!Rows]
  /\ [Evidence!NoSweep EXCEPT !.pc = "over"].rows = {}
     /\ [Evidence!NoSweep EXCEPT !.pc = "over"].gone = {}
BY DEF Evidence!NoSweep

LEMMA SweepEndNext ==
  ASSUME Evident, NEW s \in Sweeps, Evidence!SweepCommit(s) \/ Evidence!SweepRollBack(s)
  PROVE  Evident'
<1> DEFINE entry == [Evidence!NoSweep EXCEPT !.pc = "over"]
<1>3. /\ entry \in [pc : {"idle", "deleting", "over"}, rows : SUBSET Evidence!Rows,
           gone : SUBSET Evidence!Rows]
      /\ entry.rows = {} /\ entry.gone = {} /\ sweep' = [sweep EXCEPT ![s] = entry]
  BY OverSweep DEF Evidence!SweepCommit, Evidence!SweepRollBack
<1> HIDE DEF entry
<1>4. /\ index' \subseteq index /\ index \ index' \subseteq sweep[s].gone
      /\ UNCHANGED <<evidencePc, disk, flushed, log, done, aged>>
  BY DEF Evidence!SweepCommit, Evidence!SweepRollBack
<1>0. sweep[s].gone \subseteq aged /\ \A g \in sweep[s].gone : Evidence!FileOf(g) \notin disk
  BY DEF Evident, SweepRows
<1>1. Evidence!TypeOK'
  BY <1>3, <1>4 DEF Evident, Evidence!TypeOK
<1>2. \A u \in Sweeps : SweepRows(u)'
  BY <1>3, <1>4 DEF Evident, SweepRows, Evidence!TypeOK
<1> QED BY <1>0, <1>1, <1>2, <1>4, Retained DEF Evident

LEMMA EvidentNext == ASSUME Apart PROVE Evident /\ [Evidence!Next]_(Evidence!vars) => Evident'
<1> SUFFICES ASSUME Evident, [Evidence!Next]_(Evidence!vars) PROVE Evident'
  OBVIOUS
<1>1. CASE UNCHANGED Evidence!vars
  BY <1>1 DEF Evidence!vars, Evident, Evidence!TypeOK, RunRows, RunLog, SweepRows, Aged
<1> QED BY <1>1, StartNext, StartFailsNext, ClockBackNext, LogsManyNext, CaptureNext,
           ActionFailsNext, CompletedNext, IndexReplayNext, CloseContextNext, PackageNext,
           CommitNext, RollBackNext, ExpireNext, SweepSelectNext, SweepDeleteNext, SweepEndNext
   DEF Evidence!Next

LEMMA EvidentFiles == Evident => Evidence!FilesMatchRows
<1> SUFFICES ASSUME Evident PROVE Evidence!FilesMatchRows
  OBVIOUS
<1>1. done \subseteq Evidence!Runs
  BY DEF Evident, Evidence!TypeOK
<1> QED BY <1>1 DEF Evident, RunRows, Aged, Evidence!FilesMatchRows

LEMMA EvidentAudit == ASSUME Apart, Evident PROVE Evidence!AuditTrue
<1> DEFINE harmless(r) ==
      {"earlier"} \cup (IF "many" \in log[r] THEN {"workflow.completed"} ELSE {})
<1> SUFFICES ASSUME NEW r \in done \cap Smokes, \A e \in Evidence!Entries : <<r, e>> \notin aged
             PROVE  Evidence!Issues(r) \subseteq harmless(r)
  BY DEF Evidence!AuditTrue
<1>1. r \in Evidence!Runs /\ RunRows(r) /\ RunLog(r) /\ flushed[r] \subseteq Evidence!Entries
  BY DEF Evidence!Runs, Evident, Evidence!TypeOK
<1>2. <<r, "replay">> \in disk
  <2> SUFFICES ASSUME NEW g \in aged, Evidence!FileOf(g) = <<r, "replay">> PROVE FALSE
    BY <1>1 DEF RunLog, Aged
  <2>1. g \in Evidence!Rows
    BY DEF Evident, Evidence!TypeOK
  <2> QED BY <2>1, RowParts
<1>3. "workflow.start" \in log[r] /\ "torn" \notin log[r]
      /\ ("workflow.completed" \in log[r] \/ "many" \in log[r])
  BY <1>1 DEF RunLog
<1>4. Evidence!Events \ log[r] \subseteq harmless(r) /\ Evidence!Flaws \cap log[r] \subseteq harmless(r)
  BY <1>3 DEF Evidence!Events, Evidence!Flaws
<1>5. ASSUME NEW k \in log[r] \cap Screenshots PROVE \E n \in 1..MaxTakes : <<r, <<k, n>>>> \in index
  <2>1. PICK n \in 1..MaxTakes : <<k, n>> \in flushed[r]
    BY <1>1 DEF RunLog, Apart
  <2> QED BY <1>1, <2>1 DEF RunRows
<1> QED BY <1>2, <1>3, <1>4, <1>5 DEF Evidence!Issues

\* A run's files, rows and log agree until it commits, and a sweep touches expired rows only
\* (browser/artifacts.py, validation/retention.py), for any runs, captures and sweeps.
THEOREM EvidenceKept == Spec => []Evident
<1>1. Apart
  BY NamesAssumption DEF Apart, Evidence!Events, Evidence!Flaws
<1>2. Evident /\ [Evidence!Next]_(Evidence!vars) => Evident'
  BY <1>1, EvidentNext
<1> QED BY <1>2, EvidentInit, PTL DEF Spec, Evidence!Spec

\* A committed row has its file until a row of that file expires, and a file of a committed run
\* is there only with all its rows, when names repeat and sweeps overlap or fail.
THEOREM FilesHaveRows == Spec => []FilesMatchRows
<1>1. Evident => FilesMatchRows
  BY EvidentFiles DEF FilesMatchRows
<1> QED BY <1>1, EvidenceKept, PTL

\* Of a committed smoke run of which nothing has expired the audit finds no more than a clock
\* that was set back and an end beyond the lines it reads.
THEOREM AuditsTrue == Spec => []AuditTrue
<1>1. Apart
  BY NamesAssumption DEF Apart, Evidence!Events, Evidence!Flaws
<1>2. Evident => AuditTrue
  BY <1>1, EvidentAudit DEF AuditTrue
<1> QED BY <1>2, EvidenceKept, PTL

-----------------------------------------------------------------------------
\* Validations: the lease row of a job that completed stays, given up.

\* The lease of a job that has completed was given up with it, and nobody leases it again.
Parted ==
  /\ Campaigns!TypeOK
  /\ \A j \in Campaigns!Jobs : jobState[j] = "completed" =>
       lease[j] \in {"cleared", "expired", "revived"}

RunTyped ==
  /\ kind \in Campaigns!Validations \cup {"none"} /\ late \in BOOLEAN
  /\ campaignPc \in {"start", "wait", "audit", "scan", "assert", "verdict", "over", "dead"}
  /\ campaign \in {"none", "running", "finished"} /\ result \in {"none", "ok", "fail"}
  /\ pending \subseteq Campaigns!Cases /\ completed \subseteq Campaigns!Cases /\ failed = {}
  /\ verdicts \in [replay : BOOLEAN, cleanup : BOOLEAN, assertions : BOOLEAN, low : BOOLEAN]

JobTyped ==
  /\ jobState \in [Campaigns!Jobs -> {"absent", "queued", "running", "retrying", "completed",
       "dead_lettered"}]
  /\ lease \in [Campaigns!Jobs -> {"none", "held", "expired", "cleared", "revived"}]
  /\ beating \subseteq Campaigns!Jobs /\ intact \subseteq Campaigns!Jobs
  /\ contextRows \in [Campaigns!Jobs -> SUBSET {"active", "left", "closed"}]
  /\ \A j \in Campaigns!Jobs : jobState[j] = "completed" =>
       lease[j] \in {"cleared", "expired", "revived"}

Scans == [by : Campaigns!Scanners \cup {"nobody"}, stale : BOOLEAN, active : SUBSET Campaigns!Jobs]

CampaignsRowTyped ==
  /\ scan \in Scans
  /\ doubt \in BOOLEAN /\ scored \in BOOLEAN
  /\ said \in [by : {"nobody", "gate", "certificate"}, ok : BOOLEAN]

LEMMA PartedParts == Parted <=> RunTyped /\ JobTyped /\ CampaignsRowTyped
BY DEF Parted, Campaigns!TypeOK, RunTyped, JobTyped, CampaignsRowTyped, Scans

LEMMA PartedPartsNext == RunTyped' /\ JobTyped' /\ CampaignsRowTyped' => Parted'
BY DEF Parted, Campaigns!TypeOK, RunTyped, JobTyped, CampaignsRowTyped, Scans

LEMMA PartedInit == Campaigns!Init => Parted
<1> SUFFICES ASSUME Campaigns!Init PROVE Parted
  OBVIOUS
<1>1. RunTyped
  BY DEF Campaigns!Init, RunTyped, Campaigns!NothingFound
<1>2. JobTyped
  BY DEF Campaigns!Init, JobTyped
<1>3. CampaignsRowTyped
  BY DEF Campaigns!Init, CampaignsRowTyped, Campaigns!NoScan, Scans
<1> QED BY <1>1, <1>2, <1>3, PartedParts

LEMMA SameRun == ASSUME RunTyped, UNCHANGED Campaigns!runVars PROVE RunTyped'
BY DEF RunTyped, Campaigns!runVars

LEMMA SameJobs == ASSUME JobTyped, UNCHANGED Campaigns!jobVars PROVE JobTyped'
BY DEF JobTyped, Campaigns!jobVars

LEMMA SameRows == ASSUME CampaignsRowTyped, UNCHANGED Campaigns!rowVars PROVE CampaignsRowTyped'
BY DEF CampaignsRowTyped, Campaigns!rowVars

LEMMA JobStepNext ==
  ASSUME Parted, NEW j \in Campaigns!Jobs, Campaigns!JobStep(j) PROVE Parted'
<1>0. RunTyped /\ JobTyped /\ CampaignsRowTyped
  BY PartedParts
<1>1. UNCHANGED <<Campaigns!runVars, Campaigns!rowVars>>
  BY DEF Campaigns!JobStep, Campaigns!Lease, Campaigns!ShowContext, Campaigns!CommitHandler,
     Campaigns!Complete, Campaigns!Retry, Campaigns!DeadLetter, Campaigns!Heartbeat,
     Campaigns!CancelHeartbeat, Campaigns!Expire
<1>2. JobTyped'
  <2>1. CASE Campaigns!Lease(j)
    BY <1>0, <2>1 DEF JobTyped, Campaigns!Lease
  <2>2. CASE Campaigns!ShowContext(j)
    BY <1>0, <2>2 DEF JobTyped, Campaigns!ShowContext
  <2>3. CASE Campaigns!CommitHandler(j)
    BY <1>0, <2>3 DEF JobTyped, Campaigns!CommitHandler
  <2>4. CASE Campaigns!Complete(j)
    BY <1>0, <2>4 DEF JobTyped, Campaigns!Complete, Campaigns!Cleared
  <2>5. CASE Campaigns!Retry(j)
    BY <1>0, <2>5 DEF JobTyped, Campaigns!Retry, Campaigns!Cleared, Campaigns!LeaveContext
  <2>6. CASE Campaigns!DeadLetter(j)
    BY <1>0, <2>6 DEF JobTyped, Campaigns!DeadLetter, Campaigns!LeaveContext
  <2>7. CASE Campaigns!Heartbeat(j)
    BY <1>0, <2>7 DEF JobTyped, Campaigns!Heartbeat
  <2>8. CASE Campaigns!CancelHeartbeat(j)
    BY <1>0, <2>8 DEF JobTyped, Campaigns!CancelHeartbeat
  <2>9. CASE Campaigns!Expire(j)
    BY <1>0, <2>9 DEF JobTyped, Campaigns!Expire
  <2> QED BY <2>1, <2>2, <2>3, <2>4, <2>5, <2>6, <2>7, <2>8, <2>9 DEF Campaigns!JobStep
<1> QED BY <1>0, <1>1, <1>2, SameRun, SameRows, PartedPartsNext

LEMMA ScanTyped ==
  ASSUME CampaignsRowTyped, NEW s \in Campaigns!Scanners,
         Campaigns!ScanRead(s) \/ \E ok \in BOOLEAN : Campaigns!ScanJudge(s, ok)
  PROVE  scan' \in Scans
<1> DEFINE isStale == \E j \in Campaigns!Jobs : Campaigns!StaleLease(j)
           shown == {j \in Campaigns!Jobs : Campaigns!Active(j)}
<1>1. isStale \in BOOLEAN /\ shown \subseteq Campaigns!Jobs
  OBVIOUS
<1>2. scan' = [by |-> s, stale |-> isStale, active |-> shown] \/ scan' = Campaigns!NoScan
  BY DEF Campaigns!ScanRead, Campaigns!ScanJudge
<1> HIDE DEF isStale, shown
<1>3. Campaigns!NoScan \in Scans
  BY DEF Campaigns!NoScan, Scans
<1>4. [by |-> s, stale |-> isStale, active |-> shown] \in Scans
  BY <1>1, Zenon DEF Scans
<1> QED BY <1>2, <1>3, <1>4, Zenon

LEMMA DoubtTyped ==
  ASSUME CampaignsRowTyped, NEW ok \in BOOLEAN, Campaigns!Audited(ok) PROVE doubt' \in BOOLEAN
BY Zenon DEF CampaignsRowTyped, Campaigns!Audited

LEMMA AskedNext == ASSUME Parted, Campaigns!Asked PROVE Parted'
<1>0. RunTyped /\ JobTyped /\ CampaignsRowTyped /\ "watchdog" \in Campaigns!Scanners
      /\ "certify" \in Campaigns!Scanners
  BY PartedParts DEF Campaigns!Scanners
<1>1. UNCHANGED <<Campaigns!runVars, Campaigns!jobVars>>
  BY DEF Campaigns!Asked, Campaigns!WatchdogScans, Campaigns!WatchdogJudges,
     Campaigns!ComputeScore, Campaigns!EvaluateGate, Campaigns!Certify, Campaigns!CertifyJudges,
     Campaigns!HalfDayPasses
<1>2. CampaignsRowTyped'
  <2>1. CASE Campaigns!WatchdogScans
    BY <1>0, <2>1, ScanTyped DEF Campaigns!WatchdogScans, CampaignsRowTyped
  <2>2. CASE Campaigns!WatchdogJudges
    <3>1. PICK ok \in BOOLEAN : Campaigns!ScanJudge("watchdog", ok) /\ Campaigns!Audited(ok)
      BY <2>2 DEF Campaigns!WatchdogJudges
    <3>2. doubt' \in BOOLEAN
      BY <1>0, <3>1, DoubtTyped
    <3>3. scan' \in Scans
      BY <1>0, <3>1, ScanTyped
    <3> QED BY <1>0, <2>2, <3>2, <3>3 DEF Campaigns!WatchdogJudges, CampaignsRowTyped
  <2>3. CASE Campaigns!ComputeScore
    <3>1. doubt' \in BOOLEAN
      BY <1>0, <2>3, Zenon DEF Campaigns!ComputeScore, CampaignsRowTyped
    <3> QED BY <1>0, <2>3, <3>1 DEF Campaigns!ComputeScore, CampaignsRowTyped
  <2>4. CASE Campaigns!EvaluateGate
    <3>1. PICK allowlist \in BOOLEAN : said' = [by |-> "gate", ok |-> Campaigns!GateOpen(allowlist)]
      BY <2>4 DEF Campaigns!EvaluateGate
    <3>2. Campaigns!GateOpen(allowlist) \in BOOLEAN
      BY DEF Campaigns!GateOpen
    <3> QED BY <1>0, <2>4, <3>1, <3>2 DEF Campaigns!EvaluateGate, CampaignsRowTyped
  <2>5. ASSUME NEW j \in Campaigns!Jobs, Campaigns!Certify(j) PROVE CampaignsRowTyped'
    BY <1>0, <2>5, ScanTyped DEF Campaigns!Certify, CampaignsRowTyped
  <2>6. ASSUME NEW j \in Campaigns!Jobs, Campaigns!CertifyJudges(j) PROVE CampaignsRowTyped'
    <3>1. PICK ok \in BOOLEAN :
            /\ Campaigns!ScanJudge("certify", ok) /\ Campaigns!Audited(ok)
            /\ said' = [by |-> "certificate", ok |-> ok /\ j \in intact]
      BY <2>6 DEF Campaigns!CertifyJudges
    <3>2. doubt' \in BOOLEAN
      BY <1>0, <3>1, DoubtTyped
    <3>3. scan' \in Scans
      BY <1>0, <3>1, ScanTyped
    <3> QED BY <1>0, <2>6, <3>1, <3>2, <3>3 DEF Campaigns!CertifyJudges, CampaignsRowTyped
  <2>7. CASE Campaigns!HalfDayPasses
    BY <1>0, <2>7 DEF Campaigns!HalfDayPasses, CampaignsRowTyped
  <2> QED BY <2>1, <2>2, <2>3, <2>4, <2>5, <2>6, <2>7 DEF Campaigns!Asked
<1> QED BY <1>0, <1>1, <1>2, SameRun, SameJobs, PartedPartsNext

LEMMA CasesAreJobs == Campaigns!Cases \subseteq Campaigns!Jobs
BY DEF Campaigns!Cases, Campaigns!Jobs

\* No job is in a state that the wait takes for a failure.
LEMMA NoneFails == ASSUME JobTyped PROVE \A j \in Campaigns!Cases : ~Campaigns!Failed(j)
BY CasesAreJobs DEF JobTyped, Campaigns!Failed, Campaigns!FailureStates

LEMMA QueuedTyped ==
  ASSUME JobTyped, NEW S,
         jobState' = [j \in Campaigns!Jobs |-> IF j \in S THEN "queued" ELSE jobState[j]],
         UNCHANGED <<lease, beating, contextRows, intact>>
  PROVE  JobTyped'
BY DEF JobTyped

LEMMA RunStepNext == ASSUME Parted, Campaigns!RunStep PROVE Parted'
<1>0. RunTyped /\ JobTyped /\ CampaignsRowTyped /\ "run" \in Campaigns!Scanners
  BY PartedParts DEF Campaigns!Scanners
<1>1. CASE Campaigns!StartValidation
  <2>1. RunTyped'
    BY <1>0, <1>1 DEF Campaigns!StartValidation, Campaigns!Goto, RunTyped, Campaigns!Cases
  <2>2. JobTyped'
    BY <1>0, <1>1, QueuedTyped DEF Campaigns!StartValidation
  <2> QED BY <1>0, <1>1, <2>1, <2>2, SameRows, PartedPartsNext DEF Campaigns!StartValidation
<1>2. CASE Campaigns!Poll
  <2>1. RunTyped'
    BY <1>0, <1>2, NoneFails DEF Campaigns!Poll, RunTyped
  <2> QED BY <1>0, <1>2, <2>1, SameJobs, SameRows, PartedPartsNext DEF Campaigns!Poll
<1>3. CASE Campaigns!EndWait
  <2>1. RunTyped'
    BY <1>0, <1>3 DEF Campaigns!EndWait, Campaigns!Goto, RunTyped
  <2> QED BY <1>0, <1>3, <2>1, SameJobs, SameRows, PartedPartsNext DEF Campaigns!EndWait
<1>4. CASE Campaigns!AuditReplays
  <2>1. RunTyped'
    BY <1>0, <1>4 DEF Campaigns!AuditReplays, Campaigns!Goto, RunTyped
  <2> QED BY <1>0, <1>4, <2>1, SameJobs, SameRows, PartedPartsNext DEF Campaigns!AuditReplays
<1>5. CASE Campaigns!RunScans
  <2>1. CampaignsRowTyped'
    BY <1>0, <1>5, ScanTyped DEF Campaigns!RunScans, CampaignsRowTyped
  <2> QED BY <1>0, <1>5, <2>1, SameJobs, SameRun, PartedPartsNext DEF Campaigns!RunScans
<1>6. CASE Campaigns!RunJudges
  <2>1. PICK ok \in BOOLEAN : Campaigns!ScanJudge("run", ok)
             /\ verdicts' = [verdicts EXCEPT !.cleanup = ok]
    BY <1>6 DEF Campaigns!RunJudges
  <2>2. RunTyped'
    BY <1>0, <1>6, <2>1 DEF Campaigns!RunJudges, Campaigns!Goto, RunTyped
  <2>3. CampaignsRowTyped'
    BY <1>0, <1>6, <2>1, ScanTyped DEF Campaigns!RunJudges, CampaignsRowTyped
  <2> QED BY <1>0, <1>6, <2>2, <2>3, SameJobs, PartedPartsNext DEF Campaigns!RunJudges
<1>7. CASE Campaigns!Assert
  <2>1. PICK stuck, counts :
          verdicts' = [verdicts EXCEPT !.low = Campaigns!Low(counts),
                              !.assertions = (\A j \in Campaigns!Jobs : ~Campaigns!StaleLease(j))
                                /\ \A j \in Campaigns!Cases : ~Campaigns!Active(j)
                                   /\ j \notin stuck]
    BY <1>7 DEF Campaigns!Assert
  <2>2. Campaigns!Low(counts) \in BOOLEAN
    BY DEF Campaigns!Low
  <2> HIDE DEF Campaigns!Low
  <2>3. RunTyped'
    BY <1>0, <1>7, <2>1, <2>2 DEF Campaigns!Assert, Campaigns!Goto, RunTyped
  <2> QED BY <1>0, <1>7, <2>3, SameJobs, SameRows, PartedPartsNext DEF Campaigns!Assert
<1>8. CASE Campaigns!Verdict
  <2>1. RunTyped'
    BY <1>0, <1>8 DEF Campaigns!Verdict, Campaigns!Goto, RunTyped
  <2>2. doubt' \in BOOLEAN
    BY <1>8, Zenon DEF Campaigns!Verdict
  <2>3. scored' \in BOOLEAN
    BY <1>0, <1>8 DEF Campaigns!Verdict, CampaignsRowTyped
  <2>4. CampaignsRowTyped'
    BY <1>0, <1>8, <2>2, <2>3 DEF Campaigns!Verdict, CampaignsRowTyped
  <2> QED BY <1>0, <1>8, <2>1, <2>4, SameJobs, PartedPartsNext DEF Campaigns!Verdict
<1> QED BY <1>1, <1>2, <1>3, <1>4, <1>5, <1>6, <1>7, <1>8 DEF Campaigns!RunStep

LEMMA PartedNext == Parted /\ [Campaigns!Next]_(Campaigns!vars) => Parted'
<1> SUFFICES ASSUME Parted, [Campaigns!Next]_(Campaigns!vars) PROVE Parted'
  OBVIOUS
<1>0. RunTyped /\ JobTyped /\ CampaignsRowTyped
  BY PartedParts
<1>1. CASE Campaigns!Deadline
  BY <1>0, <1>1, SameJobs, SameRows, PartedPartsNext DEF Campaigns!Deadline, RunTyped
<1>2. CASE Campaigns!Dies
  BY <1>0, <1>2, SameJobs, SameRows, PartedPartsNext DEF Campaigns!Dies, Campaigns!Goto, RunTyped
<1>3. CASE UNCHANGED Campaigns!vars
  BY <1>0, <1>3, SameRun, SameJobs, SameRows, PartedPartsNext DEF Campaigns!vars
<1> QED BY <1>1, <1>2, <1>3, RunStepNext, JobStepNext, AskedNext DEF Campaigns!Next

-----------------------------------------------------------------------------
NoStale == \A j \in Campaigns!Jobs : ~Campaigns!StaleLease(j)

LEMMA NoStaleRevived == ASSUME Parted, NoStale PROVE Campaigns!Revived
BY DEF Parted, NoStale, Campaigns!Revived, Campaigns!StaleLease

\* Who says pass has looked at every lease row.
LEMMA PassLooked ==
  ASSUME Parted, [Campaigns!Next]_(Campaigns!vars)
  PROVE  /\ said' # said /\ said' = [by |-> "gate", ok |-> TRUE] => Campaigns!Revived
         /\ said' # said /\ said' = [by |-> "certificate", ok |-> TRUE] => ~scan.stale
         /\ scan.by = "nobody" /\ scan'.by # "nobody" /\ ~scan'.stale => Campaigns!Revived
<1>1. ASSUME said' # said, said' = [by |-> "gate", ok |-> TRUE] PROVE Campaigns!Revived
  <2>1. Campaigns!EvaluateGate
    BY <1>1 DEF Campaigns!Next, Campaigns!vars, Campaigns!rowVars, Campaigns!RunStep,
       Campaigns!JobStep, Campaigns!Asked, Campaigns!StartValidation, Campaigns!Poll,
       Campaigns!EndWait, Campaigns!AuditReplays, Campaigns!RunScans, Campaigns!RunJudges,
       Campaigns!Assert, Campaigns!Verdict, Campaigns!Deadline, Campaigns!Dies,
       Campaigns!Lease, Campaigns!ShowContext, Campaigns!CommitHandler, Campaigns!Complete,
       Campaigns!Retry, Campaigns!DeadLetter, Campaigns!Heartbeat, Campaigns!CancelHeartbeat,
       Campaigns!Expire, Campaigns!WatchdogScans, Campaigns!WatchdogJudges,
       Campaigns!ComputeScore, Campaigns!HalfDayPasses, Campaigns!Certify, Campaigns!CertifyJudges
  <2>2. PICK allowlist \in BOOLEAN : said' = [by |-> "gate", ok |-> Campaigns!GateOpen(allowlist)]
    BY <2>1 DEF Campaigns!EvaluateGate
  <2>3. Campaigns!GateOpen(allowlist)
    BY <1>1, <2>2
  <2> QED BY <2>3, NoStaleRevived DEF Campaigns!GateOpen, NoStale
<1>2. ASSUME said' # said, said' = [by |-> "certificate", ok |-> TRUE] PROVE ~scan.stale
  <2>1. PICK j \in Campaigns!Jobs : Campaigns!CertifyJudges(j)
    BY <1>2 DEF Campaigns!Next, Campaigns!vars, Campaigns!rowVars, Campaigns!RunStep,
       Campaigns!JobStep, Campaigns!Asked, Campaigns!StartValidation, Campaigns!Poll,
       Campaigns!EndWait, Campaigns!AuditReplays, Campaigns!RunScans, Campaigns!RunJudges,
       Campaigns!Assert, Campaigns!Verdict, Campaigns!Deadline, Campaigns!Dies,
       Campaigns!Lease, Campaigns!ShowContext, Campaigns!CommitHandler, Campaigns!Complete,
       Campaigns!Retry, Campaigns!DeadLetter, Campaigns!Heartbeat, Campaigns!CancelHeartbeat,
       Campaigns!Expire, Campaigns!WatchdogScans, Campaigns!WatchdogJudges,
       Campaigns!ComputeScore, Campaigns!HalfDayPasses, Campaigns!Certify, Campaigns!EvaluateGate
  <2>2. PICK ok \in BOOLEAN :
          Campaigns!ScanJudge("certify", ok)
          /\ said' = [by |-> "certificate", ok |-> ok /\ j \in intact]
    BY <2>1 DEF Campaigns!CertifyJudges
  <2>3. ok
    BY <1>2, <2>2
  <2> QED BY <2>2, <2>3 DEF Campaigns!ScanJudge, Campaigns!ScanOk
<1>3. ASSUME scan.by = "nobody", scan'.by # "nobody", ~scan'.stale PROVE Campaigns!Revived
  <2>1. PICK s \in Campaigns!Scanners : Campaigns!ScanRead(s)
    BY <1>3 DEF Campaigns!Next, Campaigns!vars, Campaigns!rowVars, Campaigns!RunStep,
       Campaigns!JobStep, Campaigns!Asked, Campaigns!StartValidation, Campaigns!Poll,
       Campaigns!EndWait, Campaigns!AuditReplays, Campaigns!RunScans, Campaigns!RunJudges,
       Campaigns!Assert, Campaigns!Verdict, Campaigns!Deadline, Campaigns!Dies,
       Campaigns!Lease, Campaigns!ShowContext, Campaigns!CommitHandler, Campaigns!Complete,
       Campaigns!Retry, Campaigns!DeadLetter, Campaigns!Heartbeat, Campaigns!CancelHeartbeat,
       Campaigns!Expire, Campaigns!WatchdogScans, Campaigns!WatchdogJudges,
       Campaigns!ComputeScore, Campaigns!HalfDayPasses, Campaigns!Certify,
       Campaigns!CertifyJudges, Campaigns!EvaluateGate, Campaigns!ScanJudge, Campaigns!NoScan,
       Campaigns!Scanners
  <2>2. scan'.stale = \E j \in Campaigns!Jobs : Campaigns!StaleLease(j)
    BY <2>1 DEF Campaigns!ScanRead
  <2> QED BY <1>3, <2>2, NoStaleRevived DEF NoStale
<1> QED BY <1>1, <1>2, <1>3

\* The lease row of a completed job stays and is not held by anybody
\* (orchestration/repositories/lease_repo.py never deletes one).
THEOREM LeasesParted == Spec => []Parted
BY PartedInit, PartedNext, PTL DEF Spec, Campaigns!Spec

\* Neither the gate nor a certificate passes once a job of the database has completed, but for
\* jobs whose lease a late heartbeat revived; for any number of jobs.
THEOREM NoPassAfterCompletion == Spec => PassOnlyBeforeCompletion
<1>1. Parted /\ [Campaigns!Next]_(Campaigns!vars) =>
        [/\ said' # said /\ said' = [by |-> "gate", ok |-> TRUE] => Campaigns!Revived
         /\ said' # said /\ said' = [by |-> "certificate", ok |-> TRUE] => ~scan.stale
         /\ scan.by = "nobody" /\ scan'.by # "nobody" /\ ~scan'.stale =>
              Campaigns!Revived]_(Campaigns!vars)
  BY PassLooked
<1> QED BY <1>1, LeasesParted, PTL DEF Spec, Campaigns!Spec, PassOnlyBeforeCompletion,
           Campaigns!PassOnlyBeforeCompletion

-----------------------------------------------------------------------------
\* The month of downloads and the captcha relay: theorems of their own modules, carried over.

MonthProofs == INSTANCE Gstr2bDownloadProofs
CaptchaProofs == INSTANCE CaptchaRelayProofs
  WITH Nothing <- Nobody, file <- captchaFile, pc <- captchaPc, row <- captchaRow

\* Both instances of a module say the same.
LEMMA SameMonth == Month!Spec <=> MonthProofs!Spec
<1>1. Month!Init <=> MonthProofs!Init
  BY DEF Month!Init, MonthProofs!Init, Month!Jobs, MonthProofs!Jobs, Month!IdleTick,
     MonthProofs!IdleTick
<1>2. [Month!Next]_(Month!vars) <=> [MonthProofs!Next]_(MonthProofs!vars)
  BY DEF Month!Jobs, MonthProofs!Jobs, Month!Client, MonthProofs!Client, Month!Contents,
     MonthProofs!Contents, Month!IdleTick, MonthProofs!IdleTick, Month!Unwritten,
     MonthProofs!Unwritten, Month!TickBegin, MonthProofs!TickBegin, Month!Onward,
     MonthProofs!Onward, Month!TickLook, MonthProofs!TickLook, Month!Collides,
     MonthProofs!Collides, Month!Upserted, MonthProofs!Upserted, Month!TickUpsert,
     MonthProofs!TickUpsert, Month!TickMark, MonthProofs!TickMark, Month!TickEnqueue,
     MonthProofs!TickEnqueue, Month!TickTrack, MonthProofs!TickTrack, Month!MayCommit,
     MonthProofs!MayCommit, Month!TickCommit, MonthProofs!TickCommit, Month!TickRaises,
     MonthProofs!TickRaises, Month!WaitsFor, MonthProofs!WaitsFor, Month!TickDeadlocked,
     MonthProofs!TickDeadlocked, Month!TickDies, MonthProofs!TickDies, Month!EnqueueBatch,
     MonthProofs!EnqueueBatch, Month!RunEnds, MonthProofs!RunEnds, Month!StartRun,
     MonthProofs!StartRun, Month!SkipDownloaded, MonthProofs!SkipDownloaded, Month!LockFree,
     MonthProofs!LockFree, Month!AcquireLock, MonthProofs!AcquireLock, Month!LockContended,
     MonthProofs!LockContended, Month!MarkRunning, MonthProofs!MarkRunning, Month!Download,
     MonthProofs!Download, Month!VerifierAccepts, MonthProofs!VerifierAccepts, Month!Accepted,
     MonthProofs!Accepted, Month!Finalize, MonthProofs!Finalize, Month!FailsRetryably,
     MonthProofs!FailsRetryably, Month!FailsFatally, MonthProofs!FailsFatally,
     Month!BudgetExceeded, MonthProofs!BudgetExceeded, Month!Crash, MonthProofs!Crash,
     Month!MayExpire, MonthProofs!MayExpire, Month!LockExpires, MonthProofs!LockExpires,
     Month!Activate, MonthProofs!Activate, Month!PlaceFile, MonthProofs!PlaceFile, Month!TickStep,
     MonthProofs!TickStep, Month!RunStep, MonthProofs!RunStep, Month!Budgeted,
     MonthProofs!Budgeted, Month!Next, MonthProofs!Next, Month!vars, MonthProofs!vars
<1> QED BY <1>1, <1>2, PTL DEF Month!Spec, MonthProofs!Spec

LEMMA SameCaptcha == Captcha!Spec <=> CaptchaProofs!Spec
<1>1. Captcha!Init <=> CaptchaProofs!Init
  BY DEF Captcha!Init, CaptchaProofs!Init, Captcha!Checkpoints, CaptchaProofs!Checkpoints
<1>2. [Captcha!Next]_(Captcha!vars) <=> [CaptchaProofs!Next]_(CaptchaProofs!vars)
  BY DEF Captcha!Checkpoints, CaptchaProofs!Checkpoints, Captcha!Capture, CaptchaProofs!Capture,
     Captcha!LoginMeetsCaptcha, CaptchaProofs!LoginMeetsCaptcha, Captcha!LoginCaptures,
     CaptchaProofs!LoginCaptures, Captcha!LoginEnds, CaptchaProofs!LoginEnds, Captcha!Sends,
     CaptchaProofs!Sends, Captcha!Enqueue, CaptchaProofs!Enqueue, Captcha!BotRoutes,
     CaptchaProofs!BotRoutes, Captcha!BotAnswers, CaptchaProofs!BotAnswers, Captcha!Respond,
     CaptchaProofs!Respond, Captcha!Expire, CaptchaProofs!Expire, Captcha!Goto,
     CaptchaProofs!Goto, Captcha!Returns, CaptchaProofs!Returns, Captcha!NoCaptcha,
     CaptchaProofs!NoCaptcha, Captcha!MeetCaptcha, CaptchaProofs!MeetCaptcha, Captcha!TakeImage,
     CaptchaProofs!TakeImage, Captcha!Ask, CaptchaProofs!Ask, Captcha!Least, CaptchaProofs!Least,
     Captcha!SecondsUp, CaptchaProofs!SecondsUp, Captcha!Seconds, CaptchaProofs!Seconds,
     Captcha!Patience, CaptchaProofs!Patience, Captcha!Default, CaptchaProofs!Default, Captcha!PopTimeout, CaptchaProofs!PopTimeout, Captcha!StayInLoop, CaptchaProofs!StayInLoop,
     Captcha!StartPop, CaptchaProofs!StartPop, Captcha!PopRefused, CaptchaProofs!PopRefused, Captcha!TimePasses, CaptchaProofs!TimePasses, Captcha!HeldUp, CaptchaProofs!HeldUp,
     Captcha!PopNothing, CaptchaProofs!PopNothing, Captcha!PopAnswer, CaptchaProofs!PopAnswer,
     Captcha!WaitTimesOut, CaptchaProofs!WaitTimesOut, Captcha!Inject, CaptchaProofs!Inject,
     Captcha!Outcome, CaptchaProofs!Outcome, Captcha!Resolve, CaptchaProofs!Resolve, Captcha!Dies,
     CaptchaProofs!Dies, Captcha!Next, CaptchaProofs!Next, Captcha!vars, CaptchaProofs!vars,
     Captcha!fileVars, CaptchaProofs!fileVars, Captcha!textVars, CaptchaProofs!textVars,
     Captcha!handlerVars, CaptchaProofs!handlerVars
<1> QED BY <1>1, <1>2, PTL DEF Captcha!Spec, CaptchaProofs!Spec

LEMMA MonthNames == MonthProofs!Names
BY NamesAssumption DEF MonthProofs!Names, MonthProofs!Jobs

LEMMA CaptchaSetting == CaptchaProofs!Setting
BY NamesAssumption DEF CaptchaProofs!Setting, CaptchaProofs!Checkpoints

\* At most one run of a client's month is past the lock, for any clients, ticks and runs.
THEOREM DownloadsExclusive == Spec => []ExclusiveDownload
<1>1. MonthProofs!Spec => []MonthProofs!ExclusiveDownload
  BY MonthNames, MonthProofs!Exclusive
<1>2. MonthProofs!ExclusiveDownload => ExclusiveDownload
  BY DEF ExclusiveDownload, Month!ExclusiveDownload, MonthProofs!ExclusiveDownload, Month!Jobs,
     MonthProofs!Jobs, Month!Client, MonthProofs!Client
<1> QED BY <1>1, <1>2, SameMonth, PTL DEF Spec

\* The committed row says ok or skipped only of a month whose file is good.
THEOREM OutcomesTruthful == Spec => []OutcomeTruthful
<1>1. MonthProofs!Spec => []MonthProofs!OutcomeTruthful
  BY MonthNames, MonthProofs!Truthful
<1>2. MonthProofs!OutcomeTruthful => OutcomeTruthful
  BY DEF OutcomeTruthful, Month!OutcomeTruthful, MonthProofs!OutcomeTruthful
<1> QED BY <1>1, <1>2, SameMonth, PTL DEF Spec

\* A tick that commits has provided for every client it selected.
THEOREM TicksAllOrNothing == Spec => TickAllOrNothing
<1>1. MonthProofs!Spec => MonthProofs!TickAllOrNothing
  BY MonthNames, MonthProofs!AllOrNothing
<1>2. [\A t \in Ticks : MonthProofs!TickCommit(t) =>
         \A c \in tick[t].picked :
           job'[<<c, "overnight">>] # "absent"
           \/ tracker'[c] \in {"ok", "skipped"}]_(MonthProofs!vars)
      => [\A t \in Ticks : Month!TickCommit(t) =>
           \A c \in tick[t].picked :
             job'[<<c, "overnight">>] # "absent" \/ tracker'[c] \in {"ok", "skipped"}]_(Month!vars)
  BY DEF Month!TickCommit, MonthProofs!TickCommit, Month!MayCommit, MonthProofs!MayCommit,
     Month!Jobs, MonthProofs!Jobs, Month!Client, MonthProofs!Client, Month!Unwritten,
     MonthProofs!Unwritten, Month!IdleTick, MonthProofs!IdleTick, Month!vars, MonthProofs!vars
<1> QED BY <1>1, <1>2, SameMonth, PTL DEF Spec, TickAllOrNothing, Month!TickAllOrNothing,
           MonthProofs!TickAllOrNothing

\* A committed approval stands for a text sent for this captcha and typed.
THEOREM ApprovalsTyped == Spec => []ApprovedMeansTyped
<1>1. CaptchaProofs!Spec => []CaptchaProofs!ApprovedMeansTyped
  BY CaptchaSetting, CaptchaProofs!Approved
<1>2. CaptchaProofs!ApprovedMeansTyped => ApprovedMeansTyped
  BY DEF ApprovedMeansTyped, Captcha!ApprovedMeansTyped, CaptchaProofs!ApprovedMeansTyped
<1> QED BY <1>1, <1>2, SameCaptcha, PTL DEF Spec

\* A handler waits no longer than its timeout and the time its coroutine was held up, unless the
\* timeout passes between two readings of the clock and it waits the default once more; whatever
\* the timeout and the slice.
THEOREM WaitsInTime == Spec => []StopsInTime
<1>1. CaptchaProofs!Spec => []CaptchaProofs!StopsInTime
  BY CaptchaSetting, CaptchaProofs!InTime
<1>2. CaptchaProofs!StopsInTime => StopsInTime
  BY DEF StopsInTime, Captcha!StopsInTime, CaptchaProofs!StopsInTime,
     Captcha!ReachedBetweenReadings, CaptchaProofs!ReachedBetweenReadings, Captcha!Default,
     CaptchaProofs!Default, Captcha!Least, CaptchaProofs!Least
<1> QED BY <1>1, <1>2, SameCaptcha, PTL DEF Spec

LEMMA MonthTyped == Spec => []Month!TypeOK
<1>1. MonthProofs!Spec => []MonthProofs!IndInv
  BY MonthNames, MonthProofs!Invariance
<1>2. MonthProofs!IndInv => Month!TypeOK
  BY DEF MonthProofs!IndInv, MonthProofs!TypeOK, Month!TypeOK, Month!Jobs, MonthProofs!Jobs,
     Month!Contents, MonthProofs!Contents, Month!JobStates, MonthProofs!JobStates, Month!Trackers,
     MonthProofs!Trackers
<1> QED BY <1>1, <1>2, SameMonth, PTL DEF Spec

LEMMA CaptchaTyped == Spec => []Captcha!TypeOK
<1>1. CaptchaProofs!Spec => []CaptchaProofs!IndInv
  BY CaptchaSetting, CaptchaProofs!Invariance
<1>2. CaptchaProofs!IndInv => Captcha!TypeOK
  BY DEF CaptchaProofs!IndInv, CaptchaProofs!TypeOK, Captcha!TypeOK, Captcha!Checkpoints,
     CaptchaProofs!Checkpoints, Captcha!HandlerStates, CaptchaProofs!HandlerStates
<1> QED BY <1>1, <1>2, SameCaptcha, PTL DEF Spec

-----------------------------------------------------------------------------
\* All ten.

\* Every service's variables keep their types, for all values of the constants.
THEOREM TypesKept == Spec => []TypeOK
<1>1. Accounted /\ Numbered /\ RowsHeld /\ Kept /\ WritersHold /\ AllPlaced /\ Evident /\ Parted
      /\ Month!TypeOK /\ Captcha!TypeOK => TypeOK
  BY DEF Accounted, Numbered, RowsHeld, Kept, WritersHold, AllPlaced, Evident, Parted, TypeOK
<1> QED BY <1>1, MailsAccounted, VersionsNumbered, AlertRowsHeld, LedgersKept, StatusRowHeld,
           ContextsPlaced, EvidenceKept, LeasesParted, MonthTyped, CaptchaTyped, PTL
=============================================================================
