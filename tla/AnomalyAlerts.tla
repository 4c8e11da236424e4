--------------------------- MODULE AnomalyAlerts ---------------------------
(***************************************************************************)
(* AnomalyService.record (watchdog/anomaly.py): the state row of an anomaly*)
(* type decides whether an anomaly is also published as an alert.  A caller*)
(* (watchdog tick, with the cleanup scan and the retention in it, portal   *)
(* and browser health, the API) is one transaction of one session, which   *)
(* may record several anomalies, the same type among them: a tick records  *)
(* one queue_overload per queue.  Rows it wrote stay its own to the end,   *)
(* and its session may still hold what an earlier record loaded.           *)
(***************************************************************************)
EXTENDS Integers, FiniteSets

CONSTANTS
  Types,
  Callers,    \* transactions
  Cooldown,   \* AnomalyPolicy.cooldown_seconds
  Window,     \* of the flood protection
  Cap,        \* AnomalyPolicy.max_alerts_per_minute
  MaxNow,     \* bound: the clock
  MaxRecords  \* bound: anomalies one transaction records

VARIABLES
  now,
  alerted,    \* committed last_alerted_at of a type: Never when the row has none
  exists,     \* types with a committed state row
  holder,     \* the caller that wrote a type's row and has not committed
  call        \* of a caller: its record under way, and what its session holds

vars == <<now, alerted, exists, holder, call>>

Never == -1
Unread == -2    \* the session has no such row

Times == 0..MaxNow
Copies == Unread..MaxNow

\* copy: last_alerted_at of a type as the session has it; first: this transaction's first
\* alert of a type; base: what the session had before that alert.
Idle == [pc |-> "idle", count |-> 0, type |-> Never, at |-> 0,
         copy |-> [k \in Types |-> Unread],
         first |-> [k \in Types |-> Never], base |-> [k \in Types |-> Unread]]

TypeOK ==
  /\ now \in Times /\ alerted \in [Types -> Never..MaxNow] /\ exists \subseteq Types
  /\ holder \in [Types -> Callers \cup {Never}]
  /\ call \in [Callers ->
       [pc : {"idle", "read", "counted", "written", "over"}, count : 0..MaxRecords,
        type : Types \cup {Never}, at : Times, copy : [Types -> Copies],
        first : [Types -> Never..MaxNow], base : [Types -> Copies]]]
  /\ \A c \in Callers : call[c].pc \in {"read", "counted"} => call[c].type \in Types

Init ==
  /\ now = 0 /\ alerted = [k \in Types |-> Never] /\ exists = {}
  /\ holder = [k \in Types |-> Never] /\ call = [c \in Callers |-> Idle]

-----------------------------------------------------------------------------

Copy(c) == call[c].copy[call[c].type]
Published(c, k) == call[c].first[k] # Never

\* What a query of this transaction finds in a type's row.
Row(c, k) ==
  IF k \notin exists /\ holder[k] # c THEN Unread
  ELSE IF Published(c, k) THEN call[c].copy[k] ELSE alerted[k]

\* A row the session still has is not loaded again; whether it has it depends on who still
\* refers to it.
Loaded(c, k) == {Row(c, k)} \cup ({call[c].copy[k]} \ {Unread})

\* record reads the clock and _get_state the row.
Read(c, type) ==
  /\ call[c].pc \in {"idle", "written"} /\ call[c].count < MaxRecords
  /\ \E loaded \in Loaded(c, type) :
       call' = [call EXCEPT ![c] =
         [call[c] EXCEPT !.pc = "read", !.count = call[c].count + 1, !.type = type, !.at = now,
                         !.copy = [call[c].copy EXCEPT ![type] = loaded]]]
  /\ UNCHANGED <<now, alerted, exists, holder>>

\* Mutant of Due: a type that was alerted once is due again at once.
DueAlways(c) == TRUE

\* _should_alert; without a row there is no last alert.
Due(c) == Copy(c) < 0 \/ call[c].at - Copy(c) >= Cooldown

\* _count_recent_alerts loads the rows of the other types, if the type is due.
Count(c) ==
  /\ call[c].pc = "read" /\ Due(c)
  /\ \E copy \in [Types -> Copies] :
       /\ copy[call[c].type] = Copy(c)
       /\ \A k \in Types \ {call[c].type} : copy[k] \in Loaded(c, k)
       /\ call' = [call EXCEPT ![c] = [call[c] EXCEPT !.pc = "counted", !.copy = copy]]
  /\ UNCHANGED <<now, alerted, exists, holder>>

Recent(c) == {k \in Types : call[c].copy[k] >= 0 /\ call[c].copy[k] >= call[c].at - Window}

ShouldAlert(c) == Due(c) /\ Cardinality(Recent(c)) < Cap

Decided(c) == call[c].pc = "counted" \/ (call[c].pc = "read" /\ ~Due(c))

\* What the session and its transaction have after the flush.
Flushed(c) ==
  LET k == call[c].type IN
  IF ShouldAlert(c)
  THEN [call[c] EXCEPT !.pc = "written", !.copy = [call[c].copy EXCEPT ![k] = call[c].at],
          !.first = IF Published(c, k) THEN call[c].first
                    ELSE [call[c].first EXCEPT ![k] = call[c].at],
          !.base = IF Published(c, k) THEN call[c].base
                   ELSE [call[c].base EXCEPT ![k] = Copy(c)]]
  ELSE [call[c] EXCEPT !.pc = "written",
          !.copy = IF Copy(c) = Unread THEN [call[c].copy EXCEPT ![k] = Never] ELSE call[c].copy]

\* The flush waits for the row's writer, then inserts a row or updates the one it read.
Write(c) ==
  /\ Decided(c) /\ holder[call[c].type] \in {Never, c}
  /\ Copy(c) = Unread => call[c].type \notin exists
  /\ holder' = [holder EXCEPT ![call[c].type] = c]
  /\ call' = [call EXCEPT ![c] = Flushed(c)]
  /\ UNCHANGED <<now, alerted, exists>>

Ends(c) ==
  /\ holder' = [k \in Types |-> IF holder[k] = c THEN Never ELSE holder[k]]
  /\ call' = [call EXCEPT ![c] = [Idle EXCEPT !.pc = "over"]]
  /\ UNCHANGED now

Commit(c) ==
  /\ call[c].pc = "written"
  /\ alerted' = [k \in Types |-> IF Published(c, k) THEN call[c].copy[k] ELSE alerted[k]]
  /\ exists' = exists \cup {k \in Types : holder[k] = c}
  /\ Ends(c)

\* The flush fails, because the row it inserts has appeared or two transactions wait for each
\* other's rows; or the caller fails, or is stopped, before its commit.
RollBack(c) ==
  /\ call[c].pc \notin {"idle", "over"}
  /\ Ends(c) /\ UNCHANGED <<alerted, exists>>

Tick == now < MaxNow /\ now' = now + 1 /\ UNCHANGED <<alerted, exists, holder, call>>

Next ==
  \/ \E c \in Callers :
       (\E type \in Types : Read(c, type)) \/ Count(c) \/ Write(c) \/ Commit(c) \/ RollBack(c)
  \/ Tick

Spec == Init /\ [][Next]_vars

-----------------------------------------------------------------------------
\* The alerts of one transaction keep the cooldown among themselves.  Its first one of a type
\* keeps it to the type's last committed one, unless that was committed after the session had
\* loaded the row; and it never comes from a session that found no row, because the second
\* insert of a type's row fails.
AlertsSpaced ==
  [][\A c \in Callers : \A k \in Types :
       /\ Commit(c) /\ Published(c, k) /\ alerted[k] # Never =>
            /\ call[c].base[k] # Unread
            /\ \/ call[c].first[k] - alerted[k] >= Cooldown
               \/ call[c].base[k] # alerted[k]
       /\ Write(c) /\ k = call[c].type /\ ShouldAlert(c) /\ Published(c, k) =>
            call[c].at - call[c].copy[k] >= Cooldown]_vars
=============================================================================
