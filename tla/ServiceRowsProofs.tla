------------------------- MODULE ServiceRowsProofs -------------------------
(***************************************************************************)
(* What the services promise about rows that several transactions write:   *)
(* the row of a mail, the versions of a selector, the state of an anomaly  *)
(* type, the rows of clients with their vault, a Telegram user.  Each      *)
(* promise follows from an inductive invariant of its service, for any     *)
(* number of transactions and whatever the other services do meanwhile.    *)
(***************************************************************************)
EXTENDS Services, FiniteSetTheorems, TLAPS

-----------------------------------------------------------------------------
\* A mail: an execution is the key's writer from its insert to the end of its transaction.

\* Whether the row, or an execution about to commit it, already answers for a mail.
Answered == mailRow = "sent" \/ \E r \in MailRuns : mailPc[r] = "sent"

\* Between the insert and the end of its transaction an execution is the key's writer, so
\* there is one; an execution whose mail was lost never runs again; every mail is lost or
\* the one that is answered for.
Accounted ==
  /\ Mail!TypeOK
  /\ \A r \in MailRuns : mailPc[r] \in {"sending", "sent"} <=> mailWriter = r
  /\ mailRow = "sent" => mailWriter = Nobody
  /\ IsFiniteSet(lost) /\ \A r \in lost : mailPc[r] = "failed"
  /\ mails = Cardinality(lost) + (IF Answered THEN 1 ELSE 0)

LEMMA AccountedInit == ASSUME Nobody \notin MailRuns PROVE Mail!Init => Accounted
BY FS_EmptySet DEF Mail!Init, Accounted, Mail!TypeOK, Mail!Pcs, Answered

\* What an execution does before it is the writer, and what it does as the writer.
LEMMA AccountedNext ==
  ASSUME Nobody \notin MailRuns, Accounted, Mail!Next
  PROVE  Accounted'
<1> PICK r \in MailRuns :
      \/ Mail!Start(r) \/ Mail!Select(r) \/ Mail!Insert(r) \/ Mail!Send(r) \/ Mail!Commit(r)
      \/ \E accepted \in BOOLEAN : Mail!RollsBack(r, accepted)
  BY DEF Mail!Next
<1>t. /\ mailRow \in {"none", "sent"} /\ mailWriter \in MailRuns \cup {Nobody}
         /\ mailPc \in [MailRuns -> Mail!Pcs]
      /\ mails \in Nat /\ lost \subseteq MailRuns
  BY DEF Accounted, Mail!TypeOK
<1>c. Cardinality(lost) \in Nat
  BY FS_CardinalityType DEF Accounted
<1>a. ASSUME NEW q \in lost PROVE /\ mailPc[q] = "failed" /\ q \in MailRuns
  BY <1>t DEF Accounted
<1>1. CASE Mail!Start(r) \/ Mail!Select(r)
  <2>1. PICK label \in {"selecting", "inserting", "done"} : Mail!Goto(r, label)
    BY <1>1 DEF Mail!Start, Mail!Select
  <2>2. mailPc[r] \in {"idle", "selecting"} /\ UNCHANGED <<mailRow, mailWriter, mails, lost>>
    BY <1>1 DEF Mail!Start, Mail!Select
  <2>3. mailPc' \in [MailRuns -> Mail!Pcs] /\ (Answered' <=> Answered)
    BY <1>t, <2>1, <2>2 DEF Mail!Goto, Mail!Pcs, Answered
  <2> QED BY <1>t, <1>a, <2>1, <2>2, <2>3 DEF Accounted, Mail!TypeOK, Mail!Goto
<1>2. CASE Mail!Insert(r)
  <2>1. /\ mailPc[r] = "inserting" /\ mailWriter = Nobody /\ UNCHANGED <<mailRow, mails, lost>>
        /\ \/ Mail!Goto(r, "failed") /\ UNCHANGED mailWriter
           \/ mailRow = "none" /\ mailWriter' = r /\ Mail!Goto(r, "sending")
    BY <1>2, <1>t DEF Mail!Insert, Mail!KeyFree, Mail!Conflict
  <2>2. mailPc' \in [MailRuns -> Mail!Pcs] /\ (Answered' <=> Answered)
    BY <1>t, <2>1 DEF Mail!Goto, Mail!Pcs, Answered
  <2> QED BY <1>t, <1>a, <2>1, <2>2 DEF Accounted, Mail!TypeOK, Mail!Goto
<1>3. CASE Mail!Send(r)
  <2>1. /\ mailPc[r] = "sending" /\ mails' = mails + 1 /\ Mail!Goto(r, "sent")
        /\ UNCHANGED <<mailRow, mailWriter, lost>>
    BY <1>3 DEF Mail!Send
  <2>2. mailWriter = r /\ ~Answered /\ Answered' /\ mailPc' \in [MailRuns -> Mail!Pcs]
    BY <1>t, <2>1 DEF Accounted, Answered, Mail!Goto, Mail!Pcs
  <2> QED BY <1>t, <1>c, <1>a, <2>1, <2>2 DEF Accounted, Mail!TypeOK, Mail!Goto
<1>4. CASE Mail!Commit(r)
  <2>1. /\ mailPc[r] = "sent" /\ mailRow' = "sent" /\ Mail!Goto(r, "done")
           /\ UNCHANGED <<mails, lost>>
        /\ mailWriter' = IF mailWriter = r THEN Nobody ELSE mailWriter
    BY <1>4 DEF Mail!Commit
  <2>2. mailWriter = r /\ mailWriter' = Nobody /\ Answered /\ Answered'
        /\ mailPc' \in [MailRuns -> Mail!Pcs]
    BY <1>t, <2>1 DEF Accounted, Answered, Mail!Goto, Mail!Pcs
  <2> QED BY <1>t, <1>a, <2>1, <2>2 DEF Accounted, Mail!TypeOK, Mail!Goto
<1>5. ASSUME NEW accepted \in BOOLEAN, Mail!RollsBack(r, accepted)
      PROVE  Accounted'
  <2>1. /\ mailPc[r] \in {"selecting", "inserting", "sending", "sent"} /\ Mail!Goto(r, "failed")
        /\ UNCHANGED mailRow /\ (accepted => mailPc[r] = "sending")
        /\ mails' = (IF accepted THEN mails + 1 ELSE mails)
        /\ mailWriter' = (IF mailWriter = r THEN Nobody ELSE mailWriter)
        /\ lost' = IF accepted \/ mailPc[r] = "sent" THEN lost \cup {r} ELSE lost
    BY <1>5 DEF Mail!RollsBack
  <2>2. r \notin lost
    BY <1>a, <2>1
  <2>3. /\ IsFiniteSet(lost') /\ lost' \subseteq MailRuns
        /\ Cardinality(lost') =
             IF accepted \/ mailPc[r] = "sent" THEN Cardinality(lost) + 1 ELSE Cardinality(lost)
    <3>1. IsFiniteSet(lost)
      BY DEF Accounted
    <3>2. /\ IsFiniteSet(lost \cup {r})
          /\ Cardinality(lost \cup {r}) = Cardinality(lost) + 1
      BY <3>1, <2>2, FS_AddElement
    <3> QED BY <3>1, <3>2, <2>1, <1>t
  <2>4. mailPc' \in [MailRuns -> Mail!Pcs] /\ \A q \in MailRuns \ {r} : mailPc'[q] = mailPc[q]
    BY <1>t, <2>1 DEF Mail!Goto, Mail!Pcs
  <2>5. mailPc'[r] = "failed"
    BY <1>t, <2>1 DEF Mail!Goto
  <2>6. /\ mails' = Cardinality(lost') + (IF Answered' THEN 1 ELSE 0)
    <3>1. CASE mailPc[r] = "sent"
      BY <3>1, <1>t, <1>c, <2>1, <2>3, <2>4, <2>5 DEF Accounted, Answered
    <3>2. CASE mailPc[r] = "sending"
      BY <3>2, <1>t, <1>c, <2>1, <2>3, <2>4, <2>5 DEF Accounted, Answered
    <3>3. CASE mailPc[r] \notin {"sending", "sent"}
      BY <3>3, <1>t, <1>c, <2>1, <2>3, <2>4, <2>5 DEF Accounted, Answered
    <3> QED BY <3>1, <3>2, <3>3
  <2>7. \A q \in MailRuns : mailPc'[q] \in {"sending", "sent"} <=> mailWriter' = q
    BY <1>t, <2>1, <2>4, <2>5 DEF Accounted
  <2>8. /\ mailRow' = "sent" => mailWriter' = Nobody
        /\ \A q \in lost' : mailPc'[q] = "failed"
    BY <1>t, <1>a, <2>1, <2>4, <2>5 DEF Accounted
  <2>9. Mail!TypeOK'
    BY <1>t, <2>1, <2>3, <2>4 DEF Mail!TypeOK
  <2> QED BY <2>3, <2>6, <2>7, <2>8, <2>9 DEF Accounted
<1> QED BY <1>1, <1>2, <1>3, <1>4, <1>5

\* Every mail is accounted for: by a lost transaction, or by the row (email_delivery.py).
THEOREM MailsAccounted == Spec => []Accounted
<1>1. Mail!Init => Accounted
  BY NamesAssumption, AccountedInit
<1>2. Accounted /\ [Mail!Next]_(Mail!vars) => Accounted'
  <2>1. Accounted /\ UNCHANGED Mail!vars => Accounted'
    BY DEF Mail!vars, Accounted, Mail!TypeOK, Answered
  <2> QED BY <2>1, NamesAssumption, AccountedNext
<1> QED BY <1>1, <1>2, PTL DEF Spec, Mail!Spec

\* The same mail is sent twice only if a transaction was lost after its mail, for any
\* number of overlapping executions of any number of jobs with the key.
THEOREM OneMail == Spec => []MailOnce
<1>1. Accounted => MailOnce
  <2> SUFFICES ASSUME Accounted PROVE MailOnce
    OBVIOUS
  <2>1. Cardinality(lost) \in Nat
    BY FS_CardinalityType DEF Accounted
  <2>2. Mail!Cardinality(lost) = Cardinality(lost)
    BY DEF Mail!Cardinality, Cardinality
  <2> QED BY <2>1, <2>2 DEF Accounted, MailOnce, Mail!MailOnce
<1> QED BY <1>1, MailsAccounted, PTL

-----------------------------------------------------------------------------
\* A selector: the committed versions have no gap, and one row at a time waits for its commit.

VersionsOf(s) == {r.version : r \in s}

\* The committed versions are 1..n.  A promotion that has read found 1..k of them; one that
\* has flushed a row holds version n + 1, and is alone: what could take the next version
\* away from it, a commit, would have to hold it.
Numbered ==
  /\ Promotion!TypeOK
  /\ \E n \in Nat :
       /\ VersionsOf(rows) = 1..n
       /\ \A p \in Promotions :
            /\ promotionPc[p] = "read" => \E k \in 0..n : found[p] = 1..k
            /\ promotionPc[p] = "flushed" <=> new[p] # Promotion!None
            /\ promotionPc[p] = "flushed" => new[p].version = n + 1
  /\ \A p, q \in Promotions : promotionPc[p] = "flushed" /\ promotionPc[q] = "flushed" => p = q

LEMMA NumberedInit == Promotion!Init => Numbered
<1> SUFFICES ASSUME Promotion!Init PROVE Numbered
  OBVIOUS
<1>1. VersionsOf(rows) = 1..0
  BY DEF Promotion!Init, VersionsOf
<1> QED BY <1>1 DEF Promotion!Init, Numbered, Promotion!TypeOK

\* The version after 1..k is k + 1.
LEMMA NewestOfFirst ==
  ASSUME NEW k \in Nat
  PROVE  Promotion!Newest((1..k) \cup {0}) = k
<1> DEFINE S == (1..k) \cup {0}
<1>1. k \in S /\ (\A w \in S : w <= k) /\ \A v \in S : (\A w \in S : w <= v) => v = k
  OBVIOUS
<1> QED BY <1>1 DEF Promotion!Newest

LEMMA NumberedNext == Numbered /\ [Promotion!Next]_(Promotion!vars) => Numbered'
<1> SUFFICES ASSUME Numbered, [Promotion!Next]_(Promotion!vars) PROVE Numbered'
  OBVIOUS
<1>t. /\ promotionPc \in [Promotions -> {"idle", "read", "flushed", "over"}]
      /\ new \in [Promotions -> [version : Nat \ {0}, by : Promotions,
           active : BOOLEAN] \cup {Promotion!None}]
      /\ found \in [Promotions -> SUBSET Nat] /\ rows \subseteq Promotion!Rows
  BY DEF Numbered, Promotion!TypeOK, Promotion!Rows
<1>n. PICK n \in Nat :
       /\ VersionsOf(rows) = 1..n
       /\ \A p \in Promotions :
            /\ promotionPc[p] = "read" => \E k \in 0..n : found[p] = 1..k
            /\ promotionPc[p] = "flushed" <=> new[p] # Promotion!None
            /\ promotionPc[p] = "flushed" => new[p].version = n + 1
  BY DEF Numbered
<1>u. \A p, q \in Promotions : promotionPc[p] = "flushed" /\ promotionPc[q] = "flushed" => p = q
  BY DEF Numbered
<1>1. ASSUME NEW p \in Promotions, Promotion!ReadVersions(p) PROVE Numbered'
  <2>1. /\ promotionPc[p] = "idle" /\ promotionPc' = [promotionPc EXCEPT ![p] = "read"]
        /\ found' = [found EXCEPT ![p] = VersionsOf(rows)] /\ UNCHANGED <<rows, new>>
    BY <1>1 DEF Promotion!ReadVersions, Promotion!Goto, VersionsOf
  <2>2. VersionsOf(rows') = 1..n
    BY <2>1, <1>n
  <2>3. found' \in [Promotions -> SUBSET Nat]
        /\ promotionPc' \in [Promotions -> {"idle", "read", "flushed", "over"}]
    BY <1>t, <1>n, <2>1
  <2>4. ASSUME NEW q \in Promotions
        PROVE  /\ promotionPc'[q] = "read" => \E k \in 0..n : found'[q] = 1..k
               /\ promotionPc'[q] = "flushed" <=> new'[q] # Promotion!None
               /\ promotionPc'[q] = "flushed" => new'[q].version = n + 1
               /\ promotionPc'[q] = "flushed" => promotionPc[q] = "flushed"
    <3>1. CASE q = p
      BY <3>1, <1>t, <1>n, <2>1
    <3>2. CASE q # p
      BY <3>2, <1>t, <1>n, <2>1
    <3> QED BY <3>1, <3>2
  <2>5. Promotion!TypeOK'
    BY <1>t, <2>1, <2>3 DEF Promotion!TypeOK, Promotion!Rows
  <2> QED BY <1>u, <2>2, <2>4, <2>5 DEF Numbered
<1>2. ASSUME NEW p \in Promotions, NEW active \in BOOLEAN, Promotion!Insert(p, active)
      PROVE  Numbered'
  <2>1. promotionPc[p] = "read" /\ UNCHANGED <<rows, found>>
    BY <1>2 DEF Promotion!Insert
  <2>2. PICK k \in 0..n : found[p] = 1..k
    BY <1>n, <2>1
  <2>3. Promotion!NextVersion(p) = k + 1
    BY <2>2, NewestOfFirst DEF Promotion!NextVersion
  <2>4. Promotion!Taken(p) <=> k + 1 \in 1..n
    BY <2>3, <1>n DEF Promotion!Taken, VersionsOf
  <2>5. CASE Promotion!Taken(p)
    <3>1. promotionPc' = [promotionPc EXCEPT ![p] = "over"] /\ UNCHANGED <<rows, found, new>>
      BY <1>2, <2>5 DEF Promotion!Insert, Promotion!Goto
    <3>2. VersionsOf(rows') = 1..n
      BY <3>1, <1>n
    <3>3. ASSUME NEW q \in Promotions
          PROVE  /\ promotionPc'[q] = "read" => promotionPc[q] = "read"
                 /\ promotionPc'[q] = "flushed" <=> promotionPc[q] = "flushed"
      BY <3>1, <1>t, <2>1
    <3>4. promotionPc' \in [Promotions -> {"idle", "read", "flushed", "over"}]
      BY <3>1, <1>t
    <3> QED BY <1>t, <1>n, <1>u, <3>1, <3>2, <3>3, <3>4 DEF Numbered, Promotion!TypeOK,
               Promotion!Rows
  <2>6. CASE ~Promotion!Taken(p)
    <3> DEFINE inserted == [version |-> Promotion!NextVersion(p), by |-> p, active |-> active]
    <3>1. /\ promotionPc' = [promotionPc EXCEPT ![p] = "flushed"] /\ UNCHANGED <<rows, found>>
          /\ new' = [new EXCEPT ![p] = inserted]
          /\ \A q \in Promotions : new[q] = Promotion!None
             \/ new[q].version # Promotion!NextVersion(p)
      BY <1>2, <2>6 DEF Promotion!Insert, Promotion!Goto
    <3>2. k = n
      BY <2>4, <2>6
    <3>3. VersionsOf(rows') = 1..n
      BY <3>1, <1>n
    <3>4. \A q \in Promotions : promotionPc[q] # "flushed"
      BY <3>1, <3>2, <2>3, <1>n
    <3>5. /\ inserted \in [version : Nat \ {0}, by : Promotions, active : BOOLEAN]
          /\ inserted # Promotion!None /\ inserted.version = n + 1
      BY <2>3, <3>2 DEF Promotion!None
    <3> HIDE DEF inserted
    <3>6. /\ new' \in [Promotions -> [version : Nat \ {0}, by : Promotions,
               active : BOOLEAN] \cup {Promotion!None}]
          /\ promotionPc' \in [Promotions -> {"idle", "read", "flushed", "over"}]
      BY <3>1, <3>5, <1>t
    <3>7. ASSUME NEW q \in Promotions
          PROVE  /\ promotionPc'[q] = "read" => \E m \in 0..n : found'[q] = 1..m
                 /\ promotionPc'[q] = "flushed" <=> new'[q] # Promotion!None
                 /\ promotionPc'[q] = "flushed" => new'[q].version = n + 1
                 /\ promotionPc'[q] = "flushed" => q = p
      <4>1. CASE q = p
        BY <4>1, <1>t, <3>1, <3>5
      <4>2. CASE q # p
        BY <4>2, <1>t, <1>n, <3>1, <3>4
      <4> QED BY <4>1, <4>2
    <3> QED BY <1>t, <3>1, <3>3, <3>6, <3>7 DEF Numbered, Promotion!TypeOK, Promotion!Rows
  <2> QED BY <2>5, <2>6
<1>3. ASSUME NEW p \in Promotions, Promotion!CommitRow(p) PROVE Numbered'
  <2>1. /\ promotionPc[p] = "flushed" /\ promotionPc' = [promotionPc EXCEPT ![p] = "over"]
        /\ rows' = rows \cup {new[p]} /\ new' = [new EXCEPT ![p] = Promotion!None]
           /\ UNCHANGED found
    BY <1>3 DEF Promotion!CommitRow, Promotion!Goto
  <2>2. VersionsOf(rows') = VersionsOf(rows) \cup {new[p].version}
    BY <2>1 DEF VersionsOf
  <2>3. VersionsOf(rows') = 1..(n + 1)
    <3>1. new[p].version = n + 1
      BY <2>1, <1>n
    <3>2. (1..n) \cup {n + 1} = 1..(n + 1)
      OBVIOUS
    <3> QED BY <2>2, <3>1, <3>2, <1>n
  <2>4. ASSUME NEW q \in Promotions
        PROVE  /\ promotionPc'[q] = "read" => \E k \in 0..(n + 1) : found'[q] = 1..k
               /\ promotionPc'[q] = "flushed" <=> new'[q] # Promotion!None
               /\ promotionPc'[q] # "flushed"
    <3>1. CASE q = p
      BY <3>1, <1>t, <2>1
    <3>2. CASE q # p
      BY <3>2, <1>t, <1>n, <1>u, <2>1
    <3> QED BY <3>1, <3>2
  <2>5. /\ new' \in [Promotions -> [version : Nat \ {0}, by : Promotions,
             active : BOOLEAN] \cup {Promotion!None}]
        /\ promotionPc' \in [Promotions -> {"idle", "read", "flushed", "over"}]
        /\ rows' \subseteq Promotion!Rows
    BY <1>t, <1>n, <2>1 DEF Promotion!Rows
  <2>6. n + 1 \in Nat
    OBVIOUS
  <2> QED BY <1>t, <2>1, <2>3, <2>4, <2>5, <2>6 DEF Numbered, Promotion!TypeOK, Promotion!Rows
<1>4. ASSUME NEW p \in Promotions, Promotion!RollBackRow(p) PROVE Numbered'
  <2>1. /\ promotionPc' = [promotionPc EXCEPT ![p] = "over"]
        /\ new' = [new EXCEPT ![p] = Promotion!None] /\ UNCHANGED <<rows, found>>
    BY <1>4 DEF Promotion!RollBackRow, Promotion!Goto
  <2>2. VersionsOf(rows') = 1..n
    BY <2>1, <1>n
  <2>3. ASSUME NEW q \in Promotions
        PROVE  /\ promotionPc'[q] = "read" => \E k \in 0..n : found'[q] = 1..k
               /\ promotionPc'[q] = "flushed" <=> new'[q] # Promotion!None
               /\ promotionPc'[q] = "flushed" => new'[q].version = n + 1
               /\ promotionPc'[q] = "flushed" => promotionPc[q] = "flushed"
    <3>1. CASE q = p
      BY <3>1, <1>t, <2>1
    <3>2. CASE q # p
      BY <3>2, <1>t, <1>n, <2>1
    <3> QED BY <3>1, <3>2
  <2>4. /\ new' \in [Promotions -> [version : Nat \ {0}, by : Promotions,
             active : BOOLEAN] \cup {Promotion!None}]
        /\ promotionPc' \in [Promotions -> {"idle", "read", "flushed", "over"}]
    BY <1>t, <2>1
  <2> QED BY <1>t, <1>u, <2>1, <2>2, <2>3, <2>4 DEF Numbered, Promotion!TypeOK, Promotion!Rows
<1>5. CASE UNCHANGED Promotion!vars
  <2>1. VersionsOf(rows') = 1..n
    BY <1>5, <1>n DEF Promotion!vars
  <2> QED BY <1>5, <1>t, <1>n, <1>u, <2>1 DEF Promotion!vars, Numbered, Promotion!TypeOK,
             Promotion!Rows
<1> QED BY <1>1, <1>2, <1>3, <1>4, <1>5 DEF Promotion!Next

\* The committed versions have no gap, and one row at a time waits for its commit
\* (selector_promotion.py, under the unique index on key and version).
THEOREM VersionsNumbered == Spec => []Numbered
BY NumberedInit, NumberedNext, PTL DEF Spec, Promotion!Spec

\* What a promotion commits is newer than everything committed before, however many
\* promotions overlap.
THEOREM NewestAcknowledged == Spec => AcknowledgedIsNewest
<1>1. Numbered /\ [Promotion!Next]_(Promotion!vars) =>
        [\A p \in Promotions : Promotion!CommitRow(p) =>
           \A r \in rows : r.version < new[p].version]_(Promotion!vars)
  <2> SUFFICES ASSUME Numbered, NEW p \in Promotions, Promotion!CommitRow(p), NEW r \in rows
               PROVE  r.version < new[p].version
    OBVIOUS
  <2>1. PICK n \in Nat : VersionsOf(rows) = 1..n /\ new[p].version = n + 1
    BY DEF Numbered, Promotion!CommitRow
  <2>2. r.version \in 1..n
    BY <2>1 DEF VersionsOf
  <2> QED BY <2>1, <2>2
<1> QED BY <1>1, VersionsNumbered, PTL DEF Spec, Promotion!Spec, AcknowledgedIsNewest,
           Promotion!AcknowledgedIsNewest

-----------------------------------------------------------------------------
\* An anomaly type: who has written its row has it for itself.

Numbers == Cooldown \in Int /\ Window \in Int /\ MaxNow \in Nat /\ MaxRecords \in Nat
           /\ Alerts!Never \notin Callers

CallRecord ==
  [pc : {"idle", "read", "counted", "written", "over"}, count : 0..MaxRecords,
   type : Types \cup {Alerts!Never}, at : Alerts!Times, copy : [Types -> Alerts!Copies],
   first : [Types -> Alerts!Never..MaxNow], base : [Types -> Alerts!Copies]]

\* A caller that has alerted a type holds its row to the end; the row it inserted was not
\* there before; its first alert was due by what the session had.
Sound(e, c, h, x) ==
  \A k \in Types : e.first[k] # Alerts!Never =>
    /\ h[k] = c /\ e.copy[k] >= 0
    /\ e.base[k] = Alerts!Unread => k \notin x
    /\ e.base[k] >= 0 => e.first[k] - e.base[k] >= Cooldown

\* Only rows that exist were alerted.
RowsHeld ==
  /\ Alerts!TypeOK
  /\ \A k \in Types : alerted[k] # Alerts!Never => k \in exists
  /\ \A c \in Callers : Sound(call[c], c, holder, exists)

LEMMA IdleTyped == ASSUME Numbers, NEW p \in {"idle", "over"}
                   PROVE  [Alerts!Idle EXCEPT !.pc = p] \in CallRecord /\ Alerts!Idle \in CallRecord
BY DEF Alerts!Idle, CallRecord, Alerts!Times, Alerts!Copies, Alerts!Never, Alerts!Unread, Numbers

LEMMA RowsHeldInit == ASSUME Numbers PROVE Alerts!Init => RowsHeld
<1> SUFFICES ASSUME Alerts!Init PROVE RowsHeld
  OBVIOUS
<1>1. call \in [Callers -> CallRecord]
  BY IdleTyped DEF Alerts!Init
<1>2. Alerts!TypeOK
  BY <1>1 DEF Alerts!Init, Alerts!TypeOK, CallRecord, Alerts!Idle, Alerts!Times, Alerts!Never, Numbers
<1> QED BY <1>2 DEF Alerts!Init, RowsHeld, Sound, Alerts!Idle

LEMMA CallTyped == ASSUME Alerts!TypeOK, NEW c \in Callers PROVE call[c] \in CallRecord
BY DEF Alerts!TypeOK, CallRecord

\* A step of one caller keeps what the others rest on: their rows, and that those are new.
LEMMA CallerNext ==
  ASSUME RowsHeld, NEW c \in Callers, NEW entry \in CallRecord,
         call' = [call EXCEPT ![c] = entry],
         entry.pc \in {"read", "counted"} => entry.type \in Types,
         now' = now, alerted' \in [Types -> Alerts!Never..MaxNow], exists' \subseteq Types,
         holder' \in [Types -> Callers \cup {Alerts!Never}],
         \A k \in Types : alerted'[k] # Alerts!Never => k \in exists',
         \A d \in Callers \ {c} : \A k \in Types :
           holder[k] = d => holder'[k] = d /\ (k \in exists' => k \in exists),
         Sound(entry, c, holder', exists')
  PROVE  RowsHeld'
<1>1. call'[c] = entry /\ \A d \in Callers : d # c => call'[d] = call[d]
  BY DEF RowsHeld, Alerts!TypeOK
<1>2. Alerts!TypeOK'
  BY <1>1 DEF RowsHeld, Alerts!TypeOK, CallRecord, Alerts!Times, Alerts!Copies
<1>3. ASSUME NEW d \in Callers PROVE Sound(call'[d], d, holder', exists')
  <2>1. CASE d = c
    BY <1>1, <2>1
  <2>2. CASE d # c
    BY <1>1, <2>2 DEF RowsHeld, Sound
  <2> QED BY <2>1, <2>2
<1> QED BY <1>2, <1>3 DEF RowsHeld

\* A row of its own alert is found as it was left.
LEMMA LoadedTyped ==
  ASSUME Numbers, RowsHeld, NEW c \in Callers, NEW k \in Types, NEW x \in Alerts!Loaded(c, k)
  PROVE  /\ x \in Alerts!Copies
         /\ call[c].first[k] # Alerts!Never => x = call[c].copy[k]
<1>1. call[c] \in CallRecord /\ Sound(call[c], c, holder, exists)
  BY CallTyped DEF RowsHeld
<1>2. alerted[k] \in Alerts!Copies /\ Alerts!Unread \in Alerts!Copies
  BY DEF RowsHeld, Alerts!TypeOK, Alerts!Copies, Alerts!Never, Alerts!Unread, Numbers
<1> QED BY <1>1, <1>2 DEF Alerts!Loaded, Alerts!Row, Alerts!Published, CallRecord, Sound

LEMMA ReadNext ==
  ASSUME Numbers, RowsHeld, NEW c \in Callers, NEW k \in Types, Alerts!Read(c, k)
  PROVE  RowsHeld'
<1>0. call[c] \in CallRecord /\ Sound(call[c], c, holder, exists) /\ now \in Alerts!Times
  BY CallTyped DEF RowsHeld, Alerts!TypeOK
<1>1. PICK x \in Alerts!Loaded(c, k) :
        call' = [call EXCEPT ![c] =
          [call[c] EXCEPT !.pc = "read", !.count = call[c].count + 1, !.type = k, !.at = now,
                          !.copy = [call[c].copy EXCEPT ![k] = x]]]
  BY DEF Alerts!Read
<1> DEFINE entry == [call[c] EXCEPT !.pc = "read", !.count = call[c].count + 1, !.type = k,
                                    !.at = now, !.copy = [call[c].copy EXCEPT ![k] = x]]
<1>2. call[c].count + 1 \in 0..MaxRecords
  BY <1>0 DEF Alerts!Read, CallRecord, Numbers
<1>3. x \in Alerts!Copies /\ (call[c].first[k] # Alerts!Never => x = call[c].copy[k])
  BY LoadedTyped
<1>4. [call[c].copy EXCEPT ![k] = x] \in [Types -> Alerts!Copies]
  BY <1>0, <1>3 DEF CallRecord
<1>5. /\ entry \in CallRecord /\ entry.type = k /\ entry.first = call[c].first
      /\ entry.base = call[c].base /\ entry.copy = [call[c].copy EXCEPT ![k] = x]
  BY <1>0, <1>2, <1>4 DEF CallRecord
<1>6. call' = [call EXCEPT ![c] = entry]
  BY <1>1
<1> HIDE DEF entry
<1>7. \A j \in Types : entry.first[j] # Alerts!Never => entry.copy[j] = call[c].copy[j]
  BY <1>0, <1>3, <1>5 DEF CallRecord
<1>8. Sound(entry, c, holder, exists)
  BY <1>0, <1>5, <1>7 DEF Sound
<1>9. UNCHANGED <<now, alerted, exists, holder>>
  BY DEF Alerts!Read
<1> QED BY <1>5, <1>6, <1>8, <1>9, CallerNext DEF RowsHeld, Alerts!TypeOK

LEMMA CountNext ==
  ASSUME Numbers, RowsHeld, NEW c \in Callers, Alerts!Count(c)
  PROVE  RowsHeld'
<1>0. /\ call[c] \in CallRecord /\ Sound(call[c], c, holder, exists)
      /\ call[c].pc = "read" /\ call[c].type \in Types
  BY CallTyped DEF RowsHeld, Alerts!TypeOK, Alerts!Count
<1>1. PICK copy \in [Types -> Alerts!Copies] :
        /\ copy[call[c].type] = Alerts!Copy(c)
        /\ \A k \in Types \ {call[c].type} : copy[k] \in Alerts!Loaded(c, k)
        /\ call' = [call EXCEPT ![c] = [call[c] EXCEPT !.pc = "counted", !.copy = copy]]
  BY DEF Alerts!Count
<1> DEFINE entry == [call[c] EXCEPT !.pc = "counted", !.copy = copy]
<1>5. /\ entry \in CallRecord /\ entry.type = call[c].type /\ entry.first = call[c].first
      /\ entry.base = call[c].base /\ entry.copy = copy
  BY <1>0 DEF CallRecord
<1>6. call' = [call EXCEPT ![c] = entry]
  BY <1>1
<1> HIDE DEF entry
<1>7. \A j \in Types : entry.first[j] # Alerts!Never => entry.copy[j] = call[c].copy[j]
  BY <1>1, <1>5, LoadedTyped DEF Alerts!Copy
<1>8. Sound(entry, c, holder, exists)
  BY <1>0, <1>5, <1>7 DEF Sound
<1>9. UNCHANGED <<now, alerted, exists, holder>>
  BY DEF Alerts!Count
<1> QED BY <1>0, <1>5, <1>6, <1>8, <1>9, CallerNext DEF RowsHeld, Alerts!TypeOK

LEMMA FlushedSound ==
  ASSUME Numbers, RowsHeld, NEW c \in Callers, Alerts!Write(c)
  PROVE  /\ Alerts!Flushed(c) \in CallRecord /\ Alerts!Flushed(c).pc = "written"
         /\ Sound(Alerts!Flushed(c), c, holder', exists)
<1> DEFINE k == call[c].type
<1>0. /\ call[c] \in CallRecord /\ Sound(call[c], c, holder, exists) /\ k \in Types
      /\ call[c].at \in Alerts!Times /\ Alerts!Copy(c) \in Alerts!Copies
  <2>1. call[c] \in CallRecord /\ Sound(call[c], c, holder, exists) /\ k \in Types
    BY CallTyped DEF RowsHeld, Alerts!TypeOK, Alerts!Write, Alerts!Decided
  <2> QED BY <2>1 DEF CallRecord, Alerts!Copy
<1>1. /\ holder'[k] = c /\ \A j \in Types \ {k} : holder'[j] = holder[j]
      /\ Alerts!Copy(c) = Alerts!Unread => k \notin exists
  BY <1>0 DEF Alerts!Write, RowsHeld, Alerts!TypeOK
<1>2. CASE Alerts!ShouldAlert(c)
  <2> DEFINE copy == [call[c].copy EXCEPT ![k] = call[c].at]
             first == IF Alerts!Published(c, k) THEN call[c].first
                      ELSE [call[c].first EXCEPT ![k] = call[c].at]
             base == IF Alerts!Published(c, k) THEN call[c].base
                     ELSE [call[c].base EXCEPT ![k] = Alerts!Copy(c)]
             entry == [call[c] EXCEPT !.pc = "written", !.copy = copy, !.first = first, !.base = base]
  <2>1. Alerts!Flushed(c) = entry
    BY <1>2 DEF Alerts!Flushed
  <2>2. call[c].at \in Alerts!Copies /\ call[c].at \in Alerts!Never..MaxNow /\ call[c].at >= 0
    BY <1>0 DEF Alerts!Times, Alerts!Copies, Alerts!Never, Alerts!Unread, Numbers
  <2>3. /\ copy \in [Types -> Alerts!Copies] /\ first \in [Types -> Alerts!Never..MaxNow]
        /\ base \in [Types -> Alerts!Copies]
    BY <1>0, <2>2 DEF CallRecord
  <2>4. Alerts!Copy(c) >= 0 => call[c].at - Alerts!Copy(c) >= Cooldown
    BY <1>0, <1>2 DEF Alerts!ShouldAlert, Alerts!Due, Alerts!Copies, Alerts!Unread, Numbers
  <2>5. /\ copy[k] = call[c].at
        /\ ~Alerts!Published(c, k) => first[k] = call[c].at /\ base[k] = Alerts!Copy(c)
        /\ Alerts!Published(c, k) => first[k] = call[c].first[k] /\ base[k] = call[c].base[k]
        /\ \A j \in Types \ {k} : copy[j] = call[c].copy[j] /\ first[j] = call[c].first[j]
                                  /\ base[j] = call[c].base[j]
    BY <1>0 DEF CallRecord
  <2> HIDE DEF copy, first, base
  <2>6. entry \in CallRecord /\ entry.pc = "written" /\ entry.copy = copy
        /\ entry.first = first /\ entry.base = base
    BY <1>0, <2>3 DEF CallRecord
  <2> HIDE DEF entry
  <2>7. ASSUME NEW j \in Types, entry.first[j] # Alerts!Never
        PROVE  /\ holder'[j] = c /\ entry.copy[j] >= 0
               /\ entry.base[j] = Alerts!Unread => j \notin exists
               /\ entry.base[j] >= 0 => entry.first[j] - entry.base[j] >= Cooldown
    <3>1. CASE j = k
      BY <1>0, <1>1, <2>2, <2>4, <2>5, <2>6, <2>7, <3>1 DEF Sound, Alerts!Published
    <3>2. CASE j # k
      BY <1>0, <1>1, <2>5, <2>6, <2>7, <3>2 DEF Sound
    <3> QED BY <3>1, <3>2
  <2>8. Sound(entry, c, holder', exists)
    BY <2>7 DEF Sound
  <2> QED BY <2>1, <2>6, <2>8
<1>3. CASE ~Alerts!ShouldAlert(c)
  <2> DEFINE copy == IF Alerts!Copy(c) = Alerts!Unread
                     THEN [call[c].copy EXCEPT ![k] = Alerts!Never] ELSE call[c].copy
             entry == [call[c] EXCEPT !.pc = "written", !.copy = copy]
  <2>1. Alerts!Flushed(c) = entry
    BY <1>3 DEF Alerts!Flushed
  <2>2. Alerts!Never \in Alerts!Copies
    BY DEF Alerts!Never, Alerts!Copies, Alerts!Unread, Numbers
  <2>3. copy \in [Types -> Alerts!Copies]
    BY <1>0, <2>2 DEF CallRecord
  <2>4. \A j \in Types : copy[j] = call[c].copy[j] \/ (j = k /\ call[c].copy[j] = Alerts!Unread)
    BY <1>0 DEF CallRecord, Alerts!Copy
  <2> HIDE DEF copy
  <2>5. entry \in CallRecord /\ entry.pc = "written" /\ entry.copy = copy
        /\ entry.first = call[c].first /\ entry.base = call[c].base
    BY <1>0, <2>3 DEF CallRecord
  <2> HIDE DEF entry
  <2>6. ASSUME NEW j \in Types, call[c].first[j] # Alerts!Never
        PROVE  holder'[j] = c /\ copy[j] = call[c].copy[j]
    BY <1>0, <1>1, <2>4, <2>6 DEF Sound, Alerts!Unread
  <2>7. Sound(entry, c, holder', exists)
    BY <1>0, <2>5, <2>6 DEF Sound
  <2> QED BY <2>1, <2>5, <2>7
<1> QED BY <1>2, <1>3

LEMMA WriteNext ==
  ASSUME Numbers, RowsHeld, NEW c \in Callers, Alerts!Write(c)
  PROVE  RowsHeld'
<1> DEFINE k == call[c].type
<1>1. /\ holder' = [holder EXCEPT ![k] = c] /\ call' = [call EXCEPT ![c] = Alerts!Flushed(c)]
      /\ UNCHANGED <<now, alerted, exists>> /\ holder[k] \in {Alerts!Never, c} /\ k \in Types
  BY DEF Alerts!Write, Alerts!Decided, RowsHeld, Alerts!TypeOK
<1>2. /\ holder' \in [Types -> Callers \cup {Alerts!Never}]
      /\ \A d \in Callers \ {c} : \A j \in Types : holder[j] = d => holder'[j] = d
  BY <1>1 DEF RowsHeld, Alerts!TypeOK, Numbers
<1> QED BY <1>1, <1>2, FlushedSound, CallerNext DEF RowsHeld, Alerts!TypeOK

\* What ends gives back its own rows only.
LEMMA EndsFree ==
  ASSUME Numbers, RowsHeld, NEW c \in Callers, Alerts!Ends(c)
  PROVE  /\ [Alerts!Idle EXCEPT !.pc = "over"] \in CallRecord
         /\ [Alerts!Idle EXCEPT !.pc = "over"].pc = "over"
         /\ call' = [call EXCEPT ![c] = [Alerts!Idle EXCEPT !.pc = "over"]]
         /\ \A h, x : Sound([Alerts!Idle EXCEPT !.pc = "over"], c, h, x)
         /\ holder' \in [Types -> Callers \cup {Alerts!Never}] /\ now' = now
         /\ \A d \in Callers \ {c} : \A k \in Types : holder[k] = d => holder'[k] = d
<1>1. [Alerts!Idle EXCEPT !.pc = "over"] \in CallRecord
  BY IdleTyped
<1>2. \A h, x : Sound([Alerts!Idle EXCEPT !.pc = "over"], c, h, x)
  BY DEF Sound, Alerts!Idle
<1> QED BY <1>1, <1>2 DEF Alerts!Ends, RowsHeld, Alerts!TypeOK, Alerts!Idle

LEMMA AlertsCommitNext ==
  ASSUME Numbers, RowsHeld, NEW c \in Callers, Alerts!Commit(c)
  PROVE  RowsHeld'
<1>0. call[c] \in CallRecord /\ Sound(call[c], c, holder, exists) /\ Alerts!Ends(c)
  BY CallTyped DEF RowsHeld, Alerts!Commit
<1>1. \A k \in Types : Alerts!Published(c, k) =>
        call[c].copy[k] \in Alerts!Never..MaxNow /\ holder[k] = c
  BY <1>0 DEF Alerts!Published, Sound, CallRecord, Alerts!Copies, Alerts!Never, Alerts!Unread, Numbers
<1>2. alerted' \in [Types -> Alerts!Never..MaxNow] /\ exists' \subseteq Types
  BY <1>1 DEF Alerts!Commit, RowsHeld, Alerts!TypeOK
<1>3. \A k \in Types : alerted'[k] # Alerts!Never => k \in exists'
  BY <1>1 DEF Alerts!Commit, RowsHeld
<1>4. \A d \in Callers \ {c} : \A k \in Types : holder[k] = d => (k \in exists' => k \in exists)
  BY DEF Alerts!Commit
<1>5. /\ call' = [call EXCEPT ![c] = [Alerts!Idle EXCEPT !.pc = "over"]] /\ now' = now
      /\ [Alerts!Idle EXCEPT !.pc = "over"] \in CallRecord
      /\ [Alerts!Idle EXCEPT !.pc = "over"].pc = "over"
      /\ Sound([Alerts!Idle EXCEPT !.pc = "over"], c, holder', exists')
      /\ holder' \in [Types -> Callers \cup {Alerts!Never}]
      /\ \A d \in Callers \ {c} : \A k \in Types :
           holder[k] = d => holder'[k] = d /\ (k \in exists' => k \in exists)
  BY <1>0, <1>4, EndsFree
<1> QED BY <1>2, <1>3, <1>5, CallerNext

LEMMA AlertsRollBackNext ==
  ASSUME Numbers, RowsHeld, NEW c \in Callers, Alerts!RollBack(c)
  PROVE  RowsHeld'
<1>1. Alerts!Ends(c) /\ UNCHANGED <<alerted, exists>>
  BY DEF Alerts!RollBack
<1> QED BY <1>1, EndsFree, CallerNext DEF RowsHeld, Alerts!TypeOK

LEMMA RowsHeldNext == ASSUME Numbers PROVE RowsHeld /\ [Alerts!Next]_(Alerts!vars) => RowsHeld'
<1> SUFFICES ASSUME RowsHeld, [Alerts!Next]_(Alerts!vars) PROVE RowsHeld'
  OBVIOUS
<1>1. CASE Alerts!Tick
  BY <1>1 DEF Alerts!Tick, RowsHeld, Alerts!TypeOK, Sound, Alerts!Times, Numbers
<1>2. CASE UNCHANGED Alerts!vars
  BY <1>2 DEF Alerts!vars, RowsHeld, Alerts!TypeOK, Sound
<1> QED BY <1>1, <1>2, ReadNext, CountNext, WriteNext, AlertsCommitNext, AlertsRollBackNext
        DEF Alerts!Next

LEMMA CommittedSpaced ==
  ASSUME RowsHeld, NEW c \in Callers, NEW k \in Types, Alerts!Published(c, k),
         alerted[k] # Alerts!Never
  PROVE  /\ call[c].base[k] # Alerts!Unread
         /\ \/ call[c].first[k] - alerted[k] >= Cooldown
            \/ call[c].base[k] # alerted[k]
<1>1. Sound(call[c], c, holder, exists) /\ k \in exists /\ alerted[k] \in Alerts!Never..MaxNow
  BY DEF RowsHeld, Alerts!TypeOK
<1>2. alerted[k] >= 0
  BY <1>1 DEF Alerts!Never
<1> QED BY <1>1, <1>2 DEF Sound, Alerts!Published

LEMMA OwnSpaced ==
  ASSUME Numbers, RowsHeld, NEW c \in Callers, NEW k \in Types, k = call[c].type,
         Alerts!ShouldAlert(c), Alerts!Published(c, k)
  PROVE  call[c].at - call[c].copy[k] >= Cooldown
<1>1. call[c].copy[k] >= 0
  BY DEF RowsHeld, Sound, Alerts!Published
<1>2. call[c].copy[k] \in Int
  BY CallTyped DEF RowsHeld, CallRecord, Alerts!Copies
<1> QED BY <1>1, <1>2 DEF Alerts!ShouldAlert, Alerts!Due, Alerts!Copy

\* A caller that has alerted a type and not committed holds the type's row, and decided by
\* what its session had (watchdog/anomaly.py), for any cooldown, window and cap.
THEOREM AlertRowsHeld == Spec => []RowsHeld
<1>1. Numbers
  BY NamesAssumption DEF Numbers, Alerts!Never
<1>2. Alerts!Init => RowsHeld
  BY <1>1, RowsHeldInit
<1>3. RowsHeld /\ [Alerts!Next]_(Alerts!vars) => RowsHeld'
  BY <1>1, RowsHeldNext
<1> QED BY <1>2, <1>3, PTL DEF Spec, Alerts!Spec

\* The alerts of a transaction keep the cooldown among themselves, and the first of them to
\* the last committed one, unless that was committed after the session had loaded the row;
\* a type's row is inserted once.  However many anomalies a transaction records.
THEOREM AlertsKeepCooldown == Spec => AlertsSpaced
<1>1. RowsHeld /\ [Alerts!Next]_(Alerts!vars) =>
        [\A c \in Callers : \A k \in Types :
          /\ Alerts!Commit(c) /\ Alerts!Published(c, k) /\ alerted[k] # Alerts!Never =>
               /\ call[c].base[k] # Alerts!Unread
               /\ \/ call[c].first[k] - alerted[k] >= Cooldown
                  \/ call[c].base[k] # alerted[k]
          /\ Alerts!Write(c) /\ k = call[c].type /\ Alerts!ShouldAlert(c)
             /\ Alerts!Published(c, k) => call[c].at - call[c].copy[k] >= Cooldown]_(Alerts!vars)
  <2>1. Numbers
    BY NamesAssumption DEF Numbers, Alerts!Never
  <2> QED BY <2>1, CommittedSpaced, OwnSpaced
<1> QED BY <1>1, AlertRowsHeld, PTL DEF Spec, Alerts!Spec, AlertsSpaced, Alerts!AlertsSpaced

-----------------------------------------------------------------------------
\* Client imports: what an import has in hand, has written and has stored are the same clients.

Strangers == Nobody \notin Imports \cup Clients

InHand(i) == imp[i].pc \in {"save", "insert", "secret", "open", "write", "replace", "ref"}

\* Where an import is: a row in hand is a row of the sheet; what it holds, has pending and has
\* stored a password for are the same clients, the row in hand apart.
Ledger(i) ==
  /\ InHand(i) => Import!Left(i) # {} /\ imp[i].pending = Nobody
  /\ imp[i].pc \in {"new", "over"} => imp[i].wrote = {} /\ imp[i].pending = Nobody
  /\ imp[i].pc = "ref" => Import!Row(i) \in imp[i].wrote
  /\ imp[i].pending # Nobody => imp[i].pending \in imp[i].wrote
  /\ \A c \in Clients : clientHolder[c] = i =>
       \/ c \in imp[i].wrote
       \/ imp[i].pc \in {"secret", "open", "write", "replace"} /\ c = Import!Row(i)
  /\ \A c \in imp[i].wrote :
       clientHolder[c] = i \/ imp[i].pending = c \/ (imp[i].pc = "ref" /\ c = Import!Row(i))

\* A stored password is in the vault, and is the import's own unless clients were torn.
Safe(i) ==
  \A c \in imp[i].wrote : vault.has[c] # Nobody /\ (c \notin torn => vault.has[c] = i)

\* Who writes the vault has it as it is, with its own password, in vault.tmp in the end.
OnFile(i) ==
  /\ Import!Writing(i) => imp[i].copy = [vault.has EXCEPT ![Import!Row(i)] = i]
  /\ imp[i].pc = "write" => imp[i].at = "tmp" /\ tmp.is = "empty"
  /\ imp[i].pc = "replace" => tmp = Import!Whole(imp[i].copy)

\* Until two processes write the vault at a time, one import does.
InPlace ==
  ~clashed =>
    /\ \A i \in Imports : Safe(i) /\ OnFile(i)
    /\ \A i, j \in Imports : Import!Writing(i) /\ Import!Writing(j) => i = j

Kept ==
  /\ Import!TypeOK
  /\ \A i \in Imports : Ledger(i)
  /\ InPlace
  /\ Import!CredentialsMatch

Todos == UNION {[K -> Clients] : K \in SUBSET (1..2)}
ImpRecord ==
  [pc : {"new", "look", "save", "insert", "secret", "open", "write", "replace", "ref", "over"},
   todo : Todos, saw : Imports \cup {Nobody}, pending : Clients \cup {Nobody},
   wrote : SUBSET Clients, copy : Import!Owners, at : {"none", "tmp", "vault", "gone"}]

LEMMA NewTyped == Import!NewImport \in ImpRecord
<1>1. [k \in {} |-> Nobody] \in [{} -> Clients]
  OBVIOUS
<1>2. [k \in {} |-> Nobody] \in Todos
  BY <1>1 DEF Todos
<1> QED BY <1>2 DEF Import!NewImport, ImpRecord, Import!Owners, Import!NoOwners

LEMMA KeptInit == ASSUME Strangers PROVE Import!Init => Kept
<1> SUFFICES ASSUME Import!Init PROVE Kept
  OBVIOUS
<1>1. Import!TypeOK
  BY NewTyped DEF Import!Init, Import!TypeOK, ImpRecord, Todos, Import!Owners, Import!Files,
     Import!Whole, Import!NotThere, Import!NoOwners
<1>2. ASSUME NEW i \in Imports PROVE Ledger(i) /\ Safe(i) /\ OnFile(i) /\ ~Import!Writing(i)
  BY DEF Import!Init, Ledger, Safe, OnFile, Import!NewImport, InHand, Strangers, Import!Writing,
     Import!NoOwners
<1> QED BY <1>1, <1>2 DEF Import!Init, Kept, InPlace, Import!CredentialsMatch, Import!NewImport,
           Import!Whole, Import!NoOwners

LEMMA ImpTyped == ASSUME Import!TypeOK, NEW i \in Imports PROVE imp[i] \in ImpRecord
BY DEF Import!TypeOK, ImpRecord, Todos, Import!Owners

\* The row in hand is the first that is left.
LEMMA RowTyped ==
  ASSUME Import!TypeOK, NEW i \in Imports, Import!Left(i) # {}
  PROVE  Import!First(i) \in Import!Left(i) /\ Import!Row(i) \in Clients
<1>1. PICK K \in SUBSET (1..2) : imp[i].todo \in [K -> Clients]
  BY ImpTyped DEF ImpRecord, Todos
<1>2. Import!Left(i) = K
  BY <1>1 DEF Import!Left
<1>3. \E k \in Import!Left(i) : \A m \in Import!Left(i) : k <= m
  <2>5. \A m \in 1..2 : m = 1 \/ m = 2
    OBVIOUS
  <2>0. \A m \in Import!Left(i) : m = 1 \/ m = 2
    BY <1>2, <2>5
  <2>1. CASE 1 \in Import!Left(i)
    <3>1. \A m \in Import!Left(i) : 1 <= m
      BY <2>0
    <3> QED BY <2>1, <3>1
  <2>2. CASE 1 \notin Import!Left(i)
    <3>1. 2 \in Import!Left(i) /\ \A m \in Import!Left(i) : 2 <= m
      BY <2>0, <2>2
    <3> QED BY <3>1
  <2> QED BY <2>1, <2>2
<1> QED BY <1>1, <1>2, <1>3 DEF Import!First, Import!Row

LEMMA Updated ==
  ASSUME Import!TypeOK, NEW i \in Imports, NEW entry \in ImpRecord,
         imp' = [imp EXCEPT ![i] = entry],
         known' \subseteq Clients, torn' \subseteq Clients, clashed' \in BOOLEAN,
         user' \in Import!Owners, vault' \in Import!Files, tmp' \in Import!Files,
         clientHolder' \in Import!Owners
  PROVE  Import!TypeOK' /\ imp'[i] = entry /\ \A j \in Imports \ {i} : imp'[j] = imp[j]
BY DEF Import!TypeOK, ImpRecord, Todos, Import!Owners

LEMMA SameRow ==
  ASSUME NEW i \in Imports, imp'[i].todo = imp[i].todo
  PROVE  Import!Row(i)' = Import!Row(i) /\ Import!Left(i)' = Import!Left(i)
BY DEF Import!Row, Import!First, Import!Left

\* The other imports keep their ledgers when this one takes and drops only rows of its own.
LEMMA OthersLedgers ==
  ASSUME Kept, NEW i \in Imports, NEW j \in Imports \ {i}, Strangers,
         imp'[j].pc = imp[j].pc, imp'[j].todo = imp[j].todo, imp'[j].wrote = imp[j].wrote,
         imp'[j].pending = imp[j].pending,
         \A c \in Clients : clientHolder'[c] = clientHolder[c]
         \/ (clientHolder[c] \in {i, Nobody} /\ clientHolder'[c] \in {i, Nobody})
  PROVE  Ledger(j)'
<1>1. Import!Row(j)' = Import!Row(j) /\ Import!Left(j)' = Import!Left(j)
  BY SameRow
<1>2. imp[j].wrote \subseteq Clients
  BY ImpTyped DEF Kept, ImpRecord
<1> QED BY <1>1, <1>2 DEF Kept, Ledger, InHand, Strangers

\* A step off the vault leaves it in place.
LEMMA OffVault ==
  ASSUME Kept, NEW i \in Imports, UNCHANGED <<vault, tmp, clashed>>, torn \subseteq torn',
         ~Import!Writing(i)', imp'[i].wrote \subseteq imp[i].wrote,
         \A j \in Imports \ {i} : imp'[j] = imp[j]
  PROVE  InPlace'
<1> SUFFICES ASSUME ~clashed PROVE InPlace'
  BY DEF InPlace
<1>1. ASSUME NEW j \in Imports PROVE Safe(j)'
  BY DEF Kept, InPlace, Safe
<1>2. ASSUME NEW j \in Imports \ {i} PROVE OnFile(j)' /\ (Import!Writing(j)' => Import!Writing(j))
  <2>1. Import!Row(j)' = Import!Row(j)
    BY SameRow
  <2> QED BY <2>1 DEF Kept, InPlace, OnFile, Import!Writing
<1>3. OnFile(i)'
  BY DEF OnFile, Import!Writing
<1> QED BY <1>1, <1>2, <1>3 DEF Kept, InPlace

LEMMA ReportNext == ASSUME Strangers, Kept, NEW i \in Imports, Import!Report(i) PROVE Kept'
<1> DEFINE entry == [imp[i] EXCEPT !.pc = "over"]
<1>1. /\ entry \in ImpRecord /\ entry.pc = "over" /\ entry.wrote = imp[i].wrote
         /\ entry.todo = imp[i].todo
      /\ entry.pending = imp[i].pending /\ imp' = [imp EXCEPT ![i] = entry]
  BY ImpTyped DEF Kept, ImpRecord, Import!Report, Import!Step
<1> HIDE DEF entry
<1>2. Import!TypeOK' /\ imp'[i] = entry /\ \A j \in Imports \ {i} : imp'[j] = imp[j]
  BY <1>1, Updated DEF Kept, Import!TypeOK, Import!Report
<1>3. Ledger(i)'
  BY <1>1, <1>2, SameRow DEF Import!Report, Kept, Ledger, InHand
<1>4. \A j \in Imports \ {i} : Ledger(j)'
  BY <1>2, OthersLedgers DEF Import!Report
<1>5. InPlace'
  BY <1>1, <1>2, OffVault DEF Import!Report, Import!Writing
<1>6. Import!CredentialsMatch'
  BY <1>1, <1>2 DEF Import!Report, Kept, Import!CredentialsMatch
<1> QED BY <1>2, <1>3, <1>4, <1>5, <1>6 DEF Kept

LEMMA CoercedTyped == ASSUME NEW sheet \in Import!Sheets PROVE Import!Coerced(sheet) \in Todos
<1>1. PICK n \in 0..2 : sheet \in [1..n -> Import!SheetRows]
  BY DEF Import!Sheets
<1>2. Import!Filled(sheet) \in SUBSET (1..2)
  BY <1>1 DEF Import!Filled
<1>3. \A k \in Import!Filled(sheet) : sheet[k].client \in Clients
  BY <1>1 DEF Import!Filled, Import!SheetRows
<1>4. Import!Coerced(sheet) \in [Import!Filled(sheet) -> Clients]
  BY <1>3 DEF Import!Coerced, Import!ClientOf
<1> HIDE DEF Import!Filled, Import!Coerced
<1> QED BY <1>2, <1>4 DEF Todos

LEMMA ParseNext ==
  ASSUME Strangers, Kept, NEW i \in Imports, NEW sheet \in Import!Sheets, NEW headed \in BOOLEAN,
         Import!Parse(i, sheet, headed)
  PROVE  Kept'
<1> DEFINE entry == [imp[i] EXCEPT !.pc = "look", !.todo = Import!Coerced(sheet)]
<1>1. /\ entry \in ImpRecord /\ entry.pc = "look" /\ entry.wrote = imp[i].wrote
      /\ entry.pending = imp[i].pending /\ imp' = [imp EXCEPT ![i] = entry]
  BY ImpTyped, CoercedTyped DEF Kept, ImpRecord, Import!Parse
<1> HIDE DEF entry
<1>2. Import!TypeOK' /\ imp'[i] = entry /\ \A j \in Imports \ {i} : imp'[j] = imp[j]
  BY <1>1, Updated DEF Kept, Import!TypeOK, Import!Parse
<1>3. Ledger(i)'
  BY <1>1, <1>2 DEF Import!Parse, Kept, Ledger, InHand
<1>4. \A j \in Imports \ {i} : Ledger(j)'
  BY <1>2, OthersLedgers DEF Import!Parse
<1>5. InPlace'
  BY <1>1, <1>2, OffVault DEF Import!Parse, Import!Writing
<1>6. Import!CredentialsMatch'
  BY <1>1, <1>2 DEF Import!Parse, Kept, Import!CredentialsMatch
<1> QED BY <1>2, <1>3, <1>4, <1>5, <1>6 DEF Kept

LEMMA LookNext == ASSUME Strangers, Kept, NEW i \in Imports, Import!Look(i) PROVE Kept'
<1> DEFINE p == imp[i].pending
<1>0. PICK changed \in BOOLEAN :
        imp' = [imp EXCEPT ![i] = [imp[i] EXCEPT !.pending = Nobody,
                    !.pc = IF changed THEN (IF Import!Row(i) \in known THEN "save" ELSE "insert")
                           ELSE "secret"]]
  BY DEF Import!Look
<1> DEFINE entry == [imp[i] EXCEPT !.pending = Nobody,
                    !.pc = IF changed THEN (IF Import!Row(i) \in known THEN "save" ELSE "insert")
                           ELSE "secret"]
<1>1. /\ entry \in ImpRecord /\ entry.pc \in {"save", "insert", "secret"}
         /\ entry.wrote = imp[i].wrote
      /\ entry.todo = imp[i].todo /\ entry.pending = Nobody /\ imp' = [imp EXCEPT ![i] = entry]
  BY <1>0, ImpTyped DEF Kept, ImpRecord
<1> HIDE DEF entry
<1>7. /\ clientHolder' \in Import!Owners
      /\ \A c \in Clients : clientHolder'[c] = IF c = p THEN i ELSE clientHolder[c]
      /\ p # Nobody => clientHolder[p] \in {i, Nobody}
  BY DEF Import!Look, Import!Flushes, Import!Held, Import!Free, Kept, Import!TypeOK, Import!Owners,
     Strangers
<1>2. Import!TypeOK' /\ imp'[i] = entry /\ \A j \in Imports \ {i} : imp'[j] = imp[j]
  BY <1>1, <1>7, Updated DEF Kept, Import!TypeOK, Import!Look
<1>8. p # Nobody => p \in imp[i].wrote
  BY DEF Kept, Ledger
<1>9. imp[i].wrote \subseteq Clients
  BY ImpTyped DEF Kept, ImpRecord
<1>3. Ledger(i)'
  <2>1. Import!Left(i)' # {} /\ Import!Row(i)' = Import!Row(i)
    BY <1>1, <1>2, SameRow DEF Import!Look
  <2>2. ASSUME NEW c \in Clients, clientHolder'[c] = i
        PROVE  c \in imp'[i].wrote
    <3>1. c = p \/ clientHolder[c] = i
      BY <1>7, <2>2
    <3>2. c \in imp[i].wrote
      BY <1>8, <3>1 DEF Import!Look, Kept, Ledger, Strangers
    <3> QED BY <1>1, <1>2, <3>2
  <2>3. ASSUME NEW c \in imp'[i].wrote PROVE clientHolder'[c] = i
    BY <1>1, <1>2, <1>7, <1>9, <2>3 DEF Import!Look, Kept, Ledger
  <2> QED BY <1>1, <1>2, <2>1, <2>2, <2>3 DEF Ledger, InHand
<1>4. \A j \in Imports \ {i} : Ledger(j)'
  BY <1>2, <1>7, OthersLedgers, Zenon DEF Strangers
<1>5. InPlace'
  BY <1>1, <1>2, OffVault DEF Import!Look, Import!Writing
<1>6. Import!CredentialsMatch'
  BY <1>1, <1>2 DEF Import!Look, Kept, Import!CredentialsMatch
<1> QED BY <1>2, <1>3, <1>4, <1>5, <1>6 DEF Kept

LEMMA SaveClientNext == ASSUME Strangers, Kept, NEW i \in Imports, Import!SaveClient(i) PROVE Kept'
<1> DEFINE entry == [imp[i] EXCEPT !.pc = "secret"]
<1>1. /\ entry \in ImpRecord /\ entry.pc = "secret" /\ entry.wrote = imp[i].wrote
         /\ entry.todo = imp[i].todo
      /\ entry.pending = imp[i].pending /\ imp' = [imp EXCEPT ![i] = entry]
  BY ImpTyped DEF Kept, ImpRecord, Import!SaveClient, Import!Step
<1> HIDE DEF entry
<1>0. Import!Left(i) # {} /\ Import!Row(i) \in Clients /\ imp[i].wrote \subseteq Clients
  BY RowTyped, ImpTyped DEF Import!SaveClient, Kept, Ledger, InHand, ImpRecord
<1>7. /\ clientHolder' \in Import!Owners
      /\ \A c \in Clients : clientHolder'[c] = IF c = Import!Row(i) THEN i ELSE clientHolder[c]
      /\ clientHolder[Import!Row(i)] \in {i, Nobody}
  BY <1>0 DEF Import!SaveClient, Import!Held, Import!Free, Kept, Import!TypeOK, Import!Owners
<1>2. Import!TypeOK' /\ imp'[i] = entry /\ \A j \in Imports \ {i} : imp'[j] = imp[j]
  BY <1>1, <1>7, Updated DEF Kept, Import!TypeOK, Import!SaveClient
<1>3. Ledger(i)'
  BY <1>0, <1>1, <1>2, <1>7, SameRow DEF Import!SaveClient, Kept, Ledger, InHand
<1>4. \A j \in Imports \ {i} : Ledger(j)'
  BY <1>2, <1>7, OthersLedgers
<1>5. InPlace'
  BY <1>1, <1>2, OffVault DEF Import!SaveClient, Import!Writing
<1>6. Import!CredentialsMatch'
  BY <1>1, <1>2 DEF Import!SaveClient, Kept, Import!CredentialsMatch
<1> QED BY <1>2, <1>3, <1>4, <1>5, <1>6 DEF Kept

LEMMA ReadVaultNext == ASSUME Strangers, Kept, NEW i \in Imports, Import!ReadVault(i) PROVE Kept'
<1> DEFINE copy == [vault.has EXCEPT ![Import!Row(i)] = i]
           entry == [imp[i] EXCEPT !.pc = "open", !.copy = copy]
<1>0. copy \in Import!Owners
  BY DEF Kept, Import!TypeOK, Import!Files, Import!Owners
<1>1. /\ entry \in ImpRecord /\ entry.pc = "open" /\ entry.wrote = imp[i].wrote
      /\ entry.todo = imp[i].todo /\ entry.copy = copy
      /\ entry.pending = imp[i].pending /\ imp' = [imp EXCEPT ![i] = entry]
  BY <1>0, ImpTyped DEF Kept, ImpRecord, Import!ReadVault
<1> HIDE DEF entry
<1>2. Import!TypeOK' /\ imp'[i] = entry /\ \A j \in Imports \ {i} : imp'[j] = imp[j]
  <2>1. clashed' \in BOOLEAN
    BY DEF Import!ReadVault, Kept, Import!TypeOK
  <2> QED BY <1>1, <2>1, Updated DEF Kept, Import!TypeOK, Import!ReadVault
<1>3. Ledger(i)'
  BY <1>1, <1>2, SameRow DEF Import!ReadVault, Kept, Ledger, InHand
<1>4. \A j \in Imports \ {i} : Ledger(j)'
  BY <1>2, OthersLedgers DEF Import!ReadVault
<1>5. InPlace'
  <2> SUFFICES ASSUME ~clashed' PROVE InPlace'
    BY DEF InPlace
  <2>1. ~clashed /\ \A j \in Imports : ~Import!Writing(j)
    BY DEF Import!ReadVault
  <2>2. \A j \in Imports \ {i} : OnFile(j)' /\ ~Import!Writing(j)'
    BY <1>2, <2>1 DEF OnFile, Import!Writing
  <2>3. OnFile(i)'
    BY <1>1, <1>2, SameRow DEF OnFile, Import!Writing, Import!ReadVault
  <2>4. \A j \in Imports : Safe(j)'
    BY <1>1, <1>2, <2>1 DEF Kept, InPlace, Safe, Import!ReadVault
  <2> QED BY <2>2, <2>3, <2>4 DEF InPlace
<1>6. Import!CredentialsMatch'
  BY <1>1, <1>2 DEF Import!ReadVault, Kept, Import!CredentialsMatch
<1> QED BY <1>2, <1>3, <1>4, <1>5, <1>6 DEF Kept

LEMMA OpenTmpNext == ASSUME Strangers, Kept, NEW i \in Imports, Import!OpenTmp(i) PROVE Kept'
<1> DEFINE entry == [imp[i] EXCEPT !.pc = "write", !.at = "tmp"]
<1>1. /\ entry \in ImpRecord /\ entry.pc = "write" /\ entry.wrote = imp[i].wrote
      /\ entry.todo = imp[i].todo /\ entry.copy = imp[i].copy /\ entry.at = "tmp"
      /\ entry.pending = imp[i].pending /\ imp' = [imp EXCEPT ![i] = entry]
  BY ImpTyped DEF Kept, ImpRecord, Import!OpenTmp
<1> HIDE DEF entry
<1>7. tmp' \in Import!Files /\ tmp'.is = "empty"
  BY DEF Import!OpenTmp, Import!Truncated, Import!Files, Import!NoOwners, Import!Owners
<1>2. Import!TypeOK' /\ imp'[i] = entry /\ \A j \in Imports \ {i} : imp'[j] = imp[j]
  BY <1>1, <1>7, Updated DEF Kept, Import!TypeOK, Import!OpenTmp
<1>8. Import!Row(i)' = Import!Row(i) /\ Import!Left(i)' = Import!Left(i)
  BY <1>1, <1>2, SameRow
<1>3. Ledger(i)'
  BY <1>1, <1>2, <1>8 DEF Import!OpenTmp, Kept, Ledger, InHand
<1>4. \A j \in Imports \ {i} : Ledger(j)'
  BY <1>2, OthersLedgers DEF Import!OpenTmp
<1>5. InPlace'
  <2> SUFFICES ASSUME ~clashed PROVE InPlace'
    BY DEF InPlace, Import!OpenTmp
  <2>1. Import!Writing(i) /\ \A j \in Imports \ {i} : ~Import!Writing(j)
    BY DEF Import!OpenTmp, Import!Writing, Kept, InPlace
  <2>2. \A j \in Imports \ {i} : OnFile(j)' /\ ~Import!Writing(j)'
    BY <1>2, <2>1 DEF OnFile, Import!Writing
  <2>3. OnFile(i)'
    BY <1>1, <1>2, <1>7, <1>8, <2>1 DEF Kept, InPlace, OnFile, Import!OpenTmp
  <2>4. \A j \in Imports : Safe(j)'
    BY <1>1, <1>2 DEF Kept, InPlace, Safe, Import!OpenTmp
  <2> QED BY <2>2, <2>3, <2>4 DEF InPlace
<1>6. Import!CredentialsMatch'
  BY <1>1, <1>2 DEF Import!OpenTmp, Kept, Import!CredentialsMatch
<1> QED BY <1>2, <1>3, <1>4, <1>5, <1>6 DEF Kept

LEMMA OverFiles ==
  ASSUME NEW f \in Import!Files, NEW p \in Import!Owners, NEW g \in Import!Over(f, p)
  PROVE  g \in Import!Files
BY DEF Import!Over, Import!Files, Import!Whole, Import!NoOwners, Import!Owners

LEMMA WriteTmpNext == ASSUME Strangers, Kept, NEW i \in Imports, Import!WriteTmp(i) PROVE Kept'
<1> DEFINE entry == [imp[i] EXCEPT !.pc = "replace", !.at = "none"]
<1>1. /\ entry \in ImpRecord /\ entry.pc = "replace" /\ entry.wrote = imp[i].wrote
      /\ entry.todo = imp[i].todo /\ entry.copy = imp[i].copy
      /\ entry.pending = imp[i].pending /\ imp' = [imp EXCEPT ![i] = entry]
  BY ImpTyped DEF Kept, ImpRecord, Import!WriteTmp
<1> HIDE DEF entry
<1>7. tmp' \in Import!Files /\ vault' \in Import!Files
  <2>1. imp[i].copy \in Import!Owners
    BY ImpTyped DEF Kept, ImpRecord
  <2> QED BY <2>1, OverFiles DEF Import!WriteTmp, Kept, Import!TypeOK
<1>2. Import!TypeOK' /\ imp'[i] = entry /\ \A j \in Imports \ {i} : imp'[j] = imp[j]
  BY <1>1, <1>7, Updated DEF Kept, Import!TypeOK, Import!WriteTmp
<1>8. Import!Row(i)' = Import!Row(i) /\ Import!Left(i)' = Import!Left(i)
  BY <1>1, <1>2, SameRow
<1>3. Ledger(i)'
  BY <1>1, <1>2, <1>8 DEF Import!WriteTmp, Kept, Ledger, InHand
<1>4. \A j \in Imports \ {i} : Ledger(j)'
  BY <1>2, OthersLedgers DEF Import!WriteTmp
<1>9. ASSUME ~clashed
      PROVE  vault' = vault /\ tmp' = Import!Whole(imp[i].copy)
  BY <1>9 DEF Import!WriteTmp, Kept, InPlace, OnFile, Import!Over
<1>5. InPlace'
  <2> SUFFICES ASSUME ~clashed PROVE InPlace'
    BY DEF InPlace, Import!WriteTmp
  <2>1. Import!Writing(i) /\ \A j \in Imports \ {i} : ~Import!Writing(j)
    BY DEF Import!WriteTmp, Import!Writing, Kept, InPlace
  <2>2. \A j \in Imports \ {i} : OnFile(j)' /\ ~Import!Writing(j)'
    BY <1>2, <2>1 DEF OnFile, Import!Writing
  <2>3. OnFile(i)'
    BY <1>1, <1>2, <1>8, <1>9, <2>1 DEF Kept, InPlace, OnFile, Import!Whole
  <2>4. \A j \in Imports : Safe(j)'
    BY <1>1, <1>2, <1>9 DEF Kept, InPlace, Safe, Import!WriteTmp
  <2> QED BY <2>2, <2>3, <2>4 DEF InPlace
<1>6. Import!CredentialsMatch'
  BY <1>1, <1>2, <1>9 DEF Import!WriteTmp, Kept, Import!CredentialsMatch
<1> QED BY <1>2, <1>3, <1>4, <1>5, <1>6 DEF Kept

\* vault.tmp renamed: by one writer, it is the vault as it was with the row's password.
LEMMA ReplaceNext == ASSUME Strangers, Kept, NEW i \in Imports, Import!Replace(i) PROVE Kept'
<1>0. /\ Import!Left(i) # {} /\ Import!Row(i) \in Clients /\ imp[i].wrote \subseteq Clients
      /\ imp[i].pc = "replace"
  BY RowTyped, ImpTyped DEF Import!Replace, Kept, Ledger, InHand, ImpRecord
<1>1. /\ imp' \in [Imports -> ImpRecord]
      /\ imp'[i] = [imp[i] EXCEPT !.pc = "ref", !.wrote = imp[i].wrote \cup {Import!Row(i)}]
      /\ \A j \in Imports \ {i} : imp'[j] = [imp[j] EXCEPT !.at = Import!Renamed(imp[j].at)]
  <2>1. ASSUME NEW j \in Imports
        PROVE  /\ [imp[i] EXCEPT !.pc = "ref", !.wrote = imp[i].wrote \cup {Import!Row(i)}] \in ImpRecord
               /\ [imp[j] EXCEPT !.at = Import!Renamed(imp[j].at)] \in ImpRecord
    <3>1. imp[i] \in ImpRecord /\ imp[j] \in ImpRecord
      BY ImpTyped DEF Kept
    <3>2. Import!Renamed(imp[j].at) \in {"none", "tmp", "vault", "gone"}
      BY <3>1 DEF Import!Renamed, ImpRecord
    <3> HIDE DEF Import!Renamed
    <3> QED BY <1>0, <3>1, <3>2 DEF ImpRecord
  <2> HIDE DEF Import!Renamed
  <2> QED BY <2>1 DEF Import!Replace, Import!Stores
<1>2. /\ imp'[i].pc = "ref" /\ imp'[i].wrote = imp[i].wrote \cup {Import!Row(i)}
      /\ imp'[i].todo = imp[i].todo /\ imp'[i].pending = imp[i].pending
  BY <1>1, ImpTyped DEF Kept, ImpRecord
<1>3. ASSUME NEW j \in Imports \ {i}
      PROVE  /\ imp'[j].pc = imp[j].pc /\ imp'[j].wrote = imp[j].wrote
             /\ imp'[j].todo = imp[j].todo /\ imp'[j].pending = imp[j].pending
  BY <1>1, ImpTyped DEF Kept, ImpRecord
<1>4. /\ torn \subseteq torn' /\ torn' \subseteq Clients
      /\ Import!Overlaps(i, Import!Row(i)) => Import!Row(i) \in torn'
      /\ UNCHANGED <<known, user, clientHolder, clashed>> /\ vault' = tmp /\ tmp' = Import!NotThere
  BY <1>0 DEF Import!Replace, Import!Stores, Kept, Import!TypeOK
<1>5. Import!TypeOK'
  BY <1>1, <1>4 DEF Kept, Import!TypeOK, ImpRecord, Todos, Import!Files, Import!NotThere,
     Import!NoOwners, Import!Owners
<1>6. Ledger(i)'
  BY <1>0, <1>2, <1>4, SameRow DEF Kept, Ledger, InHand
<1>7. \A j \in Imports \ {i} : Ledger(j)'
  BY <1>3, <1>4, OthersLedgers
<1>8. ASSUME ~clashed
      PROVE  /\ vault' = Import!Whole(vault'.has)
             /\ vault'.has = [vault.has EXCEPT ![Import!Row(i)] = i]
             /\ \A j \in Imports \ {i} : ~Import!Writing(j)
  BY <1>0, <1>4, <1>8 DEF Kept, InPlace, OnFile, Import!Writing, Import!Whole
<1>9. vault.has \in Import!Owners
  BY DEF Kept, Import!TypeOK, Import!Files
<1>10. InPlace'
  <2> SUFFICES ASSUME ~clashed PROVE InPlace'
    BY <1>4 DEF InPlace
  <2>1. \A j \in Imports : OnFile(j)' /\ ~Import!Writing(j)'
    BY <1>2, <1>3, <1>8 DEF OnFile, Import!Writing
  <2>2. Safe(i)'
    BY <1>0, <1>2, <1>4, <1>8, <1>9 DEF Kept, InPlace, Safe, Strangers, Import!Owners
  <2>3. ASSUME NEW j \in Imports \ {i} PROVE Safe(j)'
    <3>1. Import!Row(i) \in imp[j].wrote => Import!Row(i) \in torn'
      BY <1>4 DEF Import!Overlaps, Kept, Ledger
    <3>2. imp[j].wrote \subseteq Clients
      BY ImpTyped DEF Kept, ImpRecord
    <3> QED BY <1>0, <1>3, <1>4, <1>8, <1>9, <3>1, <3>2
            DEF Kept, InPlace, Safe, Strangers, Import!Owners
  <2> QED BY <2>1, <2>2, <2>3 DEF InPlace
<1>11. Import!CredentialsMatch'
  <2> SUFFICES ASSUME ~clashed PROVE Import!CredentialsMatch'
    BY <1>4 DEF Import!CredentialsMatch
  <2>1. vault'.is = "whole"
    BY <1>8 DEF Import!Whole
  <2>2. ASSUME NEW c \in Clients
        PROVE  /\ user[c] # Nobody => vault'.has[c] # Nobody
               /\ c \notin torn' /\ (\A j \in Imports : c \notin imp'[j].wrote) => vault'.has[c] = user[c]
    <3>1. CASE c = Import!Row(i)
      BY <1>2, <1>8, <1>9, <3>1 DEF Strangers, Import!Owners
    <3>2. CASE c # Import!Row(i)
      <4>1. vault'.has[c] = vault.has[c]
        BY <1>8, <1>9, <3>2 DEF Import!Owners
      <4>2. (\A j \in Imports : c \notin imp'[j].wrote) => \A j \in Imports : c \notin imp[j].wrote
        BY <1>2, <1>3
      <4> QED BY <1>4, <4>1, <4>2 DEF Kept, Import!CredentialsMatch
    <3> QED BY <3>1, <3>2
  <2> QED BY <1>4, <2>1, <2>2 DEF Import!CredentialsMatch
<1> QED BY <1>5, <1>6, <1>7, <1>10, <1>11 DEF Kept

LEMMA LoadRefNext == ASSUME Strangers, Kept, NEW i \in Imports, Import!LoadRef(i) PROVE Kept'
<1> DEFINE rest == [k \in Import!Left(i) \ {Import!First(i)} |-> imp[i].todo[k]]
           entry == [imp[i] EXCEPT !.pc = "look", !.saw = user[Import!Row(i)],
                                 !.pending = Import!Row(i), !.todo = rest]
<1>0. Import!Left(i) # {} /\ Import!Row(i) \in Clients /\ imp[i].wrote \subseteq Clients
  BY RowTyped, ImpTyped DEF Import!LoadRef, Kept, Ledger, InHand, ImpRecord
<1>9. rest \in Todos
  <2>1. PICK K \in SUBSET (1..2) : imp[i].todo \in [K -> Clients]
    BY ImpTyped DEF Kept, ImpRecord, Todos
  <2>2. Import!Left(i) \ {Import!First(i)} \in SUBSET (1..2)
        /\ rest \in [Import!Left(i) \ {Import!First(i)} -> Clients]
    BY <2>1 DEF Import!Left
  <2> QED BY <2>2 DEF Todos
<1>8. user[Import!Row(i)] \in Imports \cup {Nobody}
  BY <1>0 DEF Kept, Import!TypeOK, Import!Owners
<1>7. imp' = [imp EXCEPT ![i] = entry]
  BY DEF Import!LoadRef
<1> HIDE DEF rest
<1>1. /\ entry \in ImpRecord /\ entry.pc = "look" /\ entry.wrote = imp[i].wrote
      /\ entry.pending = Import!Row(i)
  BY <1>0, <1>8, <1>9, ImpTyped DEF Kept, ImpRecord
<1> HIDE DEF entry
<1>2. Import!TypeOK' /\ imp'[i] = entry /\ \A j \in Imports \ {i} : imp'[j] = imp[j]
  BY <1>1, <1>7, Updated DEF Kept, Import!TypeOK, Import!LoadRef
<1>3. Ledger(i)'
  <2>1. /\ Import!Row(i) \in imp[i].wrote /\ imp[i].pending = Nobody
        /\ \A c \in Clients : clientHolder[c] = i => c \in imp[i].wrote
        /\ \A c \in imp[i].wrote : clientHolder[c] = i \/ c = Import!Row(i)
    BY <1>0 DEF Import!LoadRef, Kept, Ledger, InHand, Strangers
  <2> QED BY <1>1, <1>2, <2>1 DEF Import!LoadRef, Ledger, InHand
<1>4. \A j \in Imports \ {i} : Ledger(j)'
  BY <1>2, OthersLedgers DEF Import!LoadRef
<1>5. InPlace'
  BY <1>1, <1>2, OffVault DEF Import!LoadRef, Import!Writing
<1>6. Import!CredentialsMatch'
  BY <1>1, <1>2 DEF Import!LoadRef, Kept, Import!CredentialsMatch
<1> QED BY <1>2, <1>3, <1>4, <1>5, <1>6 DEF Kept

LEMMA OverTyped ==
  /\ [Import!NewImport EXCEPT !.pc = "over"] \in ImpRecord
  /\ [Import!NewImport EXCEPT !.pc = "over"].pc = "over"
  /\ [Import!NewImport EXCEPT !.pc = "over"].wrote = {}
  /\ [Import!NewImport EXCEPT !.pc = "over"].pending = Nobody
BY NewTyped DEF Import!NewImport, ImpRecord

LEMMA ImportRollBackNext == ASSUME Strangers, Kept, NEW i \in Imports, Import!RollBack(i)
  PROVE  Kept'
<1> DEFINE entry == [Import!NewImport EXCEPT !.pc = "over"]
<1>1. /\ entry \in ImpRecord /\ entry.pc = "over" /\ entry.wrote = {} /\ entry.pending = Nobody
      /\ imp' = [imp EXCEPT ![i] = entry]
  BY OverTyped DEF Import!RollBack
<1> HIDE DEF entry
<1>0. imp[i].wrote \subseteq Clients
  BY ImpTyped DEF Kept, ImpRecord
<1>7. /\ clientHolder' \in Import!Owners
      /\ \A c \in Clients : clientHolder'[c] = IF clientHolder[c] = i THEN Nobody
           ELSE clientHolder[c]
  BY DEF Import!RollBack, Kept, Import!TypeOK, Import!Owners
<1>2. Import!TypeOK' /\ imp'[i] = entry /\ \A j \in Imports \ {i} : imp'[j] = imp[j]
  BY <1>0, <1>1, <1>7, Updated DEF Kept, Import!TypeOK, Import!RollBack
<1>3. Ledger(i)'
  BY <1>1, <1>2, <1>7 DEF Ledger, InHand, Strangers
<1>4. \A j \in Imports \ {i} : Ledger(j)'
  BY <1>2, <1>7, OthersLedgers
<1>5. InPlace'
  BY <1>1, <1>2, OffVault DEF Import!RollBack, Import!Writing
<1>6. Import!CredentialsMatch'
  BY <1>1, <1>2 DEF Import!RollBack, Kept, Import!CredentialsMatch
<1> QED BY <1>2, <1>3, <1>4, <1>5, <1>6 DEF Kept

LEMMA ImportCommitNext == ASSUME Strangers, Kept, NEW i \in Imports, Import!Commit(i) PROVE Kept'
<1> DEFINE entry == [Import!NewImport EXCEPT !.pc = "over"]
           p == imp[i].pending
           written == Import!Written(i) \cup ({p} \ {Nobody})
<1>1. /\ entry \in ImpRecord /\ entry.pc = "over" /\ entry.wrote = {} /\ entry.pending = Nobody
      /\ imp' = [imp EXCEPT ![i] = entry]
  BY OverTyped DEF Import!Commit
<1> HIDE DEF entry
<1>0. imp[i].wrote \subseteq Clients
  BY ImpTyped DEF Kept, ImpRecord
<1>9. written = imp[i].wrote
  BY <1>0 DEF Import!Commit, Kept, Ledger, Import!Written, Strangers
<1>7. /\ clientHolder' \in Import!Owners
      /\ \A c \in Clients : clientHolder'[c] = IF clientHolder[c] = i THEN Nobody
           ELSE clientHolder[c]
  BY DEF Import!Commit, Kept, Import!TypeOK, Import!Owners
<1>10. /\ known' = known \cup written
       /\ user' = [c \in Clients |-> IF c \in written THEN i ELSE user[c]]
       /\ UNCHANGED <<vault, tmp, torn, clashed>>
  BY DEF Import!Commit
<1> HIDE DEF written
<1>11. user' \in Import!Owners
  BY <1>10 DEF Kept, Import!TypeOK, Import!Owners
<1>2. Import!TypeOK' /\ imp'[i] = entry /\ \A j \in Imports \ {i} : imp'[j] = imp[j]
  BY <1>0, <1>1, <1>7, <1>9, <1>10, <1>11, Updated DEF Kept, Import!TypeOK
<1>3. Ledger(i)'
  BY <1>1, <1>2, <1>7 DEF Ledger, InHand, Strangers
<1>4. \A j \in Imports \ {i} : Ledger(j)'
  BY <1>2, <1>7, OthersLedgers
<1>5. InPlace'
  BY <1>1, <1>2, <1>10, OffVault DEF Import!Writing
<1>6. Import!CredentialsMatch'
  BY <1>1, <1>2, <1>9, <1>10 DEF Kept, Import!CredentialsMatch, InPlace, Safe
<1> QED BY <1>2, <1>3, <1>4, <1>5, <1>6 DEF Kept

LEMMA KeptNext == ASSUME Strangers PROVE Kept /\ [Import!Next]_(Import!vars) => Kept'
<1> SUFFICES ASSUME Kept, [Import!Next]_(Import!vars) PROVE Kept'
  OBVIOUS
<1>1. CASE UNCHANGED Import!vars
  <2>1. \A i \in Imports : Import!Row(i)' = Import!Row(i) /\ Import!Left(i)' = Import!Left(i)
    BY <1>1, SameRow DEF Import!vars
  <2>2. Import!TypeOK' /\ Import!CredentialsMatch' /\ \A i \in Imports : Ledger(i)'
    BY <1>1, <2>1 DEF Import!vars, Kept, Import!TypeOK, Ledger, Import!CredentialsMatch, InHand
  <2>3. InPlace'
    BY <1>1, <2>1 DEF Import!vars, Kept, Safe, InPlace, OnFile, Import!Writing
  <2> QED BY <2>2, <2>3 DEF Kept
<1> QED BY <1>1, ReportNext, ParseNext, LookNext, SaveClientNext, ReadVaultNext, OpenTmpNext,
           WriteTmpNext, ReplaceNext, LoadRefNext, ImportCommitNext, ImportRollBackNext DEF Import!Next

\* Every import keeps its ledger, and what it stored is in the vault until two processes
\* write that at a time (clients/service.py, vault/file_vault.py).
THEOREM LedgersKept == Spec => []Kept
<1>1. Strangers
  BY NamesAssumption DEF Strangers
<1>2. Import!Init => Kept
  BY <1>1, KeptInit
<1>3. Kept /\ [Import!Next]_(Import!vars) => Kept'
  BY <1>1, KeptNext
<1> QED BY <1>2, <1>3, PTL DEF Spec, Import!Spec

\* Until two processes write the vault at a time, it can be read, a client with a credential
\* row has a password in it, and that is the password of the import that wrote the row, unless
\* imports overlapped on the client or were rolled back; for any number of imports and clients,
\* and wherever they were stopped.
THEOREM CredentialsHavePasswords == Spec => []CredentialsMatch
<1>1. Kept => CredentialsMatch
  BY DEF Kept, CredentialsMatch
<1> QED BY <1>1, LedgersKept, PTL

-----------------------------------------------------------------------------
\* A Telegram user: who is to commit has the row for itself.

\* Who is to commit holds the row, unless it changes nothing; who is to insert the row
\* has it for itself.
WritersHold ==
  /\ Operators!TypeOK
  /\ \A t \in Operators!Txs : statusPc[t] = "written" =>
       /\ statusHolder = t \/ (saw[t] = "active" /\ t \notin Disables)
       /\ saw[t] = "none" => status = "none"

LEMMA WritersHoldInit == Operators!Init => WritersHold
BY DEF Operators!Init, WritersHold, Operators!TypeOK, Operators!Statuses

LEMMA WritersHoldNext == ASSUME Nobody \notin Operators!Txs
  PROVE  WritersHold /\ [Operators!Next]_(Operators!vars) => WritersHold'
<1> SUFFICES ASSUME WritersHold, [Operators!Next]_(Operators!vars) PROVE WritersHold'
  OBVIOUS
<1> USE DEF WritersHold, Operators!TypeOK, Operators!Statuses, Operators!Goto, Operators!Released
<1>1. CASE UNCHANGED Operators!vars
  BY <1>1 DEF Operators!vars
<1>2. ASSUME NEW t \in Operators!Txs, Operators!Load(t) PROVE WritersHold'
  BY <1>2 DEF Operators!Load
<1>3. ASSUME NEW t \in Operators!Txs, Operators!Remind(t) PROVE WritersHold'
  BY <1>3 DEF Operators!Remind
<1>4. ASSUME NEW t \in Operators!Txs, Operators!Reject(t) PROVE WritersHold'
  BY <1>4 DEF Operators!Reject
<1>5. ASSUME NEW t \in Operators!Txs, Operators!Unchanged(t) PROVE WritersHold'
  BY <1>5 DEF Operators!Unchanged
<1>6. ASSUME NEW t \in Operators!Txs, Operators!Flush(t) PROVE WritersHold'
  BY <1>6 DEF Operators!Flush
<1>7. ASSUME NEW t \in Operators!Txs, Operators!Commit(t) PROVE WritersHold'
  <2>1. /\ statusPc[t] = "written" /\ statusPc' = [statusPc EXCEPT ![t] = "over"] /\ UNCHANGED saw
        /\ status' = Operators!Commits(t)
           /\ statusHolder' = IF statusHolder = t THEN Nobody ELSE statusHolder
    BY <1>7 DEF Operators!Commit
  <2>2. Operators!TypeOK'
    BY <1>7 DEF Operators!Commit, Operators!Commits, Operators!Asks
  <2>3. ASSUME NEW u \in Operators!Txs \ {t}, statusPc[u] = "written"
        PROVE  /\ statusHolder' = u \/ (saw[u] = "active" /\ u \notin Disables)
               /\ saw[u] = "none" => status' = "none"
    <3>1. CASE statusHolder = u
      BY <2>1, <2>3, <3>1 DEF Operators!Commits, Operators!Asks
    <3>2. CASE statusHolder # u
      BY <2>1, <2>3, <3>2
    <3> QED BY <3>1, <3>2
  <2> QED BY <2>1, <2>2, <2>3
<1>8. ASSUME NEW t \in Operators!Txs, Operators!RollBack(t) PROVE WritersHold'
  BY <1>8 DEF Operators!RollBack
<1> QED BY <1>1, <1>2, <1>3, <1>4, <1>5, <1>6, <1>7, <1>8 DEF Operators!Next

\* Whoever is to commit the user's row holds it, unless it changes nothing
\* (telegram_bot/service.py), for any number of requests, texts and reminders.
THEOREM StatusRowHeld == Spec => []WritersHold
<1>1. Nobody \notin Operators!Txs
  BY NamesAssumption DEF Operators!Txs
<1>2. WritersHold /\ [Operators!Next]_(Operators!vars) => WritersHold'
  BY <1>1, WritersHoldNext
<1> QED BY <1>2, WritersHoldInit, PTL DEF Spec, Operators!Spec

\* A disabled user becomes active only by what found the user disabled, for any number of
\* requests and messages under way.
THEOREM DisabledStays == Spec => DisableHolds
<1>1. WritersHold /\ [Operators!Next]_(Operators!vars) =>
        [(status = "disabled" /\ status' = "active") =>
           \E t \in Operators!Txs : Operators!Commit(t) /\ saw[t] = "disabled"]_(Operators!vars)
  <2> SUFFICES ASSUME WritersHold, Operators!Next, status = "disabled", status' = "active"
               PROVE  \E t \in Operators!Txs : Operators!Commit(t) /\ saw[t] = "disabled"
    OBVIOUS
  <2>1. PICK t \in Operators!Txs : Operators!Commit(t)
    BY DEF Operators!Next, Operators!Load, Operators!Remind, Operators!Reject,
       Operators!Unchanged, Operators!Flush, Operators!RollBack
  <2>2. statusPc[t] = "written" /\ saw[t] \in Operators!Statuses /\ saw[t] \notin {"none", "active"}
    BY <2>1 DEF Operators!Commit, Operators!Commits, Operators!Asks, WritersHold, Operators!TypeOK
  <2> QED BY <2>1, <2>2 DEF Operators!Statuses
<1> QED BY <1>1, StatusRowHeld, PTL DEF Spec, Operators!Spec, DisableHolds, Operators!DisableHolds
=============================================================================
