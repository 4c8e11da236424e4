------------------------ MODULE FairSchedulerProofs ------------------------
(***************************************************************************)
(* The limit FairScheduler.select respects, the order of its turns, and    *)
(* what it returns with, for every load, policy and number of clients.     *)
(***************************************************************************)
EXTENDS FairScheduler, FiniteSetTheorems, TLAPS

\* What the loop has counted: inflight grows with what it takes, what it takes was
\* waiting, and a client it took from is not above its limit.
Counted ==
  /\ perClient \in Nat /\ inflight0 \in [Clients -> Nat] /\ waiting0 \in [Clients -> Nat]
  /\ waiting \in [Clients -> Int] /\ taken \in [Clients -> Nat] /\ inflight \in [Clients -> Nat]
  /\ \A c \in Clients :
       /\ inflight[c] = inflight0[c] + taken[c]
       /\ waiting0[c] = waiting[c] + taken[c] /\ waiting[c] >= 0
       /\ taken[c] > 0 => inflight[c] <= perClient

\* Nothing is taken at the call.
LEMMA CountedInit == Init => Counted
BY SchedulerAssumption DEF Init, Counted

\* One pass of the loop keeps the counts; only Select moves them.
LEMMA CountedNext == Counted /\ [Next]_vars => Counted'
<1> SUFFICES ASSUME Counted, [Next]_vars PROVE Counted'
  OBVIOUS
<1>1. CASE Select
  <2> DEFINE d == Cid
  <2>1. /\ ~(inflight[d] >= perClient) /\ waiting[d] > 0
        /\ waiting' = [waiting EXCEPT ![d] = @ - 1]
        /\ taken' = [taken EXCEPT ![d] = @ + 1]
        /\ inflight' = [inflight EXCEPT ![d] = @ + 1]
        /\ UNCHANGED <<perClient, inflight0, waiting0>>
    BY <1>1 DEF Select, Saturated, input
  <2> HIDE DEF d
  <2>2. /\ waiting' \in [Clients -> Int] /\ taken' \in [Clients -> Nat]
        /\ inflight' \in [Clients -> Nat]
    <3>1. waiting' = [c \in Clients |-> IF c = d THEN waiting[c] - 1 ELSE waiting[c]]
      BY <2>1 DEF Counted
    <3>2. taken' = [c \in Clients |-> IF c = d THEN taken[c] + 1 ELSE taken[c]]
      BY <2>1 DEF Counted
    <3>3. inflight' = [c \in Clients |-> IF c = d THEN inflight[c] + 1 ELSE inflight[c]]
      BY <2>1 DEF Counted
    <3>4. waiting' \in [Clients -> Int]
      BY <3>1 DEF Counted
    <3>5. taken' \in [Clients -> Nat]
      BY <3>2 DEF Counted
    <3>6. inflight' \in [Clients -> Nat]
      BY <3>3 DEF Counted
    <3> QED BY <3>4, <3>5, <3>6
  <2>3. ASSUME NEW c \in Clients
        PROVE  /\ inflight'[c] = inflight0[c] + taken'[c]
               /\ waiting0[c] = waiting'[c] + taken'[c] /\ waiting'[c] >= 0
               /\ taken'[c] > 0 => inflight'[c] <= perClient
    <3>1. CASE c = d
      BY <2>1, <3>1 DEF Counted
    <3>2. CASE c # d
      BY <2>1, <3>2 DEF Counted
    <3> QED BY <3>1, <3>2
  <2> QED BY <2>1, <2>2, <2>3 DEF Counted
<1>2. CASE Skip \/ Remove \/ Return \/ UNCHANGED vars
  BY <1>2 DEF Skip, Remove, Return, vars, input, Counted
<1> QED BY <1>1, <1>2 DEF Next

\* The counts are right whenever the loop is looked at: no job is taken twice or lost.
THEOREM Counting == Spec => []Counted
BY CountedInit, CountedNext, PTL DEF Spec

\* Selection never takes a client beyond the concurrency limit, for any number of clients,
\* any lease rows before the call and any order of the turns.
THEOREM Limit == Spec => []ClientLimit
<1>1. Counted => ClientLimit
  BY DEF Counted, ClientLimit
<1> QED BY <1>1, Counting, PTL

-----------------------------------------------------------------------------
\* The turn: idx % len(client_ids) goes round.

LEMMA Division ==
  ASSUME NEW a \in Nat, NEW n \in Nat \ {0}
  PROVE  a % n \in 0 .. (n - 1) /\ \E q \in Nat : a = n * q + (a % n)
<1> DEFINE q == a \div n
<1>1. a = n * q + (a % n) /\ a % n \in 0 .. (n - 1) /\ q \in Nat
  OBVIOUS
<1> HIDE DEF q
<1> QED BY <1>1

LEMMA NextMultiple ==
  ASSUME NEW n \in Nat \ {0}, NEW p \in Int, NEW q \in Int, p < q
  PROVE  n * p + n <= n * q
<1> DEFINE d == q - p - 1
<1>1. q = p + 1 + d /\ d \in Nat
  OBVIOUS
<1>2. n * q = n * p + n + n * d
  BY <1>1
<1>3. n * d >= 0
  BY <1>1
<1> QED BY <1>2, <1>3

LEMMA OneRemainder ==
  ASSUME NEW n \in Nat \ {0}, NEW p \in Int, NEW q \in Int,
         NEW r \in 0 .. (n - 1), NEW s \in 0 .. (n - 1), n * p + r = n * q + s
  PROVE  r = s
<1>1. n * p \in Int /\ n * q \in Int
  OBVIOUS
<1>2. CASE p < q
  BY <1>1, <1>2, NextMultiple
<1>3. CASE q < p
  BY <1>1, <1>3, NextMultiple
<1>4. CASE p = q
  BY <1>1, <1>4
<1> QED BY <1>2, <1>3, <1>4

LEMMA RemainderIs ==
  ASSUME NEW n \in Nat \ {0}, NEW q \in Nat, NEW r \in 0 .. (n - 1), NEW a \in Nat, a = n * q + r
  PROVE  a % n = r
<1> DEFINE s == a % n
<1>1. s \in 0 .. (n - 1) /\ \E p \in Nat : a = n * p + s
  BY Division
<1> HIDE DEF s
<1>2. PICK p \in Nat : a = n * p + s
  BY <1>1
<1>3. n * p + s = n * q + r /\ p \in Int /\ q \in Int
  BY <1>2
<1>4. s = r
  BY <1>1, <1>3, OneRemainder
<1> QED BY <1>4 DEF s

\* The next turn is the next position, and the first one after the last, although idx is kept
\* modulo Period only.
LEMMA NextTurn ==
  ASSUME NEW n \in Nat \ {0}, NEW P \in Nat \ {0}, P % n = 0, NEW a \in 0 .. (P - 1)
  PROVE  ((a + 1) % P) % n = IF a % n = n - 1 THEN 0 ELSE (a % n) + 1
<1> DEFINE r == a % n
<1>0. a \in Nat /\ a + 1 \in Nat
  OBVIOUS
<1>1. r \in 0 .. (n - 1) /\ \E q \in Nat : a = n * q + r
  BY <1>0, Division
<1>2. PICK m \in Nat : P = n * m
  <2>1. PICK m \in Nat : P = n * m + (P % n)
    BY Division
  <2> QED BY <2>1
<1> HIDE DEF r
<1>6. PICK q \in Nat : a = n * q + r
  BY <1>1
<1>7. r \in Int /\ n * q \in Int /\ n * m \in Int
  BY <1>1
<1>3. 0 % n = 0
  <2>1. 0 = n * 0 + 0 /\ 0 \in 0 .. (n - 1)
    OBVIOUS
  <2> QED BY <2>1, RemainderIs
<1>4. CASE a + 1 = P
  <2>1. (a + 1) % P = 0
    <3>1. a + 1 = P * 1 + 0 /\ 0 \in 0 .. (P - 1)
      BY <1>4
    <3> QED BY <1>0, <3>1, RemainderIs
  <2>2. r = n - 1
    <3>1. n * (m - 1) = n * m - n
      OBVIOUS
    <3>2. n * q + r = n * (m - 1) + (n - 1)
      BY <1>2, <1>4, <1>6, <1>7, <3>1
    <3>3. n - 1 \in 0 .. (n - 1) /\ m - 1 \in Int /\ q \in Int
      OBVIOUS
    <3> QED BY <1>1, <3>2, <3>3, OneRemainder
  <2> QED BY <1>3, <2>1, <2>2 DEF r
<1>5. CASE a + 1 # P
  <2>1. (a + 1) % P = a + 1
    <3>1. a + 1 = P * 0 + (a + 1) /\ a + 1 \in 0 .. (P - 1)
      BY <1>5
    <3> QED BY <1>0, <3>1, RemainderIs
  <2>3. CASE r = n - 1
    <3>1. a + 1 = n * (q + 1) + 0 /\ 0 \in 0 .. (n - 1) /\ q + 1 \in Nat
      <4>1. n * (q + 1) = n * q + n
        OBVIOUS
      <4> QED BY <1>6, <1>7, <2>3, <4>1
    <3> DEFINE b == a + 1
               p == q + 1
    <3>3. b = n * p + 0 /\ 0 \in 0 .. (n - 1) /\ p \in Nat /\ b \in Nat
      BY <1>0, <3>1
    <3> HIDE DEF b, p
    <3>4. b % n = 0
      BY <3>3, RemainderIs
    <3>2. (a + 1) % n = 0
      BY <3>4 DEF b
    <3> QED BY <2>1, <2>3, <3>2 DEF r
  <2>4. CASE r # n - 1
    <3>1. a + 1 = n * q + (r + 1) /\ r + 1 \in 0 .. (n - 1)
      BY <1>1, <1>6, <1>7, <2>4
    <3> DEFINE b == a + 1
               t == r + 1
    <3>3. b = n * q + t /\ t \in 0 .. (n - 1) /\ b \in Nat
      BY <1>0, <3>1
    <3> HIDE DEF b, t
    <3>4. b % n = t
      BY <3>3, RemainderIs
    <3>2. (a + 1) % n = r + 1
      BY <3>4 DEF b, t
    <3> QED BY <2>1, <2>4, <3>2 DEF r
  <2> QED BY <2>3, <2>4
<1> QED BY <1>4, <1>5

-----------------------------------------------------------------------------
\* The rotation holds each client with runnable jobs once, until it is found without any.

Rotating ==
  /\ Len(ids) \in 0 .. NClients /\ ids \in [1 .. Len(ids) -> Clients]
  /\ idx \in 0 .. (Period - 1)
  /\ \A i, j \in 1 .. Len(ids) : ids[i] = ids[j] => i = j
  /\ \A i \in 1 .. Len(ids) : waiting0[ids[i]] > 0

Gone == {c \in Clients : waiting0[c] > 0 /\ ~InRotation(c)}

\* Who left had no job left and was below its limit.
GoneEmpty == \A c \in Gone : waiting[c] = 0 /\ ~Saturated(c)

\* The passes until the turn of position k.
Until(k) ==
  LET at == idx % Len(ids) IN IF k - 1 >= at THEN k - 1 - at ELSE k - 1 - at + Len(ids)

Eligible(c) == ~Saturated(c) /\ waiting[c] > 0

\* A client that is eligible has taken a job at each of its turns: no client is ahead of it
\* but by the turn that it has had in this round, and by one for each removal.
TurnsEven ==
  \A i, j \in 1 .. Len(ids) :
    Eligible(ids[j]) =>
      taken[ids[i]] <= taken[ids[j]] + Cardinality(Gone) + (IF Until(j) < Until(i) THEN 1 ELSE 0)

Turning ==
  /\ Rotating /\ GoneEmpty /\ TurnsEven
  /\ waiting0 \in [Clients -> 0 .. MaxWaiting] /\ cap \in Nat
  /\ pc = "done" => ~Turn

LEMMA GoneFinite == IsFiniteSet(Gone) /\ Cardinality(Gone) \in Nat
<1>1. IsFiniteSet(Clients)
  BY SchedulerAssumption, FS_Interval DEF Clients
<1>2. Gone \in SUBSET Clients
  BY DEF Gone
<1> QED BY <1>1, <1>2, FS_Subset, FS_CardinalityType

LEMMA LenOf == ASSUME NEW n \in Nat, NEW s, NEW S, s \in [1 .. n -> S] PROVE Len(s) = n
OBVIOUS

LEMMA TurningInit == Init => Turning
<1> SUFFICES ASSUME Init PROVE Turning
  OBVIOUS
<1>1. PICK n \in 0 .. NClients : ids \in [1 .. n -> Clients] /\ Sorted(ids)
  BY DEF Init
<1>2. Len(ids) = n
  BY <1>1, LenOf
<1>3. \A i, j \in 1 .. n : i < j => ids[i] < ids[j]
  BY <1>1 DEF Sorted
<1>4. \A i, j \in 1 .. n : ids[i] = ids[j] => i = j
  BY <1>1, <1>3 DEF Clients
<1>5. {ids[i] : i \in 1 .. n} = {c \in Clients : waiting0[c] > 0}
  BY <1>1 DEF Sorted
<1>6. idx \in 0 .. (Period - 1)
  BY SchedulerAssumption DEF Init
<1>7. Rotating
  BY <1>1, <1>2, <1>4, <1>5, <1>6 DEF Rotating
<1>8. GoneEmpty
  BY <1>2, <1>5 DEF GoneEmpty, Gone, InRotation
<1>9. TurnsEven
  BY <1>1, <1>2, GoneFinite DEF TurnsEven, Init
<1> QED BY <1>7, <1>8, <1>9, SchedulerAssumption DEF Turning, Init

\* One pass leaves the rotation alone: the client whose turn it was comes last, the others
\* come nearer.
LEMMA Advanced ==
  ASSUME Rotating, Advance, ids # << >>, ids' = ids
  PROVE  /\ idx' \in 0 .. (Period - 1) /\ Position \in 1 .. Len(ids)
         /\ \A k \in 1 .. Len(ids) :
              IF k = Position THEN Until(k) = 0 /\ Until(k)' = Len(ids) - 1
              ELSE Until(k) \in 1 .. (Len(ids) - 1) /\ Until(k)' = Until(k) - 1
<1> DEFINE n == Len(ids)
           at == idx % n
           next == idx' % n
<1>1. n \in 1 .. NClients
  BY DEF Rotating
<1>2. n \in Nat \ {0} /\ Period % n = 0 /\ Period \in Nat \ {0} /\ idx \in 0 .. (Period - 1)
      /\ idx \in Nat /\ idx + 1 \in Nat
  BY <1>1, SchedulerAssumption DEF Rotating
<1>3. at \in 0 .. (n - 1)
  BY <1>2, Division
<1>4. idx' \in 0 .. (Period - 1)
  BY <1>2, Division DEF Advance
<1>5. next = IF at = n - 1 THEN 0 ELSE at + 1
  BY <1>2, NextTurn DEF Advance
<1>6. \A k \in 1 .. n :
        /\ Until(k) = IF k - 1 >= at THEN k - 1 - at ELSE k - 1 - at + n
        /\ Until(k)' = IF k - 1 >= next THEN k - 1 - next ELSE k - 1 - next + n
  BY DEF Until
<1>7. Position = at + 1
  BY DEF Position
<1> HIDE DEF n, at, next
<1>8. ASSUME NEW k \in 1 .. n, k = Position PROVE Until(k) = 0 /\ Until(k)' = n - 1
  BY <1>1, <1>3, <1>5, <1>6, <1>7, <1>8
<1>9. ASSUME NEW k \in 1 .. n, k # Position
      PROVE  Until(k) \in 1 .. (n - 1) /\ Until(k)' = Until(k) - 1
  <2>1. /\ Until(k) = IF k - 1 >= at THEN k - 1 - at ELSE k - 1 - at + n
        /\ Until(k)' = IF k - 1 >= next THEN k - 1 - next ELSE k - 1 - next + n
        /\ k - 1 # at /\ k \in Int /\ at \in Int /\ n \in Int /\ k >= 1 /\ k <= n
        /\ at >= 0 /\ at <= n - 1
    BY <1>1, <1>3, <1>6, <1>7, <1>9
  <2>2. CASE at = n - 1
    BY <1>5, <2>1, <2>2
  <2>3. CASE at # n - 1
    BY <1>5, <2>1, <2>3
  <2> QED BY <2>2, <2>3
<1> QED BY <1>1, <1>3, <1>4, <1>7, <1>8, <1>9 DEF n

\* A client that is eligible after a pass was eligible before.
LEMMA EligibleBefore ==
  ASSUME Counted, Skip \/ Remove \/ Select, NEW c \in Clients, Eligible(c)'
  PROVE  Eligible(c)
<1>1. CASE Skip \/ Remove
  BY <1>1 DEF Skip, Remove, Eligible, Saturated, input
<1>2. CASE Select
  <2> DEFINE d == Cid
  <2>1. /\ waiting' = [waiting EXCEPT ![d] = @ - 1] /\ inflight' = [inflight EXCEPT ![d] = @ + 1]
        /\ perClient' = perClient
    BY <1>2 DEF Select, input
  <2> HIDE DEF d
  <2>2. waiting'[c] <= waiting[c] /\ inflight'[c] >= inflight[c]
    BY <2>1 DEF Counted
  <2> QED BY <2>1, <2>2 DEF Eligible, Saturated, Counted
<1> QED BY <1>1, <1>2

LEMMA TurningSkip == ASSUME Counted, Turning, Skip PROVE Turning'
<1>1. /\ Rotating /\ Advance /\ ids # << >> /\ Saturated(Cid) /\ pc' = "loop"
      /\ UNCHANGED <<input, waiting, inflight, taken, ids>>
  BY DEF Turning, Skip, Turn
<1>2. Rotating'
  BY <1>1, Advanced DEF Rotating, input
<1>3. Gone' = Gone /\ \A c \in Clients : Saturated(c)' = Saturated(c) /\ Eligible(c)' = Eligible(c)
  BY <1>1 DEF Gone, InRotation, Saturated, Eligible, input
<1>4. GoneEmpty'
  BY <1>1, <1>3 DEF Turning, GoneEmpty, Gone
<1>5. ASSUME NEW i \in 1 .. Len(ids), NEW j \in 1 .. Len(ids), Eligible(ids[j])'
      PROVE  taken[ids[i]] <= taken[ids[j]] + Cardinality(Gone)
                              + (IF Until(j)' < Until(i)' THEN 1 ELSE 0)
  <2>1. ids[i] \in Clients /\ ids[j] \in Clients /\ Eligible(ids[j])
    BY <1>1, <1>3, <1>5 DEF Rotating
  <2>2. j # Position
    BY <1>1, <2>1 DEF Eligible, Cid
  <2>3. taken[ids[i]] <= taken[ids[j]] + Cardinality(Gone) + (IF Until(j) < Until(i) THEN 1 ELSE 0)
    BY <2>1 DEF Turning, TurnsEven
  <2>4. taken[ids[i]] \in Nat /\ taken[ids[j]] \in Nat /\ Cardinality(Gone) \in Nat
    BY <2>1, GoneFinite DEF Counted
  <2>5. Until(j) < Until(i) => Until(j)' < Until(i)'
    BY <1>1, <2>2, Advanced
  <2> QED BY <2>3, <2>4, <2>5
<1>6. TurnsEven'
  BY <1>1, <1>3, <1>5 DEF TurnsEven
<1> QED BY <1>1, <1>2, <1>4, <1>6 DEF Turning, input

LEMMA TurningSelect == ASSUME Counted, Turning, Select PROVE Turning'
<1> DEFINE d == ids[Position]
<1>1. /\ Rotating /\ Advance /\ ids # << >> /\ ~Saturated(d) /\ waiting[d] > 0 /\ pc' = "loop"
      /\ taken' = [taken EXCEPT ![d] = @ + 1]
      /\ waiting' = [waiting EXCEPT ![d] = @ - 1] /\ inflight' = [inflight EXCEPT ![d] = @ + 1]
      /\ UNCHANGED <<input, ids>>
  BY DEF Turning, Select, Turn, Cid
<1>2. Rotating'
  BY <1>1, Advanced DEF Rotating, input
<1>0. Position \in 1 .. Len(ids) /\ d \in Clients /\ InRotation(d)
  BY <1>1, Advanced DEF Rotating, InRotation
<1>3. Gone' = Gone
  BY <1>1 DEF Gone, InRotation, input
<1>4. GoneEmpty'
  <2>1. ASSUME NEW c \in Gone PROVE waiting'[c] = 0 /\ ~Saturated(c)'
    <3>1. c # d /\ c \in Clients
      BY <1>0 DEF Gone
    <3>2. waiting'[c] = waiting[c] /\ inflight'[c] = inflight[c] /\ perClient' = perClient
      BY <1>1, <3>1 DEF Counted, input
    <3> QED BY <3>2 DEF Turning, GoneEmpty, Saturated
  <2> QED BY <1>3, <2>1 DEF GoneEmpty
<1>5. ASSUME NEW i \in 1 .. Len(ids), NEW j \in 1 .. Len(ids), Eligible(ids[j])'
      PROVE  taken'[ids[i]] <= taken'[ids[j]] + Cardinality(Gone)
                               + (IF Until(j)' < Until(i)' THEN 1 ELSE 0)
  <2>1. ids[i] \in Clients /\ ids[j] \in Clients /\ Eligible(ids[j])
    BY <1>1, <1>5, EligibleBefore DEF Rotating
  <2>3. taken[ids[i]] <= taken[ids[j]] + Cardinality(Gone) + (IF Until(j) < Until(i) THEN 1 ELSE 0)
    BY <2>1 DEF Turning, TurnsEven
  <2>4. taken[ids[i]] \in Nat /\ taken[ids[j]] \in Nat /\ Cardinality(Gone) \in Nat
    BY <2>1, GoneFinite DEF Counted
  <2>5. /\ taken'[ids[i]] = IF i = Position THEN taken[ids[i]] + 1 ELSE taken[ids[i]]
        /\ taken'[ids[j]] = IF j = Position THEN taken[ids[j]] + 1 ELSE taken[ids[j]]
    BY <1>0, <1>1, <2>1 DEF Rotating, Counted
  <2>6. CASE i = j
    BY <2>4, <2>5, <2>6
  <2>7. CASE i # j /\ i = Position
    <3>1. Until(i) = 0 /\ Until(j) \in 1 .. (Len(ids) - 1) /\ Until(j)' < Until(i)'
      BY <1>1, <2>7, Advanced
    <3> QED BY <2>3, <2>4, <2>5, <2>7, <3>1
  <2>8. CASE i # j /\ j = Position
    BY <2>3, <2>4, <2>5, <2>8
  <2>9. CASE i # j /\ i # Position /\ j # Position
    <3>1. Until(j) < Until(i) => Until(j)' < Until(i)'
      BY <1>1, <2>9, Advanced
    <3> QED BY <2>3, <2>4, <2>5, <2>9, <3>1
  <2> QED BY <2>6, <2>7, <2>8, <2>9
<1>6. TurnsEven'
  BY <1>1, <1>3, <1>5 DEF TurnsEven
<1> QED BY <1>1, <1>2, <1>4, <1>6 DEF Turning, input

LEMMA TurningRemove == ASSUME Counted, Turning, Remove PROVE Turning'
<1> DEFINE n == Len(ids)
           d == ids[Position]
           old(i) == IF i < Position THEN i ELSE i + 1
<1>1. /\ Rotating /\ Advance /\ ids # << >> /\ ~Saturated(d) /\ waiting[d] = 0 /\ pc' = "loop"
      /\ UNCHANGED <<input, waiting, inflight, taken>>
      /\ ids' = [i \in 1 .. (n - 1) |-> ids[old(i)]]
  BY DEF Turning, Remove, Turn, Cid, Without
<1>2. n \in 1 .. NClients /\ Position \in 1 .. n /\ idx' \in 0 .. (Period - 1)
  <2>1. n \in 1 .. NClients /\ n \in Nat \ {0} /\ Period \in Nat \ {0} /\ idx \in Nat /\ idx + 1 \in Nat
    BY <1>1, SchedulerAssumption DEF Rotating
  <2>2. idx % n \in 0 .. (n - 1)
    BY <2>1, Division
  <2>3. idx' \in 0 .. (Period - 1)
    BY <1>1, <2>1, Division DEF Advance
  <2> QED BY <2>1, <2>2, <2>3 DEF Position
<1>3. \A i \in 1 .. (n - 1) : old(i) \in 1 .. n /\ old(i) # Position
  BY <1>2
<1>4. \A k \in 1 .. n : k # Position => \E i \in 1 .. (n - 1) : old(i) = k
  <2> SUFFICES ASSUME NEW k \in 1 .. n, k # Position
               PROVE  \E i \in 1 .. (n - 1) : old(i) = k
    OBVIOUS
  <2>1. CASE k < Position
    <3>1. k \in 1 .. (n - 1) /\ old(k) = k
      BY <1>2, <2>1
    <3> QED BY <3>1
  <2>2. CASE k > Position
    <3>1. k - 1 \in 1 .. (n - 1) /\ old(k - 1) = k
      BY <1>2, <2>2
    <3> QED BY <3>1
  <2> QED BY <1>2, <2>1, <2>2
<1>5. \A i, j \in 1 .. (n - 1) : old(i) = old(j) => i = j
  BY <1>2
<1>6. ids' \in [1 .. (n - 1) -> Clients] /\ n - 1 \in Nat
  BY <1>1, <1>2, <1>3 DEF Rotating
<1>7. Len(ids)' = n - 1
  BY <1>6, LenOf
<1> HIDE DEF old
<1>8. \A i \in 1 .. (n - 1) : ids'[i] = ids[old(i)]
  BY <1>1
<1>9. Rotating'
  <2>1. ASSUME NEW i \in 1 .. (n - 1), NEW j \in 1 .. (n - 1), ids'[i] = ids'[j] PROVE i = j
    BY <1>1, <1>3, <1>5, <1>8, <2>1 DEF Rotating
  <2>2. ASSUME NEW i \in 1 .. (n - 1) PROVE waiting0'[ids'[i]] > 0
    BY <1>1, <1>3, <1>8 DEF Rotating, input
  <2>3. \A i, j \in 1 .. Len(ids') : ids'[i] = ids'[j] => i = j
    BY <1>7, <2>1
  <2>4. \A i \in 1 .. Len(ids') : waiting0'[ids'[i]] > 0
    BY <1>7, <2>2
  <2>5. Len(ids') \in 0 .. NClients /\ ids' \in [1 .. Len(ids') -> Clients]
    <3> HIDE DEF n
    <3>1. Len(ids') = n - 1
      BY <1>7
    <3> QED BY <1>2, <1>6, <3>1, SchedulerAssumption
  <2> QED BY <1>2, <2>3, <2>4, <2>5 DEF Rotating
<1>10. d \in Clients /\ InRotation(d) /\ waiting0[d] > 0
  BY <1>1, <1>2 DEF Rotating, InRotation
<1>11. \A c \in Clients : InRotation(c)' <=> InRotation(c) /\ c # d
  <2>1. ASSUME NEW c \in Clients, InRotation(c)' PROVE InRotation(c) /\ c # d
    <3>1. PICK i \in 1 .. (n - 1) : ids'[i] = c
      BY <1>7, <2>1 DEF InRotation
    <3> QED BY <1>1, <1>2, <1>3, <1>8, <3>1 DEF InRotation, Rotating
  <2>2. ASSUME NEW c \in Clients, InRotation(c), c # d PROVE InRotation(c)'
    <3>1. PICK k \in 1 .. n : ids[k] = c
      BY <2>2 DEF InRotation
    <3>2. PICK i \in 1 .. (n - 1) : old(i) = k
      BY <1>4, <2>2, <3>1
    <3> QED BY <1>7, <1>8, <3>1, <3>2 DEF InRotation
  <2> QED BY <2>1, <2>2
<1>12. Gone' = Gone \cup {d} /\ d \notin Gone
  BY <1>1, <1>10, <1>11 DEF Gone, input
<1>13. Cardinality(Gone') = Cardinality(Gone) + 1
  BY <1>12, GoneFinite, FS_AddElement
<1>14. GoneEmpty'
  BY <1>1, <1>12 DEF Turning, GoneEmpty, Saturated, input
<1>15. ASSUME NEW i \in 1 .. (n - 1), NEW j \in 1 .. (n - 1), Eligible(ids[j])'
       PROVE  taken'[ids'[i]] <= taken'[ids'[j]] + Cardinality(Gone')
                                 + (IF Until(j)' < Until(i)' THEN 1 ELSE 0)
  <2>1. /\ ids'[i] = ids[old(i)] /\ ids'[j] = ids[old(j)] /\ old(i) \in 1 .. n /\ old(j) \in 1 .. n
        /\ ids[old(i)] \in Clients /\ ids[old(j)] \in Clients
    BY <1>1, <1>3, <1>8 DEF Rotating
  <2>2. Eligible(ids[old(j)])
    BY <1>15, <2>1, EligibleBefore
  <2>3. taken[ids[old(i)]] <= taken[ids[old(j)]] + Cardinality(Gone)
                              + (IF Until(old(j)) < Until(old(i)) THEN 1 ELSE 0)
    BY <2>1, <2>2 DEF Turning, TurnsEven
  <2>4. taken[ids[old(i)]] \in Nat /\ taken[ids[old(j)]] \in Nat /\ Cardinality(Gone) \in Nat
    BY <2>1, GoneFinite DEF Counted
  <2>5. taken[ids[old(i)]] <= taken[ids[old(j)]] + Cardinality(Gone) + 1
    BY <2>3, <2>4
  <2>6. taken'[ids'[i]] <= taken'[ids'[j]] + Cardinality(Gone') /\ taken'[ids'[j]] \in Nat
        /\ taken'[ids'[i]] \in Nat /\ Cardinality(Gone') \in Nat
    <3>1. taken' = taken
      BY <1>1
    <3>2. Cardinality(Gone') \in Nat /\ Cardinality(Gone') = Cardinality(Gone) + 1
      BY <1>13, <2>4
    <3> QED BY <2>1, <2>4, <2>5, <3>1, <3>2
  <2> QED BY <2>6
<1>16. TurnsEven'
  BY <1>7, <1>15 DEF TurnsEven
<1> QED BY <1>1, <1>9, <1>14, <1>16 DEF Turning, input

LEMMA TurningNext == Counted /\ Turning /\ [Next]_vars => Turning'
<1> SUFFICES ASSUME Counted, Turning, [Next]_vars PROVE Turning'
  OBVIOUS
<1>1. CASE Return \/ UNCHANGED vars
  <2>1. UNCHANGED <<input, waiting, inflight, taken, ids, idx>> /\ (pc' = "done" => pc = "done" \/ ~Turn)
    BY <1>1 DEF Return, vars
  <2>2. Rotating' /\ GoneEmpty' /\ waiting0' = waiting0 /\ cap' = cap
    BY <2>1 DEF Turning, Rotating, GoneEmpty, Gone, InRotation, Saturated, input
  <2>3. TurnsEven'
    BY <2>1 DEF Turning, TurnsEven, Gone, InRotation, Saturated, Eligible, Until, input
  <2>4. Turn' = Turn
    BY <2>1 DEF Turn, Selected, JobsOf, input
  <2> QED BY <2>1, <2>2, <2>3, <2>4 DEF Turning
<1> QED BY <1>1, TurningSkip, TurningSelect, TurningRemove DEF Next

\* Round robin, for any number of clients, load and policy: of two clients still eligible, one
\* is ahead by at most one job and one more for each client that left the rotation.
THEOREM RoundRobin == Spec => []FairTurns
<1>1. Counted /\ Turning => FairTurns
  <2> SUFFICES ASSUME Counted, Turning, NEW c \in Clients, NEW d \in Clients,
                      InRotation(c), InRotation(d), ~Saturated(d), waiting[d] > 0
               PROVE  taken[c] <= taken[d] + 1 + Cardinality(Gone)
    BY DEF FairTurns, Gone
  <2>1. PICK i \in 1 .. Len(ids) : ids[i] = c
    BY DEF InRotation
  <2>2. PICK j \in 1 .. Len(ids) : ids[j] = d
    BY DEF InRotation
  <2>3. taken[c] <= taken[d] + Cardinality(Gone) + (IF Until(j) < Until(i) THEN 1 ELSE 0)
    BY <2>1, <2>2 DEF Turning, TurnsEven, Eligible
  <2>4. taken[c] \in Nat /\ taken[d] \in Nat /\ Cardinality(Gone) \in Nat
    BY GoneFinite DEF Counted
  <2> QED BY <2>3, <2>4
<1> QED BY <1>1, TurningInit, TurningNext, Counting, PTL DEF Spec

-----------------------------------------------------------------------------
\* What is taken fits.
LEMMA TakenFits ==
  ASSUME Counted, NEW c \in Clients PROVE taken[c] <= Fits(c) /\ Fits(c) \in Nat
BY DEF Counted, Fits

LEMMA JobsFinite == ASSUME NEW number PROVE IsFiniteSet(JobsOf(number))
<1>1. MaxWaiting \in Nat /\ NClients \in Nat
  BY SchedulerAssumption
<1>2. IsFiniteSet(Clients) /\ IsFiniteSet(1 .. MaxWaiting)
  BY <1>1, FS_Interval DEF Clients
<1>3. IsFiniteSet(Clients \X (1 .. MaxWaiting))
  BY <1>2, FS_Product
<1>4. JobsOf(number) \in SUBSET (Clients \X (1 .. MaxWaiting))
  BY DEF JobsOf
<1> QED BY <1>3, <1>4, FS_Subset

\* select returns only when the cap stops it or when no client with runnable jobs reaches its
\* limit, and in the second case with every runnable job: the condition whose negation makes
\* the watchdog's tick diverge is exact in this direction, for every load and policy.
THEOREM ReturnCondition == Spec => []ReturnsOnlyWhen
<1>1. Counted /\ Turning => ReturnsOnlyWhen
  <2> SUFFICES ASSUME Counted, Turning, pc = "done"
               PROVE  CanReturn /\ (Selected < cap => \A c \in Clients : taken[c] = Fits(c))
    BY DEF ReturnsOnlyWhen
  <2> DEFINE fits == [c \in Clients |-> Fits(c)]
  <2>0. Selected \in Nat /\ Cardinality(JobsOf(fits)) \in Nat /\ cap \in Nat
    BY JobsFinite, FS_CardinalityType DEF Selected, Turning
  <2>1. CASE Selected >= cap
    <3>1. JobsOf(taken) \in SUBSET JobsOf(fits)
      <4> SUFFICES ASSUME NEW p \in Clients \X (1 .. MaxWaiting), p[2] <= taken[p[1]]
                   PROVE  p[2] <= fits[p[1]]
        BY DEF JobsOf
      <4>1. p[1] \in Clients /\ p[2] \in Int
        OBVIOUS
      <4>2. taken[p[1]] \in Nat
        BY <4>1 DEF Counted
      <4> QED BY <4>1, <4>2, TakenFits
    <3>2. Cardinality(JobsOf(taken)) <= Cardinality(JobsOf(fits))
      BY <3>1, JobsFinite, FS_Subset
    <3> QED BY <2>0, <2>1, <3>2 DEF CanReturn, Selected
  <2>2. CASE Selected < cap
    <3>1. \A c \in Clients : ~InRotation(c)
      <4>1. ids = << >>
        BY <2>2 DEF Turning, Turn
      <4> QED BY <4>1 DEF InRotation
    <3>2. ASSUME NEW c \in Clients
          PROVE  /\ waiting0[c] > 0 => inflight0[c] + waiting0[c] < perClient
                 /\ taken[c] = Fits(c)
      <4>1. CASE waiting0[c] > 0
        <5>1. waiting[c] = 0 /\ ~Saturated(c)
          BY <3>1, <4>1 DEF Turning, GoneEmpty, Gone
        <5> QED BY <4>1, <5>1 DEF Counted, Saturated, Fits
      <4>2. CASE ~(waiting0[c] > 0)
        BY <4>2 DEF Counted, Fits
      <4> QED BY <4>1, <4>2
    <3> QED BY <3>2 DEF CanReturn
  <2> QED BY <2>0, <2>1, <2>2
<1> QED BY <1>1, TurningInit, TurningNext, Counting, PTL DEF Spec
=============================================================================
