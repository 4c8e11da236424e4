------------------------- MODULE CaptchaRelayProofs -------------------------
(***************************************************************************)
(* An approved captcha was typed from its own answer, and a handler waits  *)
(* past its timeout only for what its process was held up and for the one  *)
(* default wait of a timeout reached between two readings of the clock;    *)
(* for any number of logins, handlers and texts and any timeout.           *)
(***************************************************************************)
EXTENDS CaptchaRelay, TLAPS

\* Checkpoints of logins and of handlers are different ones; the waits are of some length.
Setting ==
  /\ Logins \cap Handlers = {} /\ Nothing \notin Texts \cup Checkpoints
  /\ Timeout \in Nat /\ Slice \in Nat \ {0}

\* How long a handler may have waited, as things are.
Limit(h) == 2 * Timeout + 1 + held[h] + (IF ReachedBetweenReadings(h) THEN 2 * Default ELSE 0)

\* What a handler has typed, or is about to type, was on its own list, which only answers
\* to its own captcha reach; while it pops, the pop ends in time.
HandlerSound(h) ==
  /\ \A i \in 1..Len(list[h]) : meant[list[h][i]] = h
  /\ pc[h] = "type" => text[h] \in Texts \ empty /\ meant[text[h]] = h
  /\ \A x \in typed[h] : meant[x] = h /\ x \notin empty
  /\ pc[h] = "approve" \/ row[h] = "approved" => typed[h] # {}
  /\ told[h] = "handled" => row[h] = "approved" /\ pc[h] = "over"
  /\ elapsed[h] <= Limit(h)
  /\ pc[h] = "turn" => elapsed[h] < 2 * Timeout + held[h]
  /\ pc[h] = "pop" => till[h] <= Limit(h)

IndInv == TypeOK /\ \A h \in Handlers : HandlerSound(h)

LEMMA LimitTyped ==
  ASSUME Setting, NEW h \in Handlers, held[h] \in Nat
  PROVE  Limit(h) \in Nat /\ Limit(h) >= 2 * Timeout + 1 + held[h]
BY DEF Limit, Default, Least, Setting

LEMMA IndInvInit == ASSUME Setting PROVE Init => IndInv
<1> SUFFICES ASSUME Init PROVE IndInv
  OBVIOUS
<1>1. TypeOK
  BY DEF Init, TypeOK, HandlerStates
<1>2. ASSUME NEW h \in Handlers PROVE HandlerSound(h)
  <2>1. h \in Checkpoints
    BY DEF Checkpoints
  <2>2. elapsed[h] = 0 /\ held[h] = 0
    BY DEF Init
  <2>3. elapsed[h] <= Limit(h)
    BY <2>2, LimitTyped DEF Setting
  <2> QED BY <2>1, <2>3 DEF Init, HandlerSound, Setting
<1> QED BY <1>1, <1>2 DEF IndInv

\* The file of the captures and the logins touch no list and no handler.
LEMMA LoginKeeps ==
  ASSUME Setting, IndInv, NEW l \in Logins, LoginMeetsCaptcha(l) \/ LoginCaptures(l) \/ LoginEnds(l)
  PROVE  IndInv'
<1>1. UNCHANGED <<list, meant, empty, pc, row, elapsed, held, asked, till, text, typed, told>>
  BY DEF LoginMeetsCaptcha, LoginCaptures, LoginEnds, textVars, handlerVars
<1>2. file' \in [names : Logins \cup {Nothing}, waiting : BOOLEAN]
  <2>1. file \in [names : Logins \cup {Nothing}, waiting : BOOLEAN]
    BY DEF IndInv, TypeOK
  <2>2. UNCHANGED file \/ \E w \in BOOLEAN : file' = [names |-> l, waiting |-> w]
    BY DEF LoginMeetsCaptcha, LoginCaptures, LoginEnds, Capture
  <2> QED BY <2>1, <2>2
<1>3. login' \in [Logins -> {"idle", "captcha", "over"}]
  BY DEF IndInv, TypeOK, LoginMeetsCaptcha, LoginCaptures, LoginEnds
<1>4. TypeOK'
  BY <1>1, <1>2, <1>3 DEF IndInv, TypeOK
<1>5. ASSUME NEW h \in Handlers PROVE HandlerSound(h)'
  BY <1>1 DEF IndInv, HandlerSound, Limit, ReachedBetweenReadings
<1> QED BY <1>4, <1>5 DEF IndInv

\* A list that an answer is put on, or nothing.
LEMMA EnqueueKeeps ==
  ASSUME Setting, IndInv, NEW x \in Texts, NEW c \in Checkpoints, NEW d \in Checkpoints,
         Sends(x, c), Enqueue(d, x) \/ UNCHANGED list, d \in Handlers => d = c,
         UNCHANGED <<empty, fileVars, handlerVars>>
  PROVE  IndInv'
<1>t. TypeOK /\ list \in [Checkpoints -> Seq(Texts)] /\ meant \in [Texts -> Checkpoints \cup {Nothing}]
  BY DEF IndInv, TypeOK
<1>m. /\ meant[x] = Nothing /\ meant' = [meant EXCEPT ![x] = c]
      /\ \A y \in Texts : meant[y] # Nothing => meant'[y] = meant[y]
  BY <1>t DEF Sends
<1>1. /\ list' \in [Checkpoints -> Seq(Texts)]
      /\ \A e \in Checkpoints : list'[e] = list[e] \/ (e = d /\ list'[e] = Append(list[e], x))
  <2>1. CASE UNCHANGED list
    BY <2>1, <1>t
  <2>2. CASE Enqueue(d, x)
    <3>1. list[d] \in Seq(Texts) /\ Append(list[d], x) \in Seq(Texts)
      BY <1>t
    <3>2. list' = [list EXCEPT ![d] = Append(list[d], x)]
      BY <2>2 DEF Enqueue
    <3> QED BY <1>t, <3>1, <3>2
  <2> QED BY <2>1, <2>2
<1>2. TypeOK'
  BY <1>t, <1>m, <1>1 DEF TypeOK, fileVars, handlerVars
<1>3. ASSUME NEW h \in Handlers PROVE HandlerSound(h)'
  <2>0. h \in Checkpoints /\ h # Nothing /\ HandlerSound(h)
    BY DEF Checkpoints, IndInv, Setting
  <2>1. ASSUME NEW i \in 1..Len(list'[h]) PROVE meant'[list'[h][i]] = h
    <3>1. list[h] \in Seq(Texts)
      BY <2>0, <1>t
    <3>2. ASSUME NEW k \in 1..Len(list[h]) PROVE list[h][k] \in Texts /\ meant'[list[h][k]] = h
      BY <3>1, <2>0, <1>m DEF HandlerSound
    <3>3. CASE list'[h] = list[h]
      BY <3>2, <3>3
    <3>4. CASE h = d /\ list'[h] = Append(list[h], x)
      <4>1. meant'[x] = h
        BY <3>4, <1>m, <1>t
      <4>2. \/ i \in 1..Len(list[h]) /\ list'[h][i] = list[h][i]
            \/ list'[h][i] = x
        BY <3>1, <3>4
      <4> QED BY <4>1, <4>2, <3>2
    <3> QED BY <3>3, <3>4, <2>0, <1>1
  <2>2. typed[h] \subseteq Texts
    BY <1>t DEF TypeOK
  <2>3. pc[h] = "type" => text[h] \in Texts \ empty /\ meant'[text[h]] = h
    BY <2>0, <1>m DEF HandlerSound
  <2>4. \A y \in typed[h] : meant'[y] = h /\ y \notin empty
    BY <2>0, <2>2, <1>m DEF HandlerSound
  <2> QED BY <2>0, <2>1, <2>3, <2>4 DEF HandlerSound, Limit, ReachedBetweenReadings, handlerVars
<1> QED BY <1>2, <1>3 DEF IndInv

\* What the bot routes goes to a login's list.
LEMMA TextKeeps ==
  ASSUME Setting, IndInv, NEW x \in Texts,
         \/ \E c \in Logins : BotRoutes(x, c) \/ BotAnswers(x, c)
         \/ \E h \in Handlers : Respond(x, h)
  PROVE  IndInv'
<1>1. ASSUME NEW c \in Logins, BotRoutes(x, c) \/ BotAnswers(x, c) PROVE IndInv'
  <2>0. c \in Checkpoints /\ c \notin Handlers
    BY DEF Checkpoints, Setting
  <2>1. CASE UNCHANGED list
    BY <1>1, <2>0, <2>1, EnqueueKeeps DEF BotRoutes, BotAnswers
  <2>2. CASE file.names # Nothing /\ Enqueue(file.names, x)
    <3>1. file.names \in Logins
      BY <2>2 DEF IndInv, TypeOK
    <3>2. file.names \in Checkpoints /\ file.names \notin Handlers
      BY <3>1 DEF Checkpoints, Setting
    <3>3. Sends(x, c) /\ UNCHANGED <<empty, fileVars, handlerVars>>
      BY <1>1 DEF BotRoutes, BotAnswers
    <3> QED BY <2>0, <2>2, <3>2, <3>3, EnqueueKeeps
  <2> QED BY <1>1, <2>1, <2>2 DEF BotRoutes, BotAnswers
<1>2. ASSUME NEW h \in Handlers, Respond(x, h) PROVE IndInv'
  <2>1. h \in Checkpoints
    BY DEF Checkpoints
  <2> QED BY <1>2, <2>1, EnqueueKeeps DEF Respond
<1> QED BY <1>1, <1>2

LEMMA EmptyTyped == <<>> \in Seq(Texts)
OBVIOUS

LEMMA ListTyped ==
  ASSUME NEW f \in [Checkpoints -> Seq(Texts)], NEW c \in Checkpoints, NEW s \in Seq(Texts)
  PROVE  [f EXCEPT ![c] = s] \in [Checkpoints -> Seq(Texts)]
OBVIOUS

LEMMA ExpireKeeps ==
  ASSUME Setting, IndInv, NEW c \in Checkpoints, Expire(c)
  PROVE  IndInv'
<1>1. list' = [list EXCEPT ![c] = <<>>] /\ UNCHANGED <<meant, empty, fileVars, handlerVars>>
  BY DEF Expire
<1>2. TypeOK'
  <2>1. list \in [Checkpoints -> Seq(Texts)]
    BY DEF IndInv, TypeOK
  <2>2. list' \in [Checkpoints -> Seq(Texts)]
    BY <1>1, <2>1, ListTyped, EmptyTyped
  <2> QED BY <1>1, <2>2 DEF IndInv, TypeOK, fileVars, handlerVars
<1>3. ASSUME NEW h \in Handlers PROVE HandlerSound(h)'
  <2>1. h \in Checkpoints /\ HandlerSound(h) /\ list \in [Checkpoints -> Seq(Texts)]
    BY DEF Checkpoints, IndInv, TypeOK
  <2>2. list'[h] = list[h] \/ list'[h] = <<>>
    BY <1>1, <2>1
  <2> QED BY <1>1, <2>1, <2>2 DEF HandlerSound, Limit, ReachedBetweenReadings, handlerVars
<1> QED BY <1>2, <1>3 DEF IndInv

-----------------------------------------------------------------------------
\* A step of one handler: its own entries alone; of its list it only takes the head.
Own(h) ==
  /\ UNCHANGED <<file, login, meant, empty>>
  /\ \A k \in Handlers \ {h} :
       /\ pc'[k] = pc[k] /\ row'[k] = row[k] /\ elapsed'[k] = elapsed[k]
       /\ held'[k] = held[k] /\ asked'[k] = asked[k] /\ till'[k] = till[k]
       /\ text'[k] = text[k] /\ typed'[k] = typed[k] /\ told'[k] = told[k]
  /\ \/ UNCHANGED list
     \/ list[h] # <<>> /\ list' = [list EXCEPT ![h] = Tail(@)]

HandlerTyped ==
  /\ pc \in [Handlers -> HandlerStates] /\ row \in [Handlers -> {"none", "approved", "rejected"}]
  /\ elapsed \in [Handlers -> Nat] /\ held \in [Handlers -> Nat]
  /\ asked \in [Handlers -> Nat] /\ till \in [Handlers -> Nat]
  /\ text \in [Handlers -> Texts \cup {Nothing}]
  /\ typed \in [Handlers -> SUBSET Texts]
  /\ told \in [Handlers -> {"nothing", "handled", "not handled"}]

\* Such a step keeps the invariant if it keeps its own handler's part of it.
LEMMA OwnKeeps ==
  ASSUME Setting, IndInv, NEW h \in Handlers, Own(h), HandlerTyped', HandlerSound(h)'
  PROVE  IndInv'
<1>1. list \in [Checkpoints -> Seq(Texts)] /\ h \in Checkpoints
  BY DEF IndInv, TypeOK, Checkpoints
<1>2. list' \in [Checkpoints -> Seq(Texts)] /\ \A k \in Checkpoints \ {h} : list'[k] = list[k]
  <2>1. CASE UNCHANGED list
    BY <1>1, <2>1
  <2>2. CASE list[h] # <<>> /\ list' = [list EXCEPT ![h] = Tail(@)]
    <3>1. list[h] \in Seq(Texts) /\ Tail(list[h]) \in Seq(Texts)
      BY <1>1, <2>2
    <3> QED BY <1>1, <2>2, <3>1
  <2> QED BY <2>1, <2>2 DEF Own
<1>3. TypeOK'
  BY <1>2 DEF IndInv, TypeOK, Own, HandlerTyped
<1>4. ASSUME NEW k \in Handlers \ {h} PROVE HandlerSound(k)'
  <2>1. k \in Checkpoints /\ HandlerSound(k)
    BY DEF IndInv, Checkpoints
  <2> QED BY <1>2, <2>1 DEF HandlerSound, Limit, ReachedBetweenReadings, Own
<1> QED BY <1>3, <1>4 DEF IndInv

LEMMA TailElements ==
  ASSUME NEW s \in Seq(Texts), s # <<>>, NEW i \in 1..Len(Tail(s))
  PROVE  i + 1 \in 1..Len(s) /\ Tail(s)[i] = s[i + 1]
OBVIOUS

\* The tail of a handler's list is as good as the list, and so is its head.
LEMMA ListSound ==
  ASSUME Setting, IndInv, NEW h \in Handlers, meant' = meant,
         UNCHANGED list \/ (list[h] # <<>> /\ list' = [list EXCEPT ![h] = Tail(@)])
  PROVE  /\ \A i \in 1..Len(list'[h]) : meant'[list'[h][i]] = h
         /\ list[h] # <<>> => Head(list[h]) \in Texts /\ meant[Head(list[h])] = h
<1>1. /\ list \in [Checkpoints -> Seq(Texts)] /\ h \in Checkpoints
      /\ \A i \in 1..Len(list[h]) : meant[list[h][i]] = h
  BY DEF IndInv, TypeOK, Checkpoints, HandlerSound
<1>2. list[h] \in Seq(Texts)
  BY <1>1
<1>3. list[h] # <<>> => Head(list[h]) \in Texts /\ meant[Head(list[h])] = h
  <2> SUFFICES ASSUME list[h] # <<>> PROVE Head(list[h]) \in Texts /\ meant[Head(list[h])] = h
    OBVIOUS
  <2>1. 1 \in 1..Len(list[h]) /\ Head(list[h]) = list[h][1] /\ list[h][1] \in Texts
    BY <1>2
  <2> QED BY <1>1, <2>1
<1>4. \A i \in 1..Len(list'[h]) : meant'[list'[h][i]] = h
  <2>1. CASE UNCHANGED list
    BY <1>1, <2>1
  <2>2. CASE list[h] # <<>> /\ list' = [list EXCEPT ![h] = Tail(@)]
    <3> SUFFICES ASSUME NEW i \in 1..Len(list'[h]) PROVE meant[list'[h][i]] = h
      OBVIOUS
    <3>1. list'[h] = Tail(list[h])
      BY <1>1, <2>2
    <3>2. i + 1 \in 1..Len(list[h]) /\ Tail(list[h])[i] = list[h][i + 1]
      BY <1>2, <2>2, <3>1, TailElements
    <3> QED BY <1>1, <3>1, <3>2
  <2> QED BY <2>1, <2>2
<1> QED BY <1>3, <1>4

\* Where a handler only goes on to a place that asks nothing.
LEMMA GotoKeeps ==
  ASSUME Setting, IndInv, NEW h \in Handlers, pc[h] # "over",
         NEW label \in {"image", "ask", "wait", "reject", "over"}, Goto(h, label),
         UNCHANGED <<row, elapsed, held, asked, till, text, typed, told, fileVars, meant, empty>>,
         UNCHANGED list \/ (list[h] # <<>> /\ list' = [list EXCEPT ![h] = Tail(@)])
  PROVE  IndInv'
<1>t. HandlerTyped /\ HandlerSound(h)
  BY DEF IndInv, TypeOK, HandlerTyped
<1>1. /\ pc' = [pc EXCEPT ![h] = label]
      /\ UNCHANGED <<row, elapsed, held, asked, till, text, typed, told, file, login, meant, empty>>
  BY DEF Goto, fileVars
<1>2. HandlerTyped'
  BY <1>t, <1>1 DEF HandlerTyped, HandlerStates
<1>3. Own(h)
  BY <1>1, <1>t DEF Own, HandlerTyped
<1>4. pc'[h] = label
  BY <1>1, <1>t DEF HandlerTyped
<1>5. HandlerSound(h)'
  BY <1>t, <1>1, <1>4, ListSound DEF HandlerSound, Limit, ReachedBetweenReadings
<1> QED BY <1>2, <1>3, <1>5, OwnKeeps

HandlerStep(h) ==
  \/ NoCaptcha(h) \/ MeetCaptcha(h) \/ TakeImage(h) \/ Ask(h)
  \/ StayInLoop(h) \/ StartPop(h) \/ PopRefused(h) \/ TimePasses(h) \/ HeldUp(h)
  \/ PopNothing(h) \/ PopAnswer(h) \/ WaitTimesOut(h) \/ Inject(h) \/ Resolve(h) \/ Dies(h)

LEMMA Counted ==
  ASSUME NEW f \in [Handlers -> Nat], NEW h \in Handlers
  PROVE  /\ [f EXCEPT ![h] = @ + 1] \in [Handlers -> Nat]
         /\ [f EXCEPT ![h] = @ + 1][h] = f[h] + 1
         /\ \A k \in Handlers \ {h} : [f EXCEPT ![h] = @ + 1][k] = f[k]
OBVIOUS

\* A pop ends within the limit that holds once its clock was read: either a second and more
\* is left, or what is left is 0 and the default is waited.
LEMMA PopInTime ==
  ASSUME Setting, NEW h \in Handlers, elapsed[h] \in Nat, held[h] \in Nat,
         elapsed[h] < 2 * Timeout + held[h], Patience(h) >= 0
  PROVE  /\ PopTimeout(h) \in Nat
         /\ elapsed[h] + 2 * PopTimeout(h) <= 2 * Timeout + 1 + held[h]
              + (IF elapsed[h] \div 2 = Timeout THEN 2 * Default ELSE 0)
<1>1. /\ Seconds(h) \in Nat /\ elapsed[h] <= 2 * Seconds(h) + 1
      /\ Seconds(h) = elapsed[h] \div 2
  BY DEF Seconds, Setting
<1>2. Default \in Nat
  BY DEF Default, Least, Setting
<1>3. CASE Patience(h) = 0
  <2>1. Seconds(h) = Timeout
    BY <1>1, <1>3 DEF Patience, Least, Setting
  <2>2. PopTimeout(h) = Default
    BY <1>3 DEF PopTimeout
  <2> QED BY <1>1, <1>2, <2>1, <2>2 DEF Setting
<1>4. CASE Patience(h) # 0
  <2>1. Patience(h) \in Nat \ {0} /\ Patience(h) <= Timeout - Seconds(h)
    BY <1>1, <1>4 DEF Patience, Least, Setting
  <2>2. PopTimeout(h) \in Nat /\ PopTimeout(h) <= Patience(h)
    BY <1>4, <2>1 DEF PopTimeout, Least
  <2>3. elapsed[h] + 2 * PopTimeout(h) <= 2 * Timeout + 1
    BY <1>1, <2>1, <2>2 DEF Setting
  <2> QED BY <1>2, <2>2, <2>3 DEF Setting
<1> QED BY <1>3, <1>4

LEMMA HandlerKeeps ==
  ASSUME Setting, IndInv, NEW h \in Handlers, HandlerStep(h)
  PROVE  IndInv'
<1>t. HandlerTyped /\ HandlerSound(h) /\ TypeOK
  BY DEF IndInv, TypeOK, HandlerTyped
<1>0. elapsed[h] \in Nat /\ held[h] \in Nat /\ till[h] \in Nat /\ Limit(h) \in Nat
  <2>1. elapsed[h] \in Nat /\ held[h] \in Nat /\ till[h] \in Nat
    BY <1>t DEF HandlerTyped
  <2> QED BY <2>1, LimitTyped
<1>1. CASE MeetCaptcha(h) \/ TakeImage(h) \/ Ask(h) \/ WaitTimesOut(h) \/ Dies(h)
  <2>1. /\ pc[h] # "over"
        /\ UNCHANGED <<row, elapsed, held, asked, till, text, typed, told, fileVars, textVars>>
        /\ \E label \in {"image", "ask", "wait", "reject", "over"} : Goto(h, label)
    BY <1>1 DEF MeetCaptcha, TakeImage, Ask, WaitTimesOut, Dies
  <2> QED BY <2>1, GotoKeeps DEF textVars
<1>2. CASE PopNothing(h)
  <2>1. /\ pc[h] # "over" /\ Goto(h, "wait")
        /\ UNCHANGED <<row, elapsed, held, asked, till, text, typed, told, fileVars, meant, empty>>
        /\ UNCHANGED list \/ (list[h] # <<>> /\ list' = [list EXCEPT ![h] = Tail(@)])
    BY <1>2 DEF PopNothing
  <2> QED BY <2>1, GotoKeeps
<1>3. CASE PopAnswer(h)
  <2>1. /\ pc[h] = "pop" /\ list[h] # <<>> /\ list' = [list EXCEPT ![h] = Tail(@)]
        /\ UNCHANGED <<row, elapsed, held, asked, till, typed, told, fileVars, meant, empty>>
    BY <1>3 DEF PopAnswer
  <2>2. CASE Goto(h, "wait") /\ UNCHANGED text
    BY <2>1, <2>2, GotoKeeps
  <2>3. CASE /\ Head(list[h]) \notin empty /\ Goto(h, "type")
             /\ text' = [text EXCEPT ![h] = Head(list[h])]
    <3>1. Head(list[h]) \in Texts /\ meant[Head(list[h])] = h
      BY <2>1, ListSound
    <3>2. pc' \in [Handlers -> HandlerStates] /\ text' \in [Handlers -> Texts \cup {Nothing}]
      BY <1>t, <2>3, <3>1 DEF Goto, HandlerTyped, HandlerStates
    <3>3. HandlerTyped'
      BY <1>t, <2>1, <3>2 DEF HandlerTyped
    <3>4. Own(h)
      BY <1>t, <2>1, <2>3 DEF Own, HandlerTyped, Goto, fileVars
    <3>5. pc'[h] = "type" /\ text'[h] = Head(list[h])
      BY <1>t, <2>3 DEF Goto, HandlerTyped
    <3>6. HandlerSound(h)'
      BY <1>t, <2>1, <2>3, <3>1, <3>5, ListSound DEF HandlerSound, Limit, ReachedBetweenReadings
    <3> QED BY <3>3, <3>4, <3>6, OwnKeeps
  <2> QED BY <1>3, <2>2, <2>3 DEF PopAnswer
<1>4. CASE StartPop(h)
  <2>1. /\ pc[h] = "turn" /\ Patience(h) >= 0 /\ Goto(h, "pop")
        /\ asked' = [asked EXCEPT ![h] = elapsed[h]]
        /\ till' = [till EXCEPT ![h] = elapsed[h] + 2 * PopTimeout(h)]
        /\ UNCHANGED <<row, elapsed, held, text, typed, told, fileVars, list, meant, empty>>
    BY <1>4 DEF StartPop, textVars
  <2>2. elapsed[h] < 2 * Timeout + held[h]
    BY <1>t, <2>1 DEF HandlerSound
  <2>3. /\ PopTimeout(h) \in Nat
        /\ elapsed[h] + 2 * PopTimeout(h) <= 2 * Timeout + 1 + held[h]
              + (IF elapsed[h] \div 2 = Timeout THEN 2 * Default ELSE 0)
    BY <1>0, <2>1, <2>2, PopInTime
  <2>4. elapsed[h] + 2 * PopTimeout(h) \in Nat
    BY <1>0, <2>3
  <2>5. /\ pc' \in [Handlers -> HandlerStates] /\ till' \in [Handlers -> Nat]
        /\ asked' \in [Handlers -> Nat]
    BY <1>t, <1>0, <2>1, <2>4 DEF Goto, HandlerTyped, HandlerStates
  <2>6. HandlerTyped' /\ Own(h)
    BY <1>t, <2>1, <2>5 DEF HandlerTyped, Own, Goto, fileVars
  <2>7. /\ pc'[h] = "pop" /\ till'[h] = elapsed[h] + 2 * PopTimeout(h)
        /\ asked'[h] = elapsed[h] /\ held'[h] = held[h] /\ elapsed'[h] = elapsed[h]
    BY <1>t, <2>1 DEF Goto, HandlerTyped
  <2>8. Limit(h)' = 2 * Timeout + 1 + held[h]
                    + (IF elapsed[h] \div 2 = Timeout THEN 2 * Default ELSE 0)
    BY <2>7 DEF Limit, ReachedBetweenReadings, Default, Least
  <2>9. till'[h] <= Limit(h)' /\ elapsed'[h] <= Limit(h)'
    <3> DEFINE till1 == elapsed[h] + 2 * PopTimeout(h)
    <3>1. till1 \in Nat /\ elapsed[h] <= till1 /\ till'[h] = till1 /\ elapsed'[h] = elapsed[h]
      BY <1>0, <2>3, <2>7
    <3>2. till1 <= Limit(h)' /\ Limit(h)' \in Nat
      <4>1. Default \in Nat
        BY DEF Default, Least, Setting
      <4>2. Limit(h)' \in Nat
        BY <1>0, <2>8, <4>1 DEF Setting
      <4> QED BY <2>3, <2>8, <4>2
    <3> HIDE DEF till1
    <3> QED BY <1>0, <3>1, <3>2
  <2>10. HandlerSound(h)'
    BY <1>t, <2>1, <2>7, <2>9, ListSound DEF HandlerSound, Limit, ReachedBetweenReadings
  <2> QED BY <2>6, <2>10, OwnKeeps
<1>5. CASE TimePasses(h)
  <2>1. /\ pc[h] = "pop" /\ elapsed[h] < till[h] /\ elapsed' = [elapsed EXCEPT ![h] = @ + 1]
        /\ UNCHANGED <<pc, row, held, asked, till, text, typed, told, fileVars, list, meant, empty>>
    BY <1>5 DEF TimePasses, textVars
  <2>2. /\ elapsed'[h] = elapsed[h] + 1 /\ elapsed' \in [Handlers -> Nat]
        /\ \A k \in Handlers \ {h} : elapsed'[k] = elapsed[k]
    BY <1>t, <2>1, Counted DEF HandlerTyped
  <2>3. HandlerTyped' /\ Own(h)
    BY <1>t, <2>1, <2>2 DEF HandlerTyped, Own, fileVars
  <2>4. Limit(h)' = Limit(h) /\ elapsed'[h] <= Limit(h)
    <3>1. till[h] <= Limit(h)
      BY <1>t, <2>1 DEF HandlerSound
    <3>2. Limit(h)' = Limit(h)
      BY <2>1 DEF Limit, ReachedBetweenReadings, Default
    <3> QED BY <1>0, <2>1, <2>2, <3>1, <3>2
  <2>5. HandlerSound(h)'
    BY <1>t, <2>1, <2>4, ListSound DEF HandlerSound
  <2> QED BY <2>3, <2>5, OwnKeeps
<1>8. CASE StayInLoop(h) \/ PopRefused(h)
  <2>1. /\ \/ pc[h] = "wait" /\ elapsed[h] < 2 * Timeout /\ Goto(h, "turn") /\ UNCHANGED asked
           \/ /\ pc[h] = "turn" /\ Goto(h, "wait")
              /\ asked' = [asked EXCEPT ![h] = elapsed[h]]
        /\ UNCHANGED <<row, elapsed, held, till, text, typed, told, fileVars, list, meant, empty>>
    BY <1>8 DEF StayInLoop, PopRefused, textVars
  <2>2. pc' \in [Handlers -> HandlerStates] /\ pc'[h] \in {"turn", "wait"}
    BY <1>t, <2>1 DEF Goto, HandlerTyped, HandlerStates
  <2>3. asked' \in [Handlers -> Nat] /\ \A k \in Handlers \ {h} : asked'[k] = asked[k]
    BY <1>t, <1>0, <2>1 DEF HandlerTyped
  <2>4. HandlerTyped' /\ Own(h)
    BY <1>t, <2>1, <2>2, <2>3 DEF HandlerTyped, Own, Goto, fileVars
  <2>5. elapsed[h] < 2 * Timeout + held[h]
    BY <1>t, <1>0, <2>1 DEF HandlerSound, Setting
  <2>6. elapsed'[h] <= Limit(h)'
    <3>1. 2 * Timeout + 1 + held[h] <= Limit(h)'
      BY <1>0, <2>1 DEF Limit, Default, Least, Setting
    <3>2. Limit(h)' \in Nat
      BY <1>0, <2>1 DEF Limit, Default, Least, Setting
    <3> QED BY <1>0, <2>1, <2>5, <3>1, <3>2 DEF Setting
  <2>7. HandlerSound(h)'
    BY <1>t, <2>1, <2>2, <2>5, <2>6, ListSound DEF HandlerSound
  <2> QED BY <2>4, <2>7, OwnKeeps
<1>9. CASE HeldUp(h)
  <2>1. /\ pc[h] \in {"wait", "turn"}
        /\ elapsed' = [elapsed EXCEPT ![h] = @ + 1] /\ held' = [held EXCEPT ![h] = @ + 1]
        /\ UNCHANGED <<pc, row, asked, till, text, typed, told, fileVars, list, meant, empty>>
    BY <1>9 DEF HeldUp, textVars
  <2>2. /\ elapsed'[h] = elapsed[h] + 1 /\ elapsed' \in [Handlers -> Nat]
        /\ held'[h] = held[h] + 1 /\ held' \in [Handlers -> Nat]
        /\ \A k \in Handlers \ {h} : elapsed'[k] = elapsed[k] /\ held'[k] = held[k]
    BY <1>t, <2>1, Counted DEF HandlerTyped
  <2>3. HandlerTyped' /\ Own(h)
    BY <1>t, <2>1, <2>2 DEF HandlerTyped, Own, fileVars
  <2>4. elapsed'[h] <= Limit(h)'
    <3>1. elapsed[h] <= Limit(h)
      BY <1>t DEF HandlerSound
    <3>2. Limit(h)' = Limit(h) + 1
      <4>1. (IF ReachedBetweenReadings(h) THEN 2 * Default ELSE 0) \in Nat
        BY DEF Default, Least, Setting
      <4>2. ReachedBetweenReadings(h)' = ReachedBetweenReadings(h)
        BY <2>1 DEF ReachedBetweenReadings
      <4> QED BY <1>0, <2>2, <4>1, <4>2 DEF Limit, Default, Setting
    <3> QED BY <1>0, <2>2, <3>1, <3>2
  <2>5. pc[h] = "turn" => elapsed'[h] < 2 * Timeout + held'[h]
    BY <1>t, <1>0, <2>2 DEF HandlerSound, Setting
  <2>6. HandlerSound(h)'
    BY <1>t, <2>1, <2>4, <2>5, ListSound DEF HandlerSound
  <2> QED BY <2>3, <2>6, OwnKeeps
<1>6. CASE Inject(h)
  <2>1. /\ pc[h] = "type"
        /\ UNCHANGED <<row, elapsed, held, asked, till, text, told, fileVars, list, meant, empty>>
        /\ \/ Goto(h, "reject") /\ UNCHANGED typed
           \/ /\ typed' = [typed EXCEPT ![h] = @ \cup {text[h]}]
              /\ Goto(h, "approve") \/ Goto(h, "reject")
    BY <1>6 DEF Inject, textVars
  <2>2. CASE Goto(h, "reject") /\ UNCHANGED typed
    BY <2>1, <2>2, GotoKeeps
  <2>3. CASE /\ typed' = [typed EXCEPT ![h] = @ \cup {text[h]}]
             /\ Goto(h, "approve") \/ Goto(h, "reject")
    <3>1. text[h] \in Texts \ empty /\ meant[text[h]] = h
      BY <1>t, <2>1 DEF HandlerSound
    <3>2. /\ pc' \in [Handlers -> HandlerStates] /\ typed' \in [Handlers -> SUBSET Texts]
          /\ pc'[h] \in {"approve", "reject"} /\ typed'[h] = typed[h] \cup {text[h]}
      BY <1>t, <2>3, <3>1 DEF Goto, HandlerTyped, HandlerStates
    <3>3. HandlerTyped' /\ Own(h)
      BY <1>t, <2>1, <2>3, <3>2 DEF HandlerTyped, Own, Goto, fileVars
    <3>4. HandlerSound(h)'
      BY <1>t, <2>1, <3>1, <3>2, ListSound DEF HandlerSound, Limit, ReachedBetweenReadings
    <3> QED BY <3>3, <3>4, OwnKeeps
  <2> QED BY <2>1, <2>2, <2>3
<1>7. CASE Resolve(h) \/ NoCaptcha(h)
  <2>1. /\ UNCHANGED <<elapsed, held, asked, till, text, typed, fileVars, list, meant, empty>>
        /\ Goto(h, "over")
        /\ \E answer \in {"handled", "not handled"} :
             /\ told' = [told EXCEPT ![h] = answer]
             /\ answer = "handled" =>
                  pc[h] = "approve" /\ row' = [row EXCEPT ![h] = "approved"]
        /\ \/ UNCHANGED row
           \/ /\ row' = [row EXCEPT ![h] = Outcome(h)]
              /\ pc[h] \in {"approve", "reject"}
    BY <1>7 DEF Resolve, NoCaptcha, Returns, Outcome, textVars
  <2>2. Outcome(h) \in {"approved", "rejected"} /\ (Outcome(h) = "approved" => pc[h] = "approve")
    BY DEF Outcome
  <2>3. pc' \in [Handlers -> HandlerStates] /\ pc'[h] = "over"
    BY <1>t, <2>1 DEF Goto, HandlerTyped, HandlerStates
  <2>4. /\ row' \in [Handlers -> {"none", "approved", "rejected"}]
        /\ \A k \in Handlers \ {h} : row'[k] = row[k]
        /\ row'[h] = "approved" => pc[h] = "approve" \/ row[h] = "approved"
    <3>1. CASE UNCHANGED row
      BY <1>t, <3>1 DEF HandlerTyped
    <3>2. CASE row' = [row EXCEPT ![h] = Outcome(h)]
      BY <1>t, <2>2, <3>2 DEF HandlerTyped
    <3> QED BY <2>1, <3>1, <3>2
  <2>5. /\ told' \in [Handlers -> {"nothing", "handled", "not handled"}]
        /\ \A k \in Handlers \ {h} : told'[k] = told[k]
        /\ told'[h] = "handled" => row'[h] = "approved"
    <3>1. PICK answer \in {"handled", "not handled"} :
            /\ told' = [told EXCEPT ![h] = answer]
            /\ answer = "handled" =>
                 pc[h] = "approve" /\ row' = [row EXCEPT ![h] = "approved"]
      BY <2>1
    <3>2. /\ told' \in [Handlers -> {"nothing", "handled", "not handled"}] /\ told'[h] = answer
          /\ \A k \in Handlers \ {h} : told'[k] = told[k]
      BY <1>t, <3>1 DEF HandlerTyped
    <3>3. answer = "handled" => row'[h] = "approved"
      BY <1>t, <3>1 DEF HandlerTyped
    <3> QED BY <3>2, <3>3
  <2>6. HandlerTyped' /\ Own(h)
    BY <1>t, <2>1, <2>3, <2>4, <2>5 DEF HandlerTyped, Own, Goto, fileVars
  <2>7. HandlerSound(h)'
    BY <1>t, <2>1, <2>3, <2>4, <2>5, ListSound DEF HandlerSound, Limit, ReachedBetweenReadings
  <2> QED BY <2>6, <2>7, OwnKeeps
<1> QED BY <1>1, <1>2, <1>3, <1>4, <1>5, <1>6, <1>7, <1>8, <1>9 DEF HandlerStep

-----------------------------------------------------------------------------
\* The theorems.

\* The invariant of the relay holds for any number of logins, handlers and texts.
THEOREM Invariance == ASSUME Setting PROVE Spec => []IndInv
<1>1. Init => IndInv
  BY IndInvInit
<1>2. IndInv /\ [Next]_vars => IndInv'
  <2>1. IndInv /\ Next => IndInv'
    BY LoginKeeps, TextKeeps, ExpireKeeps, HandlerKeeps DEF Next, HandlerStep
  <2>2. IndInv /\ UNCHANGED vars => IndInv'
    <3> SUFFICES ASSUME IndInv, UNCHANGED vars PROVE IndInv'
      OBVIOUS
    <3>1. TypeOK'
      BY DEF IndInv, TypeOK, vars, fileVars, textVars, handlerVars
    <3>2. \A h \in Handlers : HandlerSound(h)'
      BY DEF IndInv, HandlerSound, Limit, ReachedBetweenReadings, vars, textVars, handlerVars
    <3> QED BY <3>1, <3>2 DEF IndInv
  <2> QED BY <2>1, <2>2
<1> QED BY <1>1, <1>2, PTL DEF Spec

\* A committed approval stands for a text sent for this captcha and typed.
THEOREM Approved == ASSUME Setting PROVE Spec => []ApprovedMeansTyped
<1>1. IndInv => ApprovedMeansTyped
  BY DEF IndInv, HandlerSound, ApprovedMeansTyped
<1> QED BY <1>1, Invariance, PTL

\* A handler's wait ends within a second of its timeout, what its process was held up and
\* the default wait of a timeout reached between two readings apart; whatever the timeout,
\* the slice and the pauses.
THEOREM InTime == ASSUME Setting PROVE Spec => []StopsInTime
<1>1. IndInv => StopsInTime
  BY DEF IndInv, HandlerSound, StopsInTime, Limit
<1> QED BY <1>1, Invariance, PTL
=============================================================================
