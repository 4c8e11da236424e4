---------------------------- MODULE CaptchaRelay ----------------------------
(***************************************************************************)
(* The way of a captcha's text from an operator to a page.  A login        *)
(* (CaptchaHandler in gst/auth_session.py) describes its captcha in one    *)
(* file of the data directory; the bot (telegram_bot/runtime.py) puts what *)
(* an operator types on the Redis list of the checkpoint the file names.   *)
(* A job handler that uses HandlerCaptchaSupport                           *)
(* (orchestration/handlers/captcha_support.py, gst/captcha_handler.py,     *)
(* telegram_bot/scheduler.py) waits on the list of a checkpoint of its own,*)
(* which handle_captcha_response fills.  Time is in half seconds.          *)
(***************************************************************************)
EXTENDS Integers, Sequences

CONSTANTS
  Logins,     \* logins that meet a captcha, each with its checkpoint
  Handlers,   \* executions that call handle_captcha_if_present, likewise
  Texts,      \* messages of operators, each sent once
  Nothing,    \* no text, no checkpoint
  Timeout,    \* telegram_captcha_timeout_seconds
  Slice,      \* longest wait for one answer: 30 s
  Pause       \* bound: half seconds a handler's process is held up between its steps

Checkpoints == Logins \cup Handlers

VARIABLES
  file,     \* captcha_state.json: the checkpoint it names, and whether it says waiting
  login,    \* a login's state
  list,     \* telegram:action:<checkpoint>
  meant,    \* the checkpoint whose captcha the sender of a text looked at
  empty,    \* texts without content
  pc, row,  \* of a handler; its operator_checkpoints row, as committed
  elapsed,  \* of a handler: half seconds since it began to wait
  held,     \* of them, those its process was held up outside BLPOP
  asked,    \* elapsed at the reading its last wait was computed from
  till,     \* of a handler: when its BLPOP times out
  text,     \* of a handler: what it popped
  typed,    \* texts typed into the form, per checkpoint
  told      \* what handle_captcha_if_present returned

fileVars == <<file, login>>
textVars == <<list, meant, empty>>
handlerVars == <<pc, row, elapsed, held, asked, till, text, typed, told>>
vars == <<fileVars, textVars, handlerVars>>

HandlerStates == {"idle", "image", "ask", "wait", "turn", "pop", "type", "approve", "reject", "over"}

TypeOK ==
  /\ file \in [names : Logins \cup {Nothing}, waiting : BOOLEAN]
  /\ login \in [Logins -> {"idle", "captcha", "over"}]
  /\ list \in [Checkpoints -> Seq(Texts)]
  /\ meant \in [Texts -> Checkpoints \cup {Nothing}] /\ empty \subseteq Texts
  /\ pc \in [Handlers -> HandlerStates] /\ row \in [Handlers -> {"none", "approved", "rejected"}]
  /\ elapsed \in [Handlers -> Nat] /\ held \in [Handlers -> Nat]
  /\ asked \in [Handlers -> Nat] /\ till \in [Handlers -> Nat]
  /\ text \in [Handlers -> Texts \cup {Nothing}]
  /\ typed \in [Handlers -> SUBSET Texts]
  /\ told \in [Handlers -> {"nothing", "handled", "not handled"}]

Init ==
  /\ file = [names |-> Nothing, waiting |-> FALSE] /\ login = [l \in Logins |-> "idle"]
  /\ list = [c \in Checkpoints |-> <<>>]
  /\ meant = [x \in Texts |-> Nothing] /\ empty \in SUBSET Texts
  /\ pc = [h \in Handlers |-> "idle"] /\ row = [h \in Handlers |-> "none"]
  /\ elapsed = [h \in Handlers |-> 0] /\ held = [h \in Handlers |-> 0]
  /\ asked = [h \in Handlers |-> 0] /\ till = [h \in Handlers |-> 0]
  /\ text = [h \in Handlers |-> Nothing] /\ typed = [h \in Handlers |-> {}]
  /\ told = [h \in Handlers |-> "nothing"]

-----------------------------------------------------------------------------
\* CaptchaHandler: one file for all logins; the last writer's checkpoint is in it.

Capture(l, waiting) == file' = [names |-> l, waiting |-> waiting]

LoginMeetsCaptcha(l) ==
  /\ login[l] = "idle"
  /\ login' = [login EXCEPT ![l] = "captcha"] /\ Capture(l, TRUE)
  /\ UNCHANGED <<textVars, handlerVars>>

\* An operator's action through the API (OperatorCheckpoints): the file says submitted, still
\* or captcha_refreshed, or why a refresh or the text was no use; never waiting again.
LoginCaptures(l) ==
  /\ login[l] = "captcha" /\ Capture(l, FALSE)
  /\ UNCHANGED <<login, textVars, handlerVars>>

\* Approved, rejected, out of time or dead: the file stays.
LoginEnds(l) ==
  /\ login[l] = "captcha"
  /\ login' = [login EXCEPT ![l] = "over"]
  /\ UNCHANGED <<file, textVars, handlerVars>>

-----------------------------------------------------------------------------
\* Texts.

Sends(x, c) == meant[x] = Nothing /\ meant' = [meant EXCEPT ![x] = c]
Enqueue(c, x) == list' = [list EXCEPT ![c] = Append(@, x)]

\* _handle_any_message, for a text that is no command, of a sender who is allowed; an
\* enqueue that fails is only logged.
BotRoutes(x, c) ==
  /\ Sends(x, c)
  /\ IF file.names # Nothing /\ file.waiting /\ x \notin empty
     THEN Enqueue(file.names, x) \/ UNCHANGED list
     ELSE UNCHANGED list
  /\ UNCHANGED <<empty, fileVars, handlerVars>>

\* A command, a text of a sender who is not allowed: no list.
BotAnswers(x, c) ==
  /\ Sends(x, c)
  /\ UNCHANGED <<list, empty, fileVars, handlerVars>>

\* TelegramCaptchaService.handle_captcha_response, of a user who is registered.
Respond(x, h) ==
  /\ Sends(x, h)
  /\ Enqueue(h, x) \/ UNCHANGED list
  /\ UNCHANGED <<empty, fileVars, handlerVars>>

\* The list's TTL of an hour.
Expire(c) ==
  /\ list[c] # <<>> /\ list' = [list EXCEPT ![c] = <<>>]
  /\ UNCHANGED <<meant, empty, fileVars, handlerVars>>

-----------------------------------------------------------------------------
\* HandlerCaptchaSupport.handle_captcha_if_present and CaptchaHitlHandler.handle_captcha.

Goto(h, label) == pc' = [pc EXCEPT ![h] = label]
Returns(h, answer) == Goto(h, "over") /\ told' = [told EXCEPT ![h] = answer]

\* No captcha, or an exception before the checkpoint's row is flushed.
NoCaptcha(h) ==
  /\ pc[h] = "idle" /\ Returns(h, "not handled")
  /\ UNCHANGED <<row, elapsed, held, asked, till, text, typed, fileVars, textVars>>

\* A captcha: the row is flushed, not committed, so nobody else sees it yet.
MeetCaptcha(h) ==
  /\ pc[h] = "idle" /\ Goto(h, "image")
  /\ UNCHANGED <<row, elapsed, held, asked, till, text, typed, told, fileVars, textVars>>

\* The captcha is looked for once more and its image taken; either may fail.
TakeImage(h) ==
  /\ pc[h] = "image"
  /\ Goto(h, "ask") \/ Goto(h, "reject")
  /\ UNCHANGED <<row, elapsed, held, asked, till, text, typed, told, fileVars, textVars>>

\* The operators are asked, whether or not a photo reaches any of them; there may be none.
Ask(h) ==
  /\ pc[h] = "ask"
  /\ Goto(h, "wait") \/ Goto(h, "reject")
  /\ UNCHANGED <<row, elapsed, held, asked, till, text, typed, told, fileVars, textVars>>

Least(a, b) == IF a < b THEN a ELSE b

\* Mutant of Seconds: rounded up.
SecondsUp(h) == (elapsed[h] + 1) \div 2

\* int(total_seconds()).
Seconds(h) == elapsed[h] \div 2

\* What wait_for_captcha_response is called with, and what it makes of it: 0 is no timeout
\* to it, and the default is used.
Patience(h) == Least(Slice, Timeout - Seconds(h))
Default == Least(Timeout, 60)
PopTimeout(h) == IF Patience(h) = 0 THEN Default ELSE Least(Patience(h), 60)

\* The condition of the loop reads the clock, and the argument of the wait reads it again.
StayInLoop(h) ==
  /\ pc[h] = "wait" /\ elapsed[h] < 2 * Timeout /\ Goto(h, "turn")
  /\ UNCHANGED <<row, elapsed, held, asked, till, text, typed, told, fileVars, textVars>>

StartPop(h) ==
  /\ pc[h] = "turn" /\ Patience(h) >= 0 /\ Goto(h, "pop")
  /\ asked' = [asked EXCEPT ![h] = elapsed[h]]
  /\ till' = [till EXCEPT ![h] = elapsed[h] + 2 * PopTimeout(h)]
  /\ UNCHANGED <<row, elapsed, held, text, typed, told, fileVars, textVars>>

\* Redis refuses a negative timeout, and pop_operator_action answers None.
PopRefused(h) ==
  /\ pc[h] = "turn" /\ Patience(h) < 0 /\ Goto(h, "wait")
  /\ asked' = [asked EXCEPT ![h] = elapsed[h]]
  /\ UNCHANGED <<row, elapsed, held, till, text, typed, told, fileVars, textVars>>

TimePasses(h) ==
  /\ pc[h] = "pop" /\ elapsed[h] < till[h]
  /\ elapsed' = [elapsed EXCEPT ![h] = @ + 1]
  /\ UNCHANGED <<pc, row, held, asked, till, text, typed, told, fileVars, textVars>>

\* Another coroutine has the loop, or the process does not run: before the condition is
\* evaluated, or between the two readings.
HeldUp(h) ==
  /\ pc[h] \in {"wait", "turn"} /\ held[h] < Pause
  /\ elapsed' = [elapsed EXCEPT ![h] = @ + 1] /\ held' = [held EXCEPT ![h] = @ + 1]
  /\ UNCHANGED <<pc, row, asked, till, text, typed, told, fileVars, textVars>>

\* BLPOP times out or raises, and then an answer may be gone with it.
PopNothing(h) ==
  /\ pc[h] = "pop" /\ Goto(h, "wait")
  /\ \/ UNCHANGED list
     \/ list[h] # <<>> /\ list' = [list EXCEPT ![h] = Tail(@)]
  /\ UNCHANGED <<meant, empty, row, elapsed, held, asked, till, text, typed, told, fileVars>>

\* An answer without content is as good as none.
PopAnswer(h) ==
  /\ pc[h] = "pop" /\ list[h] # <<>>
  /\ list' = [list EXCEPT ![h] = Tail(@)]
  /\ IF Head(list[h]) \in empty THEN Goto(h, "wait") /\ UNCHANGED text
     ELSE Goto(h, "type") /\ text' = [text EXCEPT ![h] = Head(list[h])]
  /\ UNCHANGED <<meant, empty, row, elapsed, held, asked, till, typed, told, fileVars>>

WaitTimesOut(h) ==
  /\ pc[h] = "wait" /\ elapsed[h] >= 2 * Timeout /\ Goto(h, "reject")
  /\ UNCHANGED <<row, elapsed, held, asked, till, text, typed, told, fileVars, textVars>>

\* _inject_captcha: no field; or the text is typed and no button found, or it fails; or the
\* form is submitted.
Inject(h) ==
  /\ pc[h] = "type"
  /\ \/ Goto(h, "reject") /\ UNCHANGED typed
     \/ /\ typed' = [typed EXCEPT ![h] = @ \cup {text[h]}]
        /\ Goto(h, "approve") \/ Goto(h, "reject")
  /\ UNCHANGED <<row, elapsed, held, asked, till, text, told, fileVars, textVars>>

\* Mutant of Outcome: whatever became of the captcha, the checkpoint is approved.
AlwaysApproved(h) == "approved"
Outcome(h) == IF pc[h] = "approve" THEN "approved" ELSE "rejected"

\* The row's first commit; when it fails the answer is that of no captcha.
Resolve(h) ==
  /\ pc[h] \in {"approve", "reject"}
  /\ \/ /\ row' = [row EXCEPT ![h] = Outcome(h)]
        /\ Returns(h, IF pc[h] = "approve" THEN "handled" ELSE "not handled")
     \/ Returns(h, "not handled") /\ UNCHANGED row
  /\ UNCHANGED <<elapsed, held, asked, till, text, typed, fileVars, textVars>>

\* The handler's job runs out of its budget, or the worker dies.
Dies(h) ==
  /\ pc[h] \notin {"idle", "over"} /\ Goto(h, "over")
  /\ UNCHANGED <<row, elapsed, held, asked, till, text, typed, told, fileVars, textVars>>

Next ==
  \/ \E l \in Logins : LoginMeetsCaptcha(l) \/ LoginCaptures(l) \/ LoginEnds(l)
  \/ \E x \in Texts :
       \/ \E c \in Logins : BotRoutes(x, c) \/ BotAnswers(x, c)
       \/ \E h \in Handlers : Respond(x, h)
  \/ \E c \in Checkpoints : Expire(c)
  \/ \E h \in Handlers :
       \/ NoCaptcha(h) \/ MeetCaptcha(h) \/ TakeImage(h) \/ Ask(h)
       \/ StayInLoop(h) \/ StartPop(h) \/ PopRefused(h) \/ TimePasses(h) \/ HeldUp(h)
       \/ PopNothing(h) \/ PopAnswer(h) \/ WaitTimesOut(h) \/ Inject(h) \/ Resolve(h) \/ Dies(h)

Spec == Init /\ [][Next]_vars

-----------------------------------------------------------------------------
\* Properties.

\* A committed approval stands for a text that was sent for this very captcha and typed, late
\* and lost answers and other checkpoints' answers notwithstanding, and "handled" for a
\* committed approval; "not handled" tells nothing, the form may have been submitted.
ApprovedMeansTyped ==
  \A h \in Handlers :
    /\ row[h] = "approved" => \E x \in typed[h] : meant[x] = h
    /\ told[h] = "handled" => row[h] = "approved"
    /\ \A x \in typed[h] : meant[x] = h /\ x \notin empty

\* The last wait ends less than a second after the timeout, what the process was held up
\* apart, with one exception: when the second in which the timeout is reached begins between
\* the two readings, what is left is 0, and the wait goes on for the default once more (as
\* long as the timeout, up to a minute).  Never twice, and never for another reason.
ReachedBetweenReadings(h) == asked[h] \div 2 = Timeout
StopsInTime ==
  \A h \in Handlers :
    elapsed[h] <= 2 * Timeout + 1 + held[h]
                  + (IF ReachedBetweenReadings(h) THEN 2 * Default ELSE 0)
=============================================================================
