----------------------------- MODULE VerifyEmail -----------------------------
(***************************************************************************)
(* The page that waits for the user to confirm an e-mail address           *)
(* (lib/pages/profile/verify_email_page.dart).                             *)
(*                                                                         *)
(* The page is one Dart isolate with several asynchronous activities: any  *)
(* number of sendVerificationEmail calls, any number of checkEmailVerified *)
(* calls started by a periodic timer, and the one-second countdown timers. *)
(* A call is cut at its awaits; between two awaits it is atomic.           *)
(*                                                                         *)
(* Time is the action Second.  A periodic timer becomes due when a second  *)
(* passes and its callback runs some time later; ticks missed meanwhile    *)
(* are not made up for, as Timer.periodic specifies.  `since' is the age   *)
(* of lastEmailSentTime, cut off at WAIT; lastEmailSentTime = null passes  *)
(* the same test as an age of WAIT and is represented by it.               *)
(*                                                                         *)
(* The State object of the release build is modelled: setState on a        *)
(* disposed State runs its closure and then throws.                        *)
(***************************************************************************)
EXTENDS Naturals, FiniteSets

CONSTANTS
    WAIT,           \* seconds between two e-mails (60 in the code)
    CHECK_SECONDS,  \* period of checkTimer (3 in the code)
    MaxSends,       \* bound: calls of sendVerificationEmail that reach the server
    MaxChecks       \* bound: checkEmailVerified calls in flight at once

ASSUME WaitAssumption == WAIT \in Nat \ {0}
ASSUME CheckAssumption == CHECK_SECONDS \in Nat \ {0}
ASSUME BoundAssumption == MaxSends \in Nat \ {0} /\ MaxChecks \in Nat \ {0}

VARIABLES
    page,             \* "shown", "leaving" (replaced, still mounted), "disposed"
    canResendEmail,   \* the field that enables the button
    drawn,            \* the button as last built: setState copies the field here
    countdownTime,    \* the number on the disabled button
    since,            \* age of lastEmailSentTime in seconds, at most WAIT
    timer,            \* the newest countdown timer (0 is null); timers are numbered
    live,             \* the countdown timers not cancelled yet
    due,              \* the countdown timers whose callback is about to run
    sending,          \* sendEmailVerification calls awaiting their answer
    sends,            \* sendEmailVerification calls made
    checkOn,          \* checkTimer is active
    checkAge,         \* seconds since checkTimer's last period began
    checkDue,         \* checkTimer's callback is about to run
    isEmailVerified,
    reloads,          \* checkEmailVerified calls awaiting reload()
    creates,          \* checkEmailVerified calls awaiting createUser()
    linkClicked,      \* the user followed the link in the e-mail
    backendUser,      \* the server has the user's record
    \* History variables, read by the properties only.
    createCalls,      \* createUser calls made
    covers,           \* CoverPages the page has pushed over itself
    peakChecks,       \* most checkEmailVerified calls ever in flight at once
    overlapped,       \* a send once began during another send or a countdown
    lateSend,         \* one was answered after the page was disposed
    createFailed      \* a createUser call once did not return "success"

button == <<canResendEmail, drawn, countdownTime, since, timer, live, due, sending, sends>>
check == <<checkOn, checkAge, checkDue, isEmailVerified, reloads, creates>>
server == <<linkClicked, backendUser>>
history == <<createCalls, covers, peakChecks, overlapped, lateSend, createFailed>>
vars == <<page, button, check, server, history>>

Pages == {"shown", "leaving", "disposed"}

\* Every page that opens VerifyEmailPage has just seen an unverified user, so
\* initState takes its !isEmailVerified branch: it sends the first e-mail and
\* starts checkTimer.  lastEmailSentTime is null in a new State object.
Init ==
    /\ page = "shown"
    /\ canResendEmail = FALSE /\ drawn = FALSE /\ countdownTime = 0 /\ since = WAIT
    /\ timer = 0 /\ live = {} /\ due = {}
    /\ sending = 1 /\ sends = 1
    /\ checkOn = TRUE /\ checkAge = 0 /\ checkDue = FALSE
    /\ isEmailVerified = FALSE
    /\ reloads = 0 /\ creates = 0
    /\ linkClicked = FALSE /\ backendUser \in BOOLEAN
    /\ createCalls = 0 /\ covers = 0 /\ peakChecks = 0
    /\ overlapped = FALSE /\ lateSend = FALSE /\ createFailed = FALSE

-----------------------------------------------------------------------------
(* Mutants: what a slip in the page's code would make of one action.  No run's *)
(* specification uses them; each shows that a property notices the slip.        *)

\* `countdownTime < 0' in startCountdownTimer.
CountdownTick_PastZero(t) ==
    /\ t \in due /\ due' = due \ {t}
    /\ IF countdownTime < 0
       THEN live' = live \ {t} /\ canResendEmail' = TRUE /\ countdownTime' = 0
       ELSE countdownTime' = countdownTime - 1 /\ UNCHANGED <<live, canResendEmail>>
    /\ drawn' = IF page = "disposed" THEN drawn ELSE canResendEmail'
    /\ UNCHANGED <<page, since, timer, sending, sends, check, server, history>>

\* countdownTime is not decremented.
CountdownTick_Stuck(t) ==
    /\ t \in due /\ due' = due \ {t}
    /\ IF countdownTime <= 0
       THEN live' = live \ {t} /\ canResendEmail' = TRUE /\ countdownTime' = 0
       ELSE UNCHANGED <<live, canResendEmail, countdownTime>>
    /\ drawn' = IF page = "disposed" THEN drawn ELSE canResendEmail'
    /\ UNCHANGED <<page, since, timer, sending, sends, check, server, history>>

\* The countdown ends without enabling the button.
CountdownTick_NoEnable(t) ==
    /\ t \in due /\ due' = due \ {t}
    /\ IF countdownTime <= 0
       THEN live' = live \ {t} /\ countdownTime' = 0
       ELSE countdownTime' = countdownTime - 1 /\ UNCHANGED live
    /\ drawn' = IF page = "disposed" THEN drawn ELSE canResendEmail
    /\ UNCHANGED <<page, canResendEmail, since, timer, sending, sends, check, server, history>>

\* t.cancel() is missing.
CountdownTick_NoCancel(t) ==
    /\ t \in due /\ due' = due \ {t}
    /\ IF countdownTime <= 0
       THEN canResendEmail' = TRUE /\ countdownTime' = 0
       ELSE countdownTime' = countdownTime - 1 /\ UNCHANGED canResendEmail
    /\ drawn' = IF page = "disposed" THEN drawn ELSE canResendEmail'
    /\ UNCHANGED <<page, live, since, timer, sending, sends, check, server, history>>

\* sendVerificationEmail leaves the button enabled.
SendDone_StaysEnabled ==
    /\ sending > 0 /\ sending' = sending - 1
    /\ since' = 0 /\ countdownTime' = WAIT
    /\ timer' = timer + 1 /\ live' = live \union {timer + 1}
    /\ lateSend' = (lateSend \/ page = "disposed")
    /\ UNCHANGED <<page, canResendEmail, drawn, due, sends, check, server, createCalls,
                   covers, peakChecks, overlapped, createFailed>>

\* checkTimer is a one-shot Timer.
CheckTick_OneShot ==
    /\ checkDue /\ reloads + creates < MaxChecks
    /\ checkDue' = FALSE /\ checkOn' = FALSE
    /\ reloads' = reloads + 1
    /\ peakChecks' = IF reloads + creates + 1 > peakChecks
                     THEN reloads + creates + 1 ELSE peakChecks
    /\ UNCHANGED <<page, button, checkAge, isEmailVerified, creates, server,
                   createCalls, covers, overlapped, lateSend, createFailed>>

\* checkTimer is not stopped after createUser.
CreateDone_KeepsChecking(ok) ==
    /\ creates > 0 /\ creates' = creates - 1
    /\ IF ok THEN backendUser' = TRUE ELSE backendUser' \in {backendUser, TRUE}
    /\ createFailed' = (createFailed \/ ~ok)
    /\ page' = IF page = "shown" THEN "leaving" ELSE page
    /\ covers' = IF page = "disposed" THEN covers ELSE covers + 1
    /\ UNCHANGED <<button, checkOn, checkDue, checkAge, isEmailVerified, reloads, linkClicked,
                   createCalls, peakChecks, overlapped, lateSend>>

\* `await' is missing before createUser.
ReloadDone_NoAwait(v) ==
    /\ reloads > 0 /\ reloads' = reloads - 1
    /\ v => linkClicked
    /\ isEmailVerified' = v
    /\ drawn' = IF page = "disposed" THEN drawn ELSE canResendEmail
    /\ IF v /\ page # "disposed"
       THEN /\ creates' = creates + 1 /\ createCalls' = createCalls + 1
            /\ checkOn' = FALSE /\ checkDue' = FALSE
            /\ page' = "leaving"
       ELSE UNCHANGED <<creates, createCalls, checkOn, checkDue, page>>
    /\ UNCHANGED <<canResendEmail, countdownTime, since, timer, live, due, sending, sends,
                   checkAge, server, covers, peakChecks, overlapped, lateSend, createFailed>>

\* dispose() forgets the countdown timer.
Dispose_KeepsTimer ==
    /\ page = "leaving" /\ page' = "disposed"
    /\ checkOn' = FALSE /\ checkDue' = FALSE
    /\ UNCHANGED <<live, due, canResendEmail, drawn, countdownTime, since, timer, sending, sends,
                   checkAge, isEmailVerified, reloads, creates, server, history>>

-----------------------------------------------------------------------------
(* Time *)

Second ==
    /\ since' = IF since < WAIT THEN since + 1 ELSE WAIT
    /\ due' = live
    /\ IF checkOn /\ checkAge + 1 = CHECK_SECONDS
       THEN checkAge' = 0 /\ checkDue' = TRUE
       ELSE /\ checkAge' = IF checkOn THEN checkAge + 1 ELSE checkAge
            /\ checkDue' = checkDue
    /\ UNCHANGED <<page, canResendEmail, drawn, countdownTime, timer, live, sending, sends,
                   checkOn, isEmailVerified, reloads, creates, server, history>>

\* The callback of startCountdownTimer.
CountdownTick(t) ==
    /\ t \in due
    /\ due' = due \ {t}
    /\ IF countdownTime <= 0
       THEN live' = live \ {t} /\ canResendEmail' = TRUE /\ countdownTime' = 0
       ELSE countdownTime' = countdownTime - 1 /\ UNCHANGED <<live, canResendEmail>>
    /\ drawn' = IF page = "disposed" THEN drawn ELSE canResendEmail'
    /\ UNCHANGED <<page, since, timer, sending, sends, check, server, history>>

-----------------------------------------------------------------------------
(* sendVerificationEmail *)

\* The button takes a press when it is drawn enabled, whatever the field says since; a
\* replaced page takes no taps.
ResendEnabled == page = "shown" /\ drawn

\* A press of the button.  A press within WAIT seconds of lastEmailSentTime does nothing.
\* Nothing disables the button until the answer arrives.
PressResend ==
    /\ ResendEnabled /\ since >= WAIT
    /\ sends < MaxSends
    /\ sends' = sends + 1 /\ sending' = sending + 1
    /\ overlapped' = (overlapped \/ sending > 0 \/ live # {})
    /\ UNCHANGED <<page, canResendEmail, drawn, countdownTime, since, timer, live, due,
                   check, server, createCalls, covers, peakChecks, lateSend, createFailed>>

\* After the await there is no test of `mounted' and no setState: the button stays as it
\* is drawn until the next setState.
SendDone ==
    /\ sending > 0 /\ sending' = sending - 1
    /\ since' = 0 /\ countdownTime' = WAIT /\ canResendEmail' = FALSE
    /\ timer' = timer + 1 /\ live' = live \union {timer + 1}
    /\ lateSend' = (lateSend \/ page = "disposed")
    /\ UNCHANGED <<page, drawn, due, sends, check, server, createCalls, covers, peakChecks,
                   overlapped, createFailed>>

\* The catch clause: a message to the user and nothing else.
SendFailed ==
    /\ sending > 0 /\ sending' = sending - 1
    /\ UNCHANGED <<page, canResendEmail, drawn, countdownTime, since, timer, live, due, sends,
                   check, server, history>>

-----------------------------------------------------------------------------
(* checkEmailVerified *)

CheckTick ==
    /\ checkDue /\ reloads + creates < MaxChecks
    /\ checkDue' = FALSE
    /\ reloads' = reloads + 1
    /\ peakChecks' = IF reloads + creates + 1 > peakChecks
                     THEN reloads + creates + 1 ELSE peakChecks
    /\ UNCHANGED <<page, button, checkOn, checkAge, isEmailVerified, creates, server,
                   createCalls, covers, overlapped, lateSend, createFailed>>

\* The reload answers v, which is out of date when the link was followed after
\* the server answered.  setState throws when the page is gone.
ReloadDone(v) ==
    /\ reloads > 0 /\ reloads' = reloads - 1
    /\ v => linkClicked
    /\ isEmailVerified' = v
    /\ drawn' = IF page = "disposed" THEN drawn ELSE canResendEmail
    /\ IF v /\ page # "disposed"
       THEN creates' = creates + 1 /\ createCalls' = createCalls + 1
       ELSE UNCHANGED <<creates, createCalls>>
    /\ UNCHANGED <<page, canResendEmail, countdownTime, since, timer, live, due, sending, sends,
                   checkOn, checkAge, checkDue, server, covers, peakChecks, overlapped,
                   lateSend, createFailed>>

\* reload() throws; nobody catches it.
ReloadFailed ==
    /\ reloads > 0 /\ reloads' = reloads - 1
    /\ UNCHANGED <<page, button, checkOn, checkAge, checkDue, isEmailVerified, creates,
                   server, history>>

\* createUser returns "success" (ok), or "error" or null, after which the record may
\* exist all the same; the page reads none of them.  It stops checkTimer and replaces
\* the page on top by a new Cover: this page, or, while this page is leaving, the Cover
\* that an earlier answer has put there.  A disposed page throws instead.
CreateDone(ok) ==
    /\ creates > 0 /\ creates' = creates - 1
    /\ IF ok THEN backendUser' = TRUE ELSE backendUser' \in {backendUser, TRUE}
    /\ createFailed' = (createFailed \/ ~ok)
    /\ checkOn' = FALSE /\ checkDue' = FALSE
    /\ page' = IF page = "shown" THEN "leaving" ELSE page
    /\ covers' = IF page = "disposed" THEN covers ELSE covers + 1
    /\ UNCHANGED <<button, checkAge, isEmailVerified, reloads, linkClicked,
                   createCalls, peakChecks, overlapped, lateSend>>

\* The replacing transition has ended.  Only the newest countdown timer is known.
Dispose ==
    /\ page = "leaving" /\ page' = "disposed"
    /\ live' = live \ {timer} /\ due' = due \ {timer}
    /\ checkOn' = FALSE /\ checkDue' = FALSE
    /\ UNCHANGED <<canResendEmail, drawn, countdownTime, since, timer, sending, sends,
                   checkAge, isEmailVerified, reloads, creates, server, history>>

\* The user follows the link of an e-mail.
ClickLink ==
    /\ ~linkClicked /\ linkClicked' = TRUE
    /\ UNCHANGED <<page, button, check, backendUser, history>>

-----------------------------------------------------------------------------
Next ==
    \/ Second
    \/ \E t \in due : CountdownTick(t)
    \/ PressResend \/ SendDone \/ SendFailed
    \/ CheckTick \/ (\E v \in BOOLEAN : ReloadDone(v)) \/ ReloadFailed
    \/ (\E ok \in BOOLEAN : CreateDone(ok)) \/ Dispose \/ ClickLink

\* Time passes, due callbacks run, requests end and transitions end.  The server
\* does not answer "not verified", or fail, for ever once the link was followed.
\* Nothing is assumed of the user.
Fairness ==
    /\ WF_vars(Second)
    /\ \A t \in 1..MaxSends : WF_vars(CountdownTick(t))
    /\ WF_vars(SendDone \/ SendFailed)
    /\ WF_vars(CheckTick)
    /\ WF_vars(ReloadDone(TRUE) \/ ReloadDone(FALSE) \/ ReloadFailed)
    /\ SF_vars(ReloadDone(TRUE))
    /\ WF_vars(CreateDone(TRUE) \/ CreateDone(FALSE))
    /\ WF_vars(Dispose)

Spec == Init /\ [][Next]_vars
FairSpec == Spec /\ Fairness

-----------------------------------------------------------------------------
(* Properties *)

\* Types of the page's fields and of the numbers of calls in flight.
TypeOK ==
    /\ page \in Pages
    /\ canResendEmail \in BOOLEAN /\ drawn \in BOOLEAN
    /\ countdownTime \in 0..WAIT
    /\ since \in 0..WAIT
    /\ sends \in 1..MaxSends
    /\ sending \in 0..MaxSends
    /\ timer \in 0..MaxSends
    /\ live \subseteq 1..MaxSends
    /\ due \subseteq live
    /\ checkOn \in BOOLEAN /\ checkDue \in BOOLEAN
    /\ checkAge \in 0..(CHECK_SECONDS - 1)
    /\ isEmailVerified \in BOOLEAN
    /\ reloads \in Nat /\ creates \in Nat /\ reloads + creates <= MaxChecks
    /\ linkClicked \in BOOLEAN /\ backendUser \in BOOLEAN
    /\ createCalls \in Nat /\ covers \in Nat /\ peakChecks \in Nat
    /\ overlapped \in BOOLEAN /\ lateSend \in BOOLEAN /\ createFailed \in BOOLEAN

\* Unless a send began during another one or its countdown, the field canResendEmail is
\* set only when sendVerificationEmail will accept a press (its 60-second test passes; a
\* press of a button not redrawn yet does nothing), and the
\* number on the disabled button, which the countdown timer decrements, never runs
\* ahead of the clock that the test reads.
ResendHonest ==
    ~overlapped =>
        /\ canResendEmail => since >= WAIT
        /\ live # {} => countdownTime + since >= WAIT

\* createUser is called at most as often as checkEmailVerified calls were in flight
\* at once: stopping checkTimer after the first createUser leaves no later check.
\* In particular it is called at most once when checks never overlap.
CreatesBounded == createCalls <= peakChecks

\* dispose() cancels the newest countdown timer only.  It leaves no timer running,
\* unless two sends overlapped or a send was answered after dispose().
NoLeakedTimer ==
    page = "disposed" /\ ~overlapped /\ ~lateSend => live = {}

\* While the page is up its button is dead, disabled with no countdown running that
\* could enable it, only if no e-mail was ever sent: a failed first send leaves the
\* user without a retry, a failure of any later send does not.
DeadOnlyUnsent ==
    page # "disposed" /\ ~canResendEmail /\ live = {} => timer = 0

\* From the first replacement of the page on, the Covers it has opened and the checks
\* that could still replace the Cover by another one are together no more than the
\* checkEmailVerified calls that were once in flight at the same time.  So when checks
\* do not overlap, the Cover the user has reached is never replaced under the user.
CoverStays == page # "shown" => covers + reloads + creates <= peakChecks

\* Once the user has followed the link the page gives way to the Cover.
VerifiedLeaves == linkClicked ~> page = "disposed"

\* After an e-mail was sent the button is enabled again, unless the page goes away
\* or another send is under way.
ResendComesBack ==
    (timer > 0 /\ sending = 0) ~> (canResendEmail \/ sending > 0 \/ page # "shown")

\* Countdown timers, the ones dispose() forgot included, end by themselves.
TimersEnd == page = "disposed" ~> [](live = {})

\* The page, its timers and its overlapping checks implement Onboarding: the user
\* gets on only with a confirmed address and after an answer to createUser.
Promise == INSTANCE Onboarding WITH
    linked <- linkClicked, record <- backendUser, refused <- createFailed,
    out <- page # "shown"

OnboardingKept == Promise!Spec

\* The button says "Please wait N seconds before resend" until a resend is possible;
\* so an enabled button means that the waiting time is over.
ResendNeverEarly == canResendEmail => since >= WAIT
=============================================================================
