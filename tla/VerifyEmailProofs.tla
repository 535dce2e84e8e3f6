------------------------- MODULE VerifyEmailProofs -------------------------
(***************************************************************************)
(* Proofs about VerifyEmail, for every WAIT, CHECK_SECONDS and bound.      *)
(*                                                                         *)
(* The safety properties are not inductive.  The strengthening IInv says,  *)
(* beside the types, how sends and timers are numbered (Counting), that    *)
(* without overlapping sends there is one countdown at most and that it    *)
(* lags behind the clock (OneCountdown), how many checks can still reach   *)
(* createUser once checkTimer has stopped (CreateBudget), that a createUser *)
(* call in flight is that of a confirmed address (Confirmed), and which    *)
(* answers have replaced the page (Replacing).                             *)
(***************************************************************************)
EXTENDS VerifyEmail, TLAPS

\* TypeOK in two parts: the provers reason about Booleans and about numbers apart.
BoolOK ==
    /\ canResendEmail \in BOOLEAN /\ drawn \in BOOLEAN /\ checkOn \in BOOLEAN /\ checkDue \in BOOLEAN
    /\ isEmailVerified \in BOOLEAN /\ linkClicked \in BOOLEAN
    /\ backendUser \in BOOLEAN /\ overlapped \in BOOLEAN /\ lateSend \in BOOLEAN
    /\ createFailed \in BOOLEAN

NumOK ==
    /\ page \in Pages
    /\ countdownTime \in 0..WAIT /\ since \in 0..WAIT
    /\ sends \in 1..MaxSends /\ sending \in 0..MaxSends /\ timer \in 0..MaxSends
    /\ live \subseteq 1..MaxSends /\ due \subseteq live
    /\ checkAge \in 0..(CHECK_SECONDS - 1)
    /\ reloads \in Nat /\ creates \in Nat /\ reloads + creates <= MaxChecks
    /\ createCalls \in Nat /\ covers \in Nat /\ peakChecks \in Nat

Counting ==
    /\ timer + sending <= sends
    /\ \A t \in live : t <= timer

\* A tick that is due was preceded by a second that the number on the button
\* does not show yet.
OneCountdown ==
    ~overlapped =>
        /\ sending <= 1
        /\ sending > 0 => live = {}
        /\ \A t \in live : t = timer
        /\ canResendEmail => live = {} /\ since = WAIT
        /\ live # {} => countdownTime + since >= WAIT
        /\ due # {} => since = WAIT \/ countdownTime + since > WAIT

CreateBudget ==
    /\ reloads + creates <= peakChecks
    /\ checkOn => createCalls = creates
    /\ ~checkOn => createCalls + reloads <= peakChecks /\ ~checkDue

Confirmed == creates > 0 => linkClicked

\* checkTimer runs as long as the page is shown; every Cover opened is the answer to a
\* createUser call that has ended.
Replacing ==
    /\ checkOn <=> page = "shown"
    /\ covers + creates <= createCalls

IInv ==
    /\ NumOK /\ Counting /\ OneCountdown /\ CreateBudget /\ NoLeakedTimer
    /\ DeadOnlyUnsent /\ Confirmed /\ Replacing

\* The two parts make up the type invariant.
LEMMA TypeParts == BoolOK /\ NumOK => TypeOK
  BY Zenon DEF BoolOK, NumOK, TypeOK

\* The Boolean fields of the page stay Boolean.
LEMMA BoolStep == BoolOK /\ [Next]_vars => BoolOK'
  <1> SUFFICES ASSUME BoolOK, [Next]_vars PROVE BoolOK'
    OBVIOUS
  <1> USE DEF BoolOK, check, button, server, history
  <1>1. CASE Second
    BY <1>1, Zenon DEF Second
  <1>2. ASSUME NEW t \in due, CountdownTick(t) PROVE BoolOK'
    BY <1>2, Zenon DEF CountdownTick
  <1>3. CASE PressResend \/ SendDone \/ SendFailed
    BY <1>3, Zenon DEF PressResend, ResendEnabled, SendDone, SendFailed
  <1>4. CASE CheckTick \/ ReloadFailed
    BY <1>4, Zenon DEF CheckTick, ReloadFailed
  <1>5. ASSUME NEW v \in BOOLEAN, ReloadDone(v) PROVE BoolOK'
    BY <1>5, Zenon DEF ReloadDone
  <1>6. ASSUME NEW ok \in BOOLEAN, CreateDone(ok) PROVE BoolOK'
    <2>1. /\ UNCHANGED <<canResendEmail, drawn, isEmailVerified, linkClicked, overlapped, lateSend>>
          /\ checkOn' = FALSE /\ checkDue' = FALSE
          /\ backendUser' \in {backendUser, TRUE} /\ createFailed' = (createFailed \/ ~ok)
      BY <1>6, Zenon DEF CreateDone
    <2> QED
      BY <2>1, Zenon
  <1>7. CASE Dispose \/ ClickLink
    BY <1>7, Zenon DEF Dispose, ClickLink
  <1>8. CASE UNCHANGED vars
    BY <1>8, Zenon DEF vars
  <1> QED
    BY <1>1, <1>2, <1>3, <1>4, <1>5, <1>6, <1>7, <1>8 DEF Next

\* initState establishes the strengthened invariant.
LEMMA InitIInv == Init => IInv
  <1> SUFFICES ASSUME Init PROVE IInv
    OBVIOUS
  <1>1. NumOK
    BY WaitAssumption, CheckAssumption, BoundAssumption DEF Init, NumOK, Pages
  <1>2. Counting /\ OneCountdown /\ CreateBudget /\ NoLeakedTimer /\ DeadOnlyUnsent /\ Confirmed
        /\ Replacing
    BY DEF Init, Counting, OneCountdown, CreateBudget, NoLeakedTimer, DeadOnlyUnsent, Confirmed, Replacing
  <1> QED
    BY <1>1, <1>2 DEF IInv

\* A second passing moves the clock and the timers together.
LEMMA SecondStep == IInv /\ Second => IInv'
  <1> SUFFICES ASSUME IInv, Second PROVE IInv'
    OBVIOUS
  <1> USE WaitAssumption, CheckAssumption, BoundAssumption DEF Second, check, button, server, history
  <1>1. NumOK'
    BY DEF IInv, NumOK
  <1>2. Counting' /\ CreateBudget' /\ NoLeakedTimer' /\ DeadOnlyUnsent' /\ Confirmed' /\ Replacing'
    BY DEF IInv, NumOK, Counting, CreateBudget, NoLeakedTimer,
         DeadOnlyUnsent, Confirmed, Replacing
  <1>3. OneCountdown'
    BY DEF IInv, NumOK, OneCountdown
  <1> QED
    BY <1>1, <1>2, <1>3 DEF IInv

\* A countdown tick takes one second off the button, or ends the countdown.
LEMMA CountdownStep == ASSUME NEW t, IInv, CountdownTick(t) PROVE IInv'
  <1> USE WaitAssumption, CheckAssumption, BoundAssumption DEF check, button, server, history
  <1>1. t \in live /\ due' = due \ {t}
    BY DEF CountdownTick, IInv, NumOK
  <1>2. /\ UNCHANGED <<page, since, timer, sending, sends, checkAge, reloads, creates>>
        /\ UNCHANGED <<checkOn, checkDue, createCalls, covers, peakChecks, overlapped, lateSend, linkClicked>>
    BY DEF CountdownTick
  <1>3. CASE countdownTime <= 0
    <2>1. live' = live \ {t} /\ countdownTime' = 0 /\ canResendEmail'
      BY <1>3 DEF CountdownTick
    <2>2. NumOK' /\ Counting' /\ CreateBudget' /\ NoLeakedTimer' /\ DeadOnlyUnsent' /\ Confirmed' /\ Replacing'
      BY <1>1, <1>2, <2>1 DEF IInv, NumOK, Counting, CreateBudget, NoLeakedTimer,
         DeadOnlyUnsent, Confirmed, Replacing
    <2>3. ~overlapped => live' = {} /\ due' = {} /\ since = WAIT
      BY <1>1, <1>3, <2>1 DEF CountdownTick, IInv, NumOK, OneCountdown
    <2>4. OneCountdown'
      BY <1>2, <2>1, <2>3 DEF IInv, OneCountdown
    <2> QED
      BY <2>2, <2>4 DEF IInv
  <1>4. CASE ~(countdownTime <= 0)
    <2>1. live' = live /\ countdownTime' = countdownTime - 1 /\ canResendEmail' = canResendEmail
      BY <1>4 DEF CountdownTick
    <2>2. NumOK' /\ Counting' /\ CreateBudget' /\ NoLeakedTimer' /\ DeadOnlyUnsent' /\ Confirmed' /\ Replacing'
      BY <1>1, <1>2, <1>4, <2>1 DEF IInv, NumOK, Counting, CreateBudget, NoLeakedTimer,
         DeadOnlyUnsent, Confirmed, Replacing
    <2>3. ~overlapped => due' = {} /\ countdownTime' + since >= WAIT
      BY <1>1, <1>4, <2>1 DEF CountdownTick, IInv, NumOK, OneCountdown
    <2>4. OneCountdown'
      BY <1>2, <2>1, <2>3 DEF IInv, OneCountdown
    <2> QED
      BY <2>2, <2>4 DEF IInv
  <1> QED
    BY <1>3, <1>4

\* The three steps of sendVerificationEmail.
LEMMA SendStep == IInv /\ (PressResend \/ SendDone \/ SendFailed) => IInv'
  <1> SUFFICES ASSUME IInv, PressResend \/ SendDone \/ SendFailed PROVE IInv'
    OBVIOUS
  <1> USE WaitAssumption, CheckAssumption, BoundAssumption DEF check, button, server, history
  <1>1. CASE PressResend
    <2>1. NumOK' /\ Counting' /\ CreateBudget' /\ NoLeakedTimer' /\ DeadOnlyUnsent' /\ Confirmed' /\ Replacing'
      BY <1>1 DEF PressResend, ResendEnabled, IInv, NumOK, Counting, CreateBudget, NoLeakedTimer,
         DeadOnlyUnsent, Confirmed, Replacing
    <2>2. overlapped' <=> overlapped \/ sending > 0 \/ live # {}
      BY <1>1 DEF PressResend
    <2>3. OneCountdown'
      BY <1>1, <2>2 DEF PressResend, ResendEnabled, IInv, NumOK, OneCountdown
    <2> QED
      BY <2>1, <2>3 DEF IInv
  <1>2. CASE SendDone
    <2>1. NumOK' /\ Counting'
      BY <1>2 DEF SendDone, IInv, NumOK, Counting
    <2>2. CreateBudget'
      BY <1>2 DEF SendDone, IInv, NumOK, CreateBudget
    <2>3. /\ ~canResendEmail' /\ due' = due /\ live' = live \union {timer'}
          /\ sending > 0 /\ sending' = sending - 1 /\ overlapped' = overlapped
          /\ countdownTime' = WAIT /\ since' = 0
      BY <1>2 DEF SendDone
    <2>4. ~overlapped => sending = 1 /\ live = {} /\ due = {}
      BY <2>3 DEF IInv, NumOK, OneCountdown
    <2>5. OneCountdown'
      BY <2>3, <2>4 DEF OneCountdown
    <2>6. lateSend' <=> lateSend \/ page = "disposed"
      BY <1>2 DEF SendDone
    <2>7. NoLeakedTimer' /\ DeadOnlyUnsent' /\ Confirmed' /\ Replacing'
      BY <1>2, <2>6 DEF SendDone, IInv, NoLeakedTimer, DeadOnlyUnsent, Confirmed, Replacing
    <2> QED
      BY <2>1, <2>2, <2>7, <2>5 DEF IInv
  <1>3. CASE SendFailed
    BY <1>3 DEF SendFailed, IInv, NumOK, Counting, OneCountdown, CreateBudget,
                NoLeakedTimer, DeadOnlyUnsent, Confirmed, Replacing
  <1> QED
    BY <1>1, <1>2, <1>3

\* The steps of checkEmailVerified, the end of the page and the user's click.
LEMMA CheckStep ==
    ASSUME IInv,
           \/ CheckTick \/ (\E v \in BOOLEAN : ReloadDone(v)) \/ ReloadFailed
           \/ (\E ok \in BOOLEAN : CreateDone(ok)) \/ Dispose \/ ClickLink
    PROVE  IInv'
  <1> USE WaitAssumption, CheckAssumption, BoundAssumption DEF check, button, server, history
  <1>1. CASE CheckTick
    BY <1>1 DEF CheckTick, IInv, NumOK, Counting, OneCountdown, CreateBudget,
                NoLeakedTimer, DeadOnlyUnsent, Confirmed, Replacing
  <1>2. ASSUME NEW v \in BOOLEAN, ReloadDone(v) PROVE IInv'
    BY <1>2 DEF ReloadDone, IInv, NumOK, Counting, OneCountdown, CreateBudget,
                NoLeakedTimer, DeadOnlyUnsent, Confirmed, Replacing
  <1>3. CASE ReloadFailed
    BY <1>3 DEF ReloadFailed, IInv, NumOK, Counting, OneCountdown, CreateBudget,
                NoLeakedTimer, DeadOnlyUnsent, Confirmed, Replacing
  <1>4. ASSUME NEW ok \in BOOLEAN, CreateDone(ok) PROVE IInv'
    BY <1>4 DEF CreateDone, IInv, NumOK, Counting, OneCountdown, CreateBudget,
                NoLeakedTimer, DeadOnlyUnsent, Confirmed, Replacing, Pages
  <1>5. CASE Dispose
    BY <1>5 DEF Dispose, IInv, NumOK, Counting, OneCountdown, CreateBudget,
                NoLeakedTimer, DeadOnlyUnsent, Confirmed, Replacing, Pages
  <1>6. CASE ClickLink
    BY <1>6 DEF ClickLink, IInv, NumOK, Counting, OneCountdown, CreateBudget,
                NoLeakedTimer, DeadOnlyUnsent, Confirmed, Replacing
  <1> QED
    BY <1>1, <1>2, <1>3, <1>4, <1>5, <1>6

\* A step that changes nothing keeps the invariant.
LEMMA StutterStep == IInv /\ UNCHANGED vars => IInv'
  BY DEF vars, check, button, server, history, IInv, NumOK, Counting, OneCountdown,
         CreateBudget, NoLeakedTimer, DeadOnlyUnsent, Confirmed, Replacing

\* The strengthened invariant holds in every reachable state of the page.
THEOREM Inductive == Spec => []IInv
  <1>1. IInv /\ [Next]_vars => IInv'
    BY SecondStep, CountdownStep, SendStep, CheckStep, StutterStep DEF Next
  <1> QED
    BY InitIInv, <1>1, PTL DEF Spec

\* Fields and counters of the page keep their types; in particular the number on
\* the button stays between 0 and WAIT although several timers may decrement it.
THEOREM TypeCorrect == Spec => []TypeOK
  <1>1. Init => BoolOK
    BY Zenon DEF Init, BoolOK
  <1>2. Spec => []BoolOK
    BY <1>1, BoolStep, PTL DEF Spec
  <1>3. IInv => NumOK
    BY DEF IInv
  <1> QED
    BY Inductive, TypeParts, <1>2, <1>3, PTL

\* The button of verify_email_page.dart is enabled only when a press is accepted,
\* as long as sends do not overlap.
THEOREM ResendIsHonest == Spec => []ResendHonest
  <1>1. IInv => ResendHonest
    BY DEF IInv, NumOK, OneCountdown, ResendHonest
  <1> QED
    BY Inductive, <1>1, PTL

\* checkEmailVerified calls createUser at most as often as checks overlapped.
THEOREM CreateCallsBounded == Spec => []CreatesBounded
  <1>1. IInv => CreatesBounded
    BY DEF IInv, NumOK, CreateBudget, CreatesBounded
  <1> QED
    BY Inductive, <1>1, PTL

\* dispose() leaves no countdown timer behind, except in the two named cases.
THEOREM NoTimerLeaks == Spec => []NoLeakedTimer
  <1>1. IInv => NoLeakedTimer
    BY DEF IInv
  <1> QED
    BY Inductive, <1>1, PTL

\* The button is dead only when no e-mail was ever sent.
THEOREM DeadMeansUnsent == Spec => []DeadOnlyUnsent
  <1>1. IInv => DeadOnlyUnsent
    BY DEF IInv
  <1> QED
    BY Inductive, <1>1, PTL

\* The page implements Onboarding: every step is the user's click, an answer to
\* createUser that lets a confirmed user out, or none of Onboarding's business.
THEOREM PageKeepsPromise == Spec => OnboardingKept
  <1>1. Init => Promise!Init
    BY DEF Init, Promise!Init
  <1>2. ASSUME IInv, BoolOK, [Next]_vars PROVE [Promise!Next]_(Promise!vars)
    <2> USE DEF check, button, server, history, Promise!vars
    <2>1. CASE Second \/ (\E t \in due : CountdownTick(t))
      BY <2>1 DEF Second, CountdownTick
    <2>2. CASE PressResend \/ SendDone \/ SendFailed
      BY <2>2 DEF PressResend, SendDone, SendFailed
    <2>3. CASE CheckTick \/ (\E v \in BOOLEAN : ReloadDone(v)) \/ ReloadFailed
      BY <2>3 DEF CheckTick, ReloadDone, ReloadFailed
    <2>4. ASSUME NEW ok \in BOOLEAN, CreateDone(ok) PROVE Promise!Answered
      <3>1. linkClicked /\ linkClicked' = linkClicked
        BY <1>2, <2>4 DEF CreateDone, IInv, Confirmed
      <3>2. page' # "shown"
        BY <2>4 DEF CreateDone
      <3>3. CASE ok
        <4>1. backendUser' = TRUE /\ createFailed' = createFailed
          BY <1>2, <2>4, <3>3, Zenon DEF CreateDone, BoolOK
        <4> QED
          BY <3>1, <3>2, <4>1, Zenon DEF Promise!Answered
      <3>4. CASE ~ok
        <4>1. backendUser' \in {backendUser, TRUE} /\ createFailed' = TRUE
          BY <2>4, <3>4, Zenon DEF CreateDone, BoolOK
        <4> QED
          BY <3>1, <3>2, <4>1, Zenon DEF Promise!Answered
      <3> QED
        BY <3>3, <3>4
    <2>5. CASE Dispose
      BY <2>5 DEF Dispose
    <2>6. CASE ClickLink
      BY <2>6 DEF ClickLink, Promise!Next, Promise!Click
    <2>7. CASE UNCHANGED vars
      BY <2>7 DEF vars
    <2> QED
      BY <1>2, <2>1, <2>2, <2>3, <2>4, <2>5, <2>6, <2>7 DEF Next, Promise!Next
  <1>3. Spec => []BoolOK
    <2>1. Init => BoolOK
      BY Zenon DEF Init, BoolOK
    <2> QED
      BY <2>1, BoolStep, PTL DEF Spec
  <1> QED
    BY <1>1, <1>2, <1>3, Inductive, PTL DEF Spec, OnboardingKept, Promise!Spec

\* A Cover opened by checkEmailVerified is replaced by another one only by checks that
\* overlapped it.
THEOREM CoverIsKept == Spec => []CoverStays
  <1>1. IInv => CoverStays
    BY DEF IInv, NumOK, CreateBudget, Replacing, CoverStays
  <1> QED
    BY Inductive, <1>1, PTL
=============================================================================
