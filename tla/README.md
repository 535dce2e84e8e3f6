# Good Omens: a TLA+ verification project

Good Omens is a Flutter app (`lib/`, about 7,300 lines of Dart). A user signs in, taps a
Bible on the Cover, reads a verse, its explanation and a guidance page, asks a question of
their own and chats about it with an assistant. The profile lets the user choose a theme and
log out. Firebase does authentication, an HTTP backend stores users and verses, a socket.io
server streams the assistant's answers.

The program is one Dart isolate, so there are no data races. What makes it hard is that its
pages are full of asynchronous functions: between an `await` and its continuation other taps,
timers and answers happen, and most continuations act on whatever is there by then, the page
on top of the Navigator, a shared field, the current Firebase user. That is what these models
are about.

## Inventory

| Part | State it keeps | Operations | Talks to |
|---|---|---|---|
| VerifyEmailPage (`pages/profile/verify_email_page.dart`) | resend button, countdown, two kinds of timers, verified flag | send, countdown tick, periodic check, createUser, dispose | Firebase, backend |
| Reading flow (`pages/home/`: cover, verse, explaination, guidance, personal_query) | the Navigator's stack; each page's theme and offset; the Cover's loading flag, verse and explanation future | tap the Bible, swipe to the next page, back, menu; three requests end | backend, profile |
| ChatPage (`pages/home/chat.dart`) | history, response being received, last question | send, `new_message`, `end_of_response`, dispose | socket.io server |
| Theme setting (`profile_home_page`, `preference_setting_page`, `theme_bottom_modal`, `background_swiper`) | one copy of the theme per page, a global carousel index | GET on opening, swipe, Confirm (PUT), Cancel, back | backend, reading flow |
| Signing in and out (`auth_page`, `login_page`, `signup_page`, `forgot_password_page`, `email_sent_confirm`, `google_sign_in_button`, `authentication`, `profile`, `main`) | Firebase's current user, loading dialogs, the stack | log in, sign up, Google, reset, initializeFirebase, log out, redirections of the Cover | Firebase, backend |
| UserService (`services/user.dart`) | none | get, create, update theme, first-time check | backend |
| Membership pages, query output page | - | unreachable: every button to them is commented out | - |
| Static pages (about, agreement, privacy, contact) | - | opened and closed above the profile | profile |
| Widgets, backgrounds, animation, runners | - | drawing | - |

What is hard, with the line where it bites, is the list `hazards` of `PROJECT.json`:
overlapping checks and sends, continuations after the page is gone, blind `pop()` and
`pushReplacement`, results of pages that never come, stale copies of the theme, error values
read as success, mixed or broken streams, sign-outs nobody waits for, an app that is killed
before a record is created.

What makes each part correct:

* verification: the button tells when an e-mail can be sent; createUser is not called again
  and again; the Cover it opens is not replaced again; the page leaves nothing running; a verified
  user gets on;
* reading flow: the pages stay in their order, the chosen theme stays, the Cover stays usable;
* chat: nothing received is lost or doubled, an answer is whole and under its question;
* theme: what is shown is what is stored, also when the user confirms twice, swipes on or reads
  a verse while an update is on its way;
* session: a loading circle belongs to a request, the Cover to a verified user who has a
  record, and each session has one Cover; signing in ends there;
* reading flow and settings together: the page on the screen shows the theme that is stored.

## Modules and the code

Every asynchronous function is cut at its awaits; what happens between two awaits is one
action. A request ends in each way the code tells apart: answer, error answer, exception.
Variables named "history" are read by properties only.

**VerifyEmail** models one `VerifyEmailPage`. Fields keep their names. `Second` is time: it
makes timers due; `CountdownTick` and `CheckTick` are their callbacks. `PressResend`,
`SendDone`, `SendFailed` are `sendVerificationEmail`; `CheckTick`, `ReloadDone`,
`ReloadFailed`, `CreateDone` are `checkEmailVerified`. Countdown timers are numbered because
`dispose()` knows the newest only. The age of the last e-mail is cut off at WAIT, where the
code's test stops telling ages apart. The release build is modelled: `setState` on a disposed
State runs its closure and throws. `canResendEmail` is the field and `drawn` the button as last
built: an answer to a send changes the field without `setState`, so a press of a button not
redrawn yet meets the test of `sendVerificationEmail`. A replaced page stays mounted until its
transition is over; a further `createUser` answer in that time replaces the Cover by another
(`covers` counts them), and `CoverStays` bounds this by the checks that were in flight together.
`DeadOnlyUnsent` says exactly when the disabled button is
dead: when the first send has failed and no e-mail was ever sent.

**Onboarding** is what that page promises to the rest of the app, without timers, retries or
overlapping checks: the Cover comes after the link and after an answer to `createUser`, a bad
one included, and a record is never taken away. `OnboardingKept` is the refinement.

**Home** models the reading flow as a sequence of pages, each with its theme, the page that
awaits its result, the explanation it was given and whether its offset is non-zero.
`OpenBible`, `FetchOk`, `FetchFailed`, `FetchThrew` are `fetchVerse` with the `handleGesture`
that continues after it; `ExplainOk`, `ExplainFailed`, `ExplainThrew` are `generateOutput`,
whose error path pops the page on top. `Back` and `CloseProfile` return a theme, `Resume` is
what the awaiting page does with it. A page closed without a result makes
`int themeOut = await ...` throw, so nothing after it happens. Texts are the number of their
fetch. A page replaced by log-out is taken as unmounted at once. The pages inside the profile
are not pages of the stack: `ConfirmTheme`, `ThemeAnswered` and `ThemeUnanswered` are the updates
of its theme sheet, whose answers pop the page on top, the profile, the page below it or a Verse
that came late; or a page inside the profile, which changes nothing here. Over an empty stack
`EmptiedByBlindPop` says that only such an answer or a failed explanation got there.

**Chat** models `ChatPage` and, as an external part, the connection: streams that are queued,
open, done or lost. Events carry no question, as in the code; a chunk is modelled by the
number of its stream so that properties can tell whose it is. `CONCURRENT` says whether the
server interleaves streams, which the repository does not show.

**Conversation** is what the reader of a chat is promised: entries are only ever added, one at
a time, and while questions come one after the other each answer is that of the open question.
The refinement (`ConversationKept`) maps `chatHistory` without its two header entries, and an
entry to its kind and the number of its stream.

**ThemeSettings** models the three pages, the sheet and the server. A request is served and
answered in separate steps, so an answer may be stale or lost. `PopWith` pops the page on top,
whichever it is. The home page below may have been left with calls under way (`late`): a verse
is pushed over the settings and lies on them until the user goes back or an answer closes it
(`LateVerse`, `CloseVerse`), a failed explanation pops the page on top (`LateFailure`).
`shownOk`, `currOk`, `prefOk` tell a value from the initial 0. `raced` is set when a GET is
answered with an old value; when the server changes the theme after the sheet that asked for it
has closed; when a sheet is cancelled whose update is made but not answered; when an answer
returns an index that is not the stored theme or closes a Verse; and when a failed explanation
closes a page of the settings. It is no race to swipe, to confirm again or to read a verse while
an update is on its way: `HomeAgrees` covers these, and the pops of several answers in a row.
`PreferenceSettingPage.onWillPop` pops and also returns true; the Navigator drops the second pop
because its top route has changed, so one pop is modelled. The About page and the texts below
it are levels above the profile: an answer that pops blindly may find one of them.

**ThemeRegister** is what those pages promise to the home page: a visit, during which the theme
is written any number of times, after which the theme written last is shown, unless the visit
ended before the profile had its data (`blind`). It promises nothing from the first race on.
`RegisterKept` maps being on any page but home to `away`.

**App** composes Home with what Home leaves open. Home lets a profile return any theme and the
server answer any; in App the server stores a theme, each open profile has a copy with a
request of its own, and the Cover's request is answered with what the server had when it dealt
with it. A profile has its preference page and sheet (`level`), and an update of the theme is
`Confirm`, `PutServed` and `PutAnswered` (or `PutRefused`, `SheetGone`), with any step of the rest
of the app in between: verses that open over the sheet, failed explanations, further presses of
Confirm, a restart. The updates sit in `puts`; the sheet's global `index` is shared by all
profiles. Every step of App is a step of Home or `Relaunch`, the app killed and started again.
`raced` is set as in ThemeSettings, and when the theme changes with a second profile open: the
one below keeps a stale copy. A page the user has opened over a waiting sheet is no race as such:
it is one if the answer comes while that page is on top, and is popped in place of the sheet.

**Session** models signing in and out on a stack of page names. `calls` are the asynchronous
functions in flight: what each awaits, where its page is in the stack (0 once it left) and
whether its context is still mounted (`ContextGone` ends that, after the exit transition).
`SignIn*`, `SignUp*`, `MethodsDone`, `Reset*`, `PressGoogle`, `GoogleOk`, `CheckDone`,
`CreateDone`, `InitDone` are the pieces of the functions of those names. The loading circle is
a page of its own, closed by the system's back button although its barrier is not
dismissible. `navigatorKey` is never attached to `MaterialApp`, so its `popUntil` does
nothing. A log-out from a profile above a reading page replaces that page by Auth and leaves the
Cover of the session in the stack: `LeaveCover` makes it an `OldCover`, and the sessions that
follow run above it. The back button of Auth shows it again, to whoever is there; from its
profile the user may log out once more. `OneCover` says that these are the only ones besides the
Cover of the session. `raced` is set when a continuation finds another page on top than its own,
when `initializeFirebase` overtakes the Google button, or when a sign-out that nobody awaited
arrives after the next session has begun. VerifyEmailPage is one step here; its inside is
VerifyEmail.
`Restart` is the app killed and started again: pages and calls are gone, requests on their way
may or may not have reached the server, Firebase keeps the user as the client knew it. `missed`
is set when `createUser` failed, or the app was closed between signing up (or in with Google)
and `createUser`; nothing in the app creates the record later, so this is where `UserRecorded`
ends.

`MC*` modules extend these for TLC; `*Proofs` modules hold the theorems. Definitions whose
names have a suffix (`SendDone_StaysEnabled`) are mutants: slips that a property must notice.
No specification uses them.

## Runs

| Run | Shows | Bounds |
|---|---|---|
| verify_email | TypeOK, ResendHonest, CreatesBounded, NoLeakedTimer, DeadOnlyUnsent, CoverStays, OnboardingKept, VerifiedLeaves, ResendComesBack, TimersEnd | 3 sends, 3 checks at once, WAIT 3, period 2: sends and checks overlap, a third meets the leftovers of two |
| verify_email_early | **violated** ResendNeverEarly | two taps, two countdowns on one counter |
| home | TypeOK, OneReading, ThemeSticks, CoverUsable, BrokenOnlyFirst, EmptiedByBlindPop, BibleOpens | 2 verses, 2 themes, 1 theme update at a time: a late answer of one verse meets the pages of the next, a new theme the old one |
| home_offset | **violated** OffsetReset | failed explanation pops a page without a result |
| app | AppTypeOK, ShowsStored | 2 themes, 1 verse between two starts of the app, 2 updates at once: enough for a late verse over a waiting sheet, a second Confirm and a second profile above the first |
| chat | TypeOK, ChunksConserved, AnswersWhole, InputIsLastQuestion, ResponseArchived, ConversationKept | 3 questions, 2 chunks each, 1 break, interleaving server |
| chat_complete | **violated** CompleteAnswer | one break, server without interleaving |
| theme_settings | TypeOK, HomeAgrees, RegisterKept | 3 themes (old, chosen, chosen instead), 2 Confirm presses |
| theme_failure | **violated** FailureReported | 2 themes, 1 press |
| session | TypeOK, DialogOwned, CoverVerified, UserRecorded, OneCover, SignedInArrives | 2 calls at once, 5 pages (Cover, Profile, Forgot, circle from within; Auth, Login, Forgot, circle on the way in) |
| session_loading | **violated** LoadingHidden | 1 call |
| session_verify | **violated** VerifyHasUser | 1 call |

The six violations are the `findings` of `PROJECT.json`. Each quotes the comment or the text
on the screen that the property states.

Safety properties with a condition such as `~overlapped` or `~raced` say exactly how far the
code's promise goes: TLC finds a counterexample as soon as the condition is dropped, so the
condition is the code's, not the model's. Where the code does go wrong in the excluded cases and
no comment or test says otherwise, the hazard is listed with a note and without a property. The
runs theme_settings, app and session have a CONSTRAINT that stops at the first race: but for the
type invariants their properties say nothing of a raced state and `raced` is never reset, so
nothing that is claimed is left out. For `SignedInArrives` a race is among the goals, so a
behaviour that is cut off there has reached one.

The constraint of MCApp (`Explored`) also bounds what is combined: stacks of three pages with a
profile open, or the four of a second profile over a late verse once the requests below it have
ended; two updates at once over one profile, of a signed-in user, that has its data; and no new
update while those of a closed sheet or an earlier start are on their way. Its VIEW leaves out
the offset of a page and Home's history variables, which no step or property of App reads. The
theorems about App are without these bounds.

Other bounds: one sign-out pair under way at a time, and in Session no new tap before the
0.3 s transition of the last page is over (`Settled`); answers, rebuilds and back are not held
up by it. Runs that say `CHECK_DEADLOCK FALSE` have bounded numbers of questions, verses or
pages, after which nothing is left to do; VerifyEmail's clock always runs.

## Fairness

Nothing is assumed of the user or of the network's reliability. VerifyEmail: time passes, due
callbacks run (Dart's event loop), requests end in one of their ways, transitions end; and a
server asked again and again does not fail, or answer with the old value, for ever after the
link was followed (strong fairness of `ReloadDone(TRUE)`). Home: requests end, with an answer
or an exception. Chat: the first frame is drawn, the server ends each stream it works on while
the connection lasts. Session: each call is answered or throws.
The user may press back, switch forms, restart the app or do nothing at all.

## Proofs

TLAPS proves every safety property of the passing runs, invariants, action properties and
refinements, for every value of the constants. Each theorem follows from an inductive
invariant, `IInv`, which TLC checked on small instances before it was proved; every `*Proofs`
module has one lemma per action that says the action keeps it. The assumptions are those of
the models: bounds are numbers (the waiting time, the check period and the sends and checks of
VerifyEmail positive ones), the carousel has an image, null and the Cover's 999 are not themes
a user can have while 0, the initial value of the pages, is one, and finitely many calls are in
flight. TLC evaluates all of them.

* `VerifyEmailProofs`: TypeCorrect, ResendIsHonest, CreateCallsBounded, NoTimerLeaks,
  DeadMeansUnsent, CoverIsKept, PageKeepsPromise. `ResendHonest` is not inductive: that the
  button's number keeps up with the clock depends on there being a single countdown timer which
  is the newest one and on its ticks not running ahead of the seconds (a due tick owes one).
  `IInv` adds that (OneCountdown), the numbering of the timers (Counting) and, for
  `CreatesBounded`, a budget (CreateBudget): while the check timer runs every createUser call
  is still in flight, and afterwards calls made plus reloads in flight never exceed the peak;
  for CoverIsKept, that every Cover opened is the answer to one of these calls (Replacing).
  For PageKeepsPromise, that VerifyEmail implements Onboarding, it adds that a createUser call
  in flight is that of a user who followed the link (Confirmed).
* `ThemeSettingsProofs`: TypeCorrect, HomeShowsStored and SettingsAreRegister, that
  ThemeSettings implements ThemeRegister. `HomeAgrees` speaks of the home page; `IInv` says of
  each page that, when it comes to the top, it has the stored theme, except that a sheet may wait
  for the answer to an update the server has made (Agrees): whatever it returns then, without a
  race it is the stored theme. A Verse lies on pages of the settings only (VerseAway).
* `HomeProofs`: TypeCorrect, ReadingIsOne, ThemeStays, CoverIsUsable, BrokenFirst,
  OnlyBlindPopsEmpty. The properties look at the page on top, but a `pop()` may make any page
  the top one, so `IInv` is about the whole stack (Stacked, page by page PageOK): a Verse has no
  home page but the Cover below it and is not there while a verse is fetched; every other page
  returns to the page directly below. The chosen theme is that of every page a return would
  show next (Chosen), and the Cover's spinner follows its field unless a Verse hides it
  (Loading).
* `AppProofs`: AppTypeCorrect, StoredShown. A step of the app is a step of Home or a restart
  (AppStepIsHomeStep), so Home's invariant is taken over; on top of it, without a race, what the
  user sees of every profile that has its data, the profile, its preference page or its sheet,
  agrees with the server, but that the sheet may wait for an update the server has made (Copies),
  and with no profile open so does every page a return would show (Shows). Three lemmas say what
  has to be checked of a step that keeps the stack, changes one copy, or closes pages.
* `ChatProofs`: TypeCorrect, AllChunksShown, AnswersAreWhole, InputIsLast, KeepsConversation
  (Chat implements Conversation). `AnswersWhole` is not inductive: unless something was mixed
  there is one open question at most, the last, and the text being received is as much of its
  answer as has come (OneOpen, InOrder); no question entered the history after it (LastAsked).
  `ListLemmas` has the fact that conservation rests on, what FlattenSeq does with one entry
  more, from the function that defines it and the least counterexample of a set of numbers.
* `SessionProofs`: TypeCorrect, StrangersKeptOut, RecordedOnCover, CoverIsOne, CirclesOwned.
  Types hold always, after races too; the rest of `IInv` holds until the first race. Above a
  Cover there are pages of the profile only (Placed): so a form or VerifyEmailPage on top means
  there is no Cover below, and whatever opens the next one replaces the way in. Each call whose
  page is in the stack has a page of its kind there (Owned), and each loading circle is directly
  above the page of a call that opened it (Circled); an injection from circles to calls gives
  the comparison of their numbers. An e-mail account without a record is on VerifyEmailPage
  (EmailRecorded); a Google account without one has a call that looks after it, and no Cover
  opens before that call is done (GoogleRecorded). The last two are why `UserRecorded` holds,
  and `missed` is exactly what takes them away. The theorems hold for any number of calls at
  once and any depth of the stack, where the run has two and five; the types also cover the
  raced states that the runs of Session and App cut off.

Only model-checked: the liveness properties (`VerifiedLeaves`, `ResendComesBack`, `TimersEnd`,
`BibleOpens`, `ResponseArchived`, `SignedInArrives`), since this prover does neither fairness
nor ENABLED; the violations, which are counterexamples.

## Not modelled

Membership pages and `QueryOutputPage` (no button that is not commented out opens them, so no
state of the program reaches them), drawing, the orbit
animation of `three_body.dart` (floating point), sharing and screenshots, JSON decoding, form
validation, generated configuration and vendored pods. `test/widget_test.dart` is the
template's counter test. `UserSubscription` of `main.dart` is left out:
the code that would act on it is commented out.

## Plan

1. Done: VerifyEmail, Home, Chat, ThemeSettings, Session; the composition App; the abstract
   specifications Onboarding, Conversation and ThemeRegister with their refinements; restarts
   of the app; proofs of every safety property of the passing runs and of the refinements.
2. Next: that App between two starts implements Home, as a theorem about the specifications
   (the step lemma is there); Session's VerifyEmailPage as an instance of Onboarding.
3. Should the membership buttons come back: `subscribe`, `unsubscribe` and the limit on
   questions in the chat.
