------------------------------ MODULE Session ------------------------------
(***************************************************************************)
(* Signing in and out: AuthPage, LoginWidget, SignUpWidget, the Google     *)
(* button, ForgotPasswordPage and EmailSentPage (lib/pages/profile/,       *)
(* lib/utils/authentication.dart), the profile with its Log Out and Reset  *)
(* Password, and the Cover as far as it sends users away who are not       *)
(* signed in.  The app may be killed and started again at any moment;      *)
(* Firebase keeps the user, as the client last knew it.                    *)
(*                                                                         *)
(* Each asynchronous function is cut at its awaits.  What it does after an *)
(* await it does to the Navigator, not to its page: pop() closes the page  *)
(* on top and pushReplacement replaces it, whichever it is by then.  The   *)
(* loading circle is a dialog, a page of its own, which the system's back  *)
(* button closes although its barrier does not.  A call whose page is gone *)
(* (`live' is FALSE) throws at its first use of the context.  A page that  *)
(* left the stack stays mounted until its transition ends (ContextGone).   *)
(*                                                                         *)
(* Two accounts: one with e-mail and password, one of Google.  The page    *)
(* VerifyEmail, whose timers are in module VerifyEmail, is one step here.  *)
(* navigatorKey is never given to MaterialApp: its currentState is null.   *)
(***************************************************************************)
EXTENDS Integers, Sequences, FiniteSets, Functions

CONSTANTS
    Calls,     \* bound: identities of the calls in flight
    MaxDepth   \* bound: pages on the stack

ASSUME CallsAssumption == IsFiniteSet(Calls)
ASSUME DepthAssumption == MaxDepth \in Nat \ {0}

VARIABLES
    stack,      \* the Navigator's history; the last page is on top
    calls,      \* the asynchronous calls in flight
    user,       \* FirebaseAuth.currentUser: "none", "email" or "google"
    verified,   \* its emailVerified, as the client knows it
    registered, \* the server has the e-mail account
    confirmed,  \* its link was followed
    record,     \* the accounts that have a user record in the backend
    signOuts,   \* FirebaseAuth signOut calls under way
    \* History variables, read by the properties only.
    threw,      \* an exception other than FirebaseAuthException ended a call
    raced,      \* a step met a page or a user other than the one it was meant for
    missed      \* a createUser call failed, or the app was closed before it was made

auth == <<user, verified>>
server == <<registered, confirmed, record>>
history == <<threw, raced, missed>>
vars == <<stack, calls, auth, server, signOuts, history>>

Accounts == {"email", "google"}

\* The pages, as far as they differ in what can be done on them.
AuthPage == "Auth"
LoginWidget == "Login"
SignUpWidget == "SignUp"
ForgotPasswordPage == "Forgot"
EmailSentPage == "EmailSent"

\* "Starting" is a Cover before its first frame, "OldCover" one that a log-out has left in
\* the stack; both stand for the pages of the reading flow above them too.  "VerifyIdle" is
\* a VerifyEmailPage that found the user verified and started no timer, "Error" one that
\* found no user.
PageNames == {"Starting", "Cover", "OldCover", AuthPage, LoginWidget, SignUpWidget, ForgotPasswordPage,
              EmailSentPage, "Profile", "Verify", "VerifyIdle", "Error", "Dialog"}

\* What a call awaits.
Awaits == {"init", "signIn", "signUp", "methods", "reset", "google", "check",
           "createGoogle", "createEmail"}
Creating == [google |-> "createGoogle", email |-> "createEmail"]
\* A call knows the position of its page in the stack, 0 once the page has left it.
NoCall == [await |-> "none", page |-> 0, live |-> FALSE]

Top == stack[Len(stack)]
OnTop(names) == stack # <<>> /\ Top \in names

\* The pages after pop() k times, or after pop() k - 1 times and pushReplacement, where
\* `new' is the page opened, if any.  Without a page left to pop, the rest is not done.
Left(k) == IF Len(stack) >= k THEN Len(stack) - k ELSE 0
After(k, new) == SubSeq(stack, 1, Left(k)) \o (IF Len(stack) >= k THEN new ELSE <<>>)
\* The calls, whose pages may be among those that left.
Kept(cs, k) ==
    [c \in Calls |-> IF cs[c].page > Left(k) THEN [cs[c] EXCEPT !.page = 0] ELSE cs[c]]
Show(cs, k, new) == stack' = After(k, new) /\ calls' = Kept(cs, k)

\* VerifyEmailPage.initState for the user u, verified or not.
VerifyPage(u, v) == IF u = "none" THEN "Error" ELSE IF v THEN "VerifyIdle" ELSE "Verify"

Begun(c, await, page) == [calls EXCEPT ![c] = [await |-> await, page |-> page, live |-> TRUE]]
Continued(c, await) == [calls EXCEPT ![c].await = await]
Ended(c) == [calls EXCEPT ![c] = NoCall]
Free(c) == calls[c].await = "none"
Awaiting(c, await) == calls[c].await = await

Init ==
    /\ calls = [c \in Calls |-> NoCall]
    /\ stack = <<"Starting">>
    /\ user \in {"none"} \union Accounts
    /\ registered \in BOOLEAN /\ confirmed \in BOOLEAN
    /\ user = "email" => registered
    /\ confirmed => registered
    /\ verified = CASE user = "none" -> FALSE [] user = "email" -> confirmed [] OTHER -> TRUE
    /\ record = (IF user = "google" THEN {"google"} ELSE {})
                   \union (IF confirmed THEN {"email"} ELSE {})
    /\ signOuts = 0
    /\ threw = FALSE /\ raced = FALSE
    /\ missed = (registered /\ ~confirmed)   \* an earlier run ended on VerifyEmailPage

\* The page on top is the page of call c; the dialog on top is the one of call c.
MyPage(c) == stack # <<>> /\ calls[c].page = Len(stack)
MyDialog(c) == OnTop({"Dialog"}) /\ Len(stack) > 1 /\ calls[c].page = Len(stack) - 1

\* The user starts nothing new before the transition of the last page is over (a bound:
\* the transition takes 0.3 s).
Settled == \A c \in Calls : calls[c].live => calls[c].page # 0

Room == Len(stack) < MaxDepth

\* The profile is closed, a reading page above the Cover becomes Auth, the Cover stays.
LeaveCover ==
    [After(1, <<AuthPage>>) EXCEPT ![Len(stack) - 1] = IF @ = "Cover" THEN "OldCover" ELSE @]

-----------------------------------------------------------------------------
(* Mutants: plausible bugs that the properties must catch. *)

\* A third signOut.
LogOut_Thrice(deep) ==
    /\ OnTop({"Profile"}) /\ Settled /\ signOuts = 0
    /\ stack' = IF deep THEN LeaveCover ELSE After(2, <<AuthPage>>)
    /\ calls' = Kept(calls, IF deep THEN 1 ELSE 2)
    /\ signOuts' = 3
    /\ UNCHANGED <<auth, server, history>>

\* The pop() before pushReplacement is missing.
LogOut_NoPop(deep) ==
    /\ OnTop({"Profile"}) /\ Settled /\ signOuts = 0
    /\ Show(calls, 1, <<AuthPage>>)
    /\ signOuts' = 2
    /\ UNCHANGED <<auth, server, history>>

\* The error branch of resetPassword without its pop().
ResetRefused_NoPop(c) ==
    /\ Awaiting(c, "reset") /\ calls' = Ended(c)
    /\ UNCHANGED <<stack, auth, server, signOuts, history>>

\* The Cover looks for a user and not for a verified address.
CoverBuilt_AnyUser(i) ==
    /\ stack[i] = "Starting"
    /\ IF user # "none"
       THEN stack' = [stack EXCEPT ![i] = "Cover"] /\ UNCHANGED <<calls, raced>>
       ELSE /\ stack' = [After(1, <<AuthPage>>) EXCEPT
                            ![i] = IF i = Len(stack) THEN @ ELSE "Cover"]
            /\ calls' = Kept(calls, 1)
            /\ raced' = (raced \/ i # Len(stack))
    /\ UNCHANGED <<auth, server, signOuts, threw, missed>>

-----------------------------------------------------------------------------
(* Cover *)

\* The first frame of a Cover.  The redirections replace the page on top.
CoverBuilt(i) ==
    /\ stack[i] = "Starting"
    /\ IF verified
       THEN stack' = [stack EXCEPT ![i] = "Cover"] /\ UNCHANGED <<calls, raced>>
       ELSE /\ stack' = [After(1, <<AuthPage>>) EXCEPT
                            ![i] = IF i = Len(stack) THEN @ ELSE "Cover"]
            /\ calls' = Kept(calls, 1)
            /\ raced' = (raced \/ i # Len(stack))
    /\ UNCHANGED <<auth, server, signOuts, threw, missed>>

\* The menu of a Cover opens the page ProfileNav has for the user.
Menu ==
    /\ OnTop({"Cover", "OldCover"}) /\ Settled /\ Room
    /\ Show(calls, 0, << IF user = "none" THEN AuthPage
                         ELSE IF verified THEN "Profile" ELSE "Verify" >>)
    /\ UNCHANGED <<auth, server, signOuts, history>>

\* Log out: pop() closes the profile, pushReplacement puts Auth in the place of the page
\* below it: the Cover itself or, with `deep', a page of the reading flow above the Cover,
\* which then stays in the stack (LeaveCover).  Firebase's signOut is called twice, here and, after
\* Google's, in Authentication.signOut; neither is awaited.
LogOut(deep) ==
    /\ OnTop({"Profile"}) /\ Settled
    /\ signOuts = 0   \* bound
    /\ stack' = IF deep THEN LeaveCover ELSE After(2, <<AuthPage>>)
    /\ calls' = Kept(calls, IF deep THEN 1 ELSE 2)
    /\ signOuts' = 2
    /\ UNCHANGED <<auth, server, history>>

SignedOut ==
    /\ signOuts > 0 /\ signOuts' = signOuts - 1
    /\ user' = "none" /\ verified' = FALSE
    /\ raced' = (raced \/ ~OnTop({AuthPage}) \/ \E c \in Calls : ~Free(c))
    /\ UNCHANGED <<stack, calls, server, threw, missed>>

-----------------------------------------------------------------------------
(* From page to page *)

\* Every build of Login and SignUp calls initializeFirebase.
OpenForm(c, k, form) ==
    /\ Free(c) /\ Settled
    /\ stack' = After(k, <<form>>)
    /\ calls' = [Kept(calls, k) EXCEPT
                   ![c] = [await |-> "init", page |-> Left(k) + 1, live |-> TRUE]]
    /\ UNCHANGED <<auth, server, signOuts, history>>

OpenLogin(c) == OnTop({AuthPage}) /\ Room /\ OpenForm(c, 0, LoginWidget)
OpenSignUp(c) == OnTop({AuthPage}) /\ Room /\ OpenForm(c, 0, SignUpWidget)
SwitchToSignUp(c) == OnTop({LoginWidget}) /\ OpenForm(c, 1, SignUpWidget)
SwitchToLogin(c) == OnTop({SignUpWidget}) /\ OpenForm(c, 1, LoginWidget)

OpenForgot ==
    /\ OnTop({LoginWidget, "Profile"}) /\ Settled /\ Room
    /\ Show(calls, 0, <<ForgotPasswordPage>>)
    /\ UNCHANGED <<auth, server, signOuts, history>>

\* The back button.  Cover and VerifyEmailPage refuse it, the last page leaves the app.
Back ==
    /\ OnTop({AuthPage, LoginWidget, SignUpWidget, ForgotPasswordPage, EmailSentPage,
              "Profile", "Error", "Dialog"})
    /\ Len(stack) > 1
    /\ Show(calls, 1, <<>>)
    /\ UNCHANGED <<auth, server, signOuts, history>>

\* The transition that takes a page away has ended: the page is unmounted.
ContextGone(c) ==
    /\ calls[c].live /\ calls[c].page = 0
    /\ calls' = [calls EXCEPT ![c].live = FALSE]
    /\ UNCHANGED <<stack, auth, server, signOuts, history>>

-----------------------------------------------------------------------------
(* initializeFirebase *)

ByGoogle(c) == calls[c].await \in {"google", "check", "createGoogle"}

\* A form is built again (a keystroke, the keyboard): another initializeFirebase, and
\* while it is not done the Google button is gone, with the context of its calls.
Rebuild(i, c) ==
    /\ stack[i] \in {LoginWidget, SignUpWidget} /\ Free(c)
    /\ calls' = [d \in Calls |->
                   IF d = c THEN [await |-> "init", page |-> i, live |-> TRUE]
                   ELSE IF ByGoogle(d) /\ calls[d].page = i
                        THEN [calls[d] EXCEPT !.live = FALSE] ELSE calls[d]]
    /\ UNCHANGED <<stack, auth, server, signOuts, history>>

\* A user who is signed in already is sent to the Cover.
InitDone(c) ==
    /\ Awaiting(c, "init")
    /\ IF user # "none" /\ verified /\ calls[c].live
       THEN /\ Show(Ended(c), 1, <<"Starting">>)
            /\ raced' = (raced \/ ~MyPage(c) \/ \E d \in Calls : ByGoogle(d))
       ELSE calls' = Ended(c) /\ UNCHANGED <<stack, raced>>
    /\ UNCHANGED <<auth, server, signOuts, threw, missed>>

-----------------------------------------------------------------------------
(* signIn, signUp and resetPassword: a dialog, a request, its answer *)

Ask(c, page, await) ==
    /\ OnTop({page}) /\ Free(c) /\ Settled /\ Room
    /\ Show(Begun(c, await, Len(stack)), 0, <<"Dialog">>)
    /\ UNCHANGED <<auth, server, signOuts, history>>

SignIn(c) == Ask(c, LoginWidget, "signIn")
SignUp(c) == Ask(c, SignUpWidget, "signUp")
ResetPassword(c) == Ask(c, ForgotPasswordPage, "reset")

\* After the answer to c, nothing with its page gone; otherwise k pages leave and `new'
\* opens.
Then(c, k, new) ==
    /\ IF calls[c].live THEN Show(Ended(c), k, new) ELSE calls' = Ended(c) /\ UNCHANGED stack
    /\ raced' = (raced \/ ~MyDialog(c))

SignInOk(c) ==
    /\ Awaiting(c, "signIn") /\ registered
    /\ user' = "email" /\ verified' = confirmed
    /\ Then(c, 2, <<"Starting">>)
    /\ UNCHANGED <<server, signOuts, threw, missed>>

\* A FirebaseAuthException.
SignInRefused(c) ==
    /\ Awaiting(c, "signIn")
    /\ Then(c, 1, <<>>)
    /\ UNCHANGED <<auth, server, signOuts, threw, missed>>

\* Any other exception: a message, and no pop().
SignInThrew(c) ==
    /\ Awaiting(c, "signIn") /\ calls' = Ended(c)
    /\ threw' = TRUE
    /\ UNCHANGED <<stack, auth, server, signOuts, raced, missed>>

\* The new user is signed in and not verified.
SignUpOk(c) ==
    /\ Awaiting(c, "signUp") /\ ~registered
    /\ registered' = TRUE /\ user' = "email" /\ verified' = FALSE
    /\ Then(c, 1, <<"Verify">>)
    /\ UNCHANGED <<confirmed, record, signOuts, threw, missed>>

\* email-already-in-use: fetchSignInMethodsForEmail follows, after the circle is gone.
SignUpInUse(c) ==
    /\ Awaiting(c, "signUp") /\ registered
    /\ IF calls[c].live THEN Show(Continued(c, "methods"), 1, <<>>)
       ELSE calls' = Ended(c) /\ UNCHANGED stack
    /\ raced' = (raced \/ ~MyDialog(c))
    /\ UNCHANGED <<auth, server, signOuts, threw, missed>>

\* No method: VerifyEmailPage, for whoever is signed in.  Otherwise a message.
MethodsDone(c, empty) ==
    /\ Awaiting(c, "methods")
    /\ Show(Ended(c), 0,
            IF empty /\ calls[c].live THEN << VerifyPage(user, verified) >> ELSE <<>>)
    /\ raced' = (raced \/ (empty /\ ~MyPage(c)))
    /\ UNCHANGED <<auth, server, signOuts, threw, missed>>

\* Every other exception.
SignUpFailed(c) ==
    /\ Awaiting(c, "signUp")
    /\ Then(c, 1, <<>>)
    /\ UNCHANGED <<auth, server, signOuts, threw, missed>>

\* EmailSentPage takes the place of the page on top: the dialog.
ResetOk(c) ==
    /\ Awaiting(c, "reset")
    /\ Then(c, 1, <<EmailSentPage>>)
    /\ UNCHANGED <<auth, server, signOuts, threw, missed>>

\* A FirebaseAuthException: pop(); the popUntil that follows finds no Navigator.
ResetRefused(c) ==
    /\ Awaiting(c, "reset")
    /\ Then(c, 1, <<>>)
    /\ UNCHANGED <<auth, server, signOuts, threw, missed>>

\* Any other exception is not caught.
ResetThrew(c) ==
    /\ Awaiting(c, "reset") /\ calls' = Ended(c)
    /\ threw' = TRUE
    /\ UNCHANGED <<stack, auth, server, signOuts, raced, missed>>

-----------------------------------------------------------------------------
(* The Google button *)

\* The button is there when initializeFirebase is done, and not while it is signing in.
PressGoogle(c) ==
    /\ OnTop({LoginWidget, SignUpWidget}) /\ Free(c) /\ Settled
    /\ ~ \E d \in Calls : calls[d].page = Len(stack) /\ calls[d].live
                          /\ (Awaiting(d, "init") \/ ByGoogle(d))
    /\ calls' = Begun(c, "google", Len(stack))
    /\ UNCHANGED <<stack, auth, server, signOuts, history>>

GoogleOk(c) ==
    /\ Awaiting(c, "google") /\ calls' = Continued(c, "check")
    /\ user' = "google" /\ verified' = TRUE
    /\ raced' = (raced \/ ~MyPage(c) \/ ~calls[c].live)
    /\ UNCHANGED <<stack, server, signOuts, threw, missed>>

\* Cancelled by the user, refused, or an exception.
GoogleFailed(c) ==
    /\ Awaiting(c, "google") /\ calls' = Ended(c)
    /\ UNCHANGED <<stack, auth, server, signOuts, history>>

\* The Cover takes the place of the page on top, unless the caller is gone.
ToCover(c) ==
    /\ IF calls[c].live THEN Show(Ended(c), 1, <<"Starting">>)
       ELSE calls' = Ended(c) /\ UNCHANGED stack
    /\ raced' = (raced \/ ~MyPage(c))

\* Mutant: a 404 read as "not the first time".
CheckDone_Inverted(c, error) ==
    /\ Awaiting(c, "check")
    /\ missed' = (missed \/ error)
    /\ IF "google" \in record /\ ~error
       THEN calls' = Continued(c, Creating["google"]) /\ UNCHANGED <<stack, raced>>
       ELSE ToCover(c)
    /\ UNCHANGED <<auth, server, signOuts, threw>>

\* checkIfFirstTimeLogin: a 404 alone means "first time"; an error means it is not.
CheckDone(c, error) ==
    /\ Awaiting(c, "check")
    /\ missed' = (missed \/ error)
    /\ IF "google" \notin record /\ ~error
       THEN calls' = Continued(c, Creating["google"]) /\ UNCHANGED <<stack, raced>>
       ELSE ToCover(c)
    /\ UNCHANGED <<auth, server, signOuts, threw>>

\* Mutant: a failed createUser is tried again from the start.
CreateDone_Retries(c, error) ==
    /\ \E account \in Accounts :
          /\ Awaiting(c, Creating[account])
          /\ record' = IF error THEN record ELSE record \union {account}
    /\ missed' = (missed \/ error)
    /\ IF error THEN calls' = Continued(c, "check") /\ UNCHANGED <<stack, raced>>
       ELSE ToCover(c)
    /\ UNCHANGED <<auth, registered, confirmed, signOuts, threw>>

\* createUser, called by the Google button or by VerifyEmailPage; its answer is not read.
CreateDone(c, error) ==
    /\ \E account \in Accounts :
          /\ Awaiting(c, Creating[account])
          /\ record' = IF error THEN record ELSE record \union {account}
    /\ missed' = (missed \/ error)
    /\ ToCover(c)
    /\ UNCHANGED <<auth, registered, confirmed, signOuts, threw>>

-----------------------------------------------------------------------------
(* VerifyEmailPage *)

ClickLink ==
    /\ registered /\ ~confirmed /\ confirmed' = TRUE
    /\ UNCHANGED <<stack, calls, auth, registered, record, signOuts, history>>

\* checkEmailVerified has reloaded the user, whoever that is by now, and calls createUser
\* (bound: one such call for a page; module VerifyEmail lets them overlap).
VerifyReloaded(i, c) ==
    /\ stack[i] = "Verify" /\ user # "none" /\ (user = "email" => confirmed) /\ Free(c)
    /\ ~ \E d \in Calls : calls[d].page = i
    /\ verified' = TRUE
    /\ calls' = Begun(c, Creating[user], i)
    /\ UNCHANGED <<stack, user, server, signOuts, history>>

-----------------------------------------------------------------------------
\* The process ends and the app starts again: nothing is left of the pages and of the
\* calls; the server may have dealt with those on their way.  No page takes up a createUser
\* call that was still to be made.
Restart ==
    LET pending(await) == \E c \in Calls : Awaiting(c, await)
    IN  /\ stack' = <<"Starting">>
        /\ calls' = [c \in Calls |-> NoCall]
        /\ signOuts' = 0
        /\ registered' \in {registered, registered \/ pending("signUp")}
        /\ record' \in {record, record \union {a \in Accounts : pending(Creating[a])}}
        /\ missed' = (missed \/ "Verify" \in Range(stack) \/ pending("signUp")
                             \/ pending("createEmail") \/ \E c \in Calls : ByGoogle(c))
        /\ UNCHANGED <<auth, confirmed, threw, raced>>

-----------------------------------------------------------------------------
Answer(c) ==
    \/ InitDone(c)
    \/ SignInOk(c) \/ SignInRefused(c) \/ SignInThrew(c)
    \/ SignUpOk(c) \/ SignUpInUse(c) \/ SignUpFailed(c)
    \/ \E e \in BOOLEAN : MethodsDone(c, e)
    \/ ResetOk(c) \/ ResetRefused(c) \/ ResetThrew(c)
    \/ GoogleOk(c) \/ GoogleFailed(c)
    \/ \E e \in BOOLEAN : CheckDone(c, e)
    \/ \E e \in BOOLEAN : CreateDone(c, e)

Next ==
    \/ \E i \in DOMAIN stack : CoverBuilt(i)
    \/ Menu \/ (\E d \in BOOLEAN : LogOut(d)) \/ SignedOut
    \/ OpenForgot \/ Back \/ ClickLink \/ Restart
    \/ \E c \in Calls :
          \/ OpenLogin(c) \/ OpenSignUp(c) \/ SwitchToSignUp(c) \/ SwitchToLogin(c)
          \/ SignIn(c) \/ SignUp(c) \/ ResetPassword(c) \/ PressGoogle(c)
          \/ \E i \in DOMAIN stack : Rebuild(i, c)
          \/ \E i \in DOMAIN stack : VerifyReloaded(i, c)
          \/ ContextGone(c) \/ Answer(c)

Spec == Init /\ [][Next]_vars

\* Firebase and the backend answer each call, or it throws.
Fairness == \A c \in Calls : WF_vars(Answer(c))
FairSpec == Spec /\ Fairness

-----------------------------------------------------------------------------
(* Properties *)

Dialogs == {i \in DOMAIN stack : stack[i] = "Dialog"}
Asking == {c \in Calls : calls[c].await \in {"signIn", "signUp", "reset"}}
Covers == {i \in DOMAIN stack : stack[i] \in {"Starting", "Cover"}}

\* The variables have their types; a call's page is in the stack or has left it.
TypeOK ==
    /\ stack \in Seq(PageNames)
    /\ calls \in [Calls -> [await : Awaits \union {"none"}, page : 0..Len(stack), live : BOOLEAN]]
    /\ user \in {"none"} \union Accounts /\ verified \in BOOLEAN
    /\ registered \in BOOLEAN /\ confirmed \in BOOLEAN /\ record \subseteq Accounts
    /\ signOuts \in 0..2

\* signIn, signUp and resetPassword close what they open: as long as every answer found
\* the page it was meant for and the only exceptions were Firebase's, a loading circle
\* is on the screen only while a request that opened one is out.
DialogOwned == ~threw /\ ~raced => Cardinality(Dialogs) <= Cardinality(Asking)

\* CoverPage.initState and LogOut keep strangers out: if no step met another page or user
\* than its own, a Cover on the screen belongs to a user with a verified address, along
\* every way that leads to one, but for the Covers that a log-out above a reading page has
\* left in the stack (OldCover), which the back button of Auth shows to anybody.
CoverVerified == OnTop({"Cover"}) /\ ~raced => verified

\* checkIfFirstTimeLogin, checkEmailVerified and createUser together: with a backend that
\* answers, and unless the app was closed between signing up and createUser, whoever is on
\* the Cover has the record that the Cover and the profile read.
UserRecorded ==
    OnTop({"Cover"}) /\ user # "none" /\ ~missed /\ ~raced => user \in record

\* However often users sign in and out, pushReplacement itself keeps a single Cover in the
\* stack, as long as every step met its own page: of the Covers of earlier sessions only
\* those wait under the pages of this one that a log-out above a reading page has left
\* there (OldCover), also when users signed in and out again since.
OneCover == ~raced => Cardinality(Covers) <= 1

\* The comment `Hide loading circle' at the end of signIn: once the request is over the
\* loading circle is not on the screen, above the login form.
LoadingHidden ==
    \A i \in Dialogs : i > 1 /\ stack[i - 1] = LoginWidget =>
        \E c \in Calls : Awaiting(c, "signIn")

\* The comment `user needs to be created before!' in VerifyEmailPage.initState: whoever
\* opens the page has a user for it.
VerifyHasUser == \A i \in DOMAIN stack : stack[i] # "Error"

\* The Google button and checkEmailVerified: a call that looks up or creates the user's
\* record ends on a Cover, whatever the backend answers, unless the form it belongs to was
\* built again meanwhile, which takes the context of the call away, or another page or
\* user got in between.
Recording(c) == calls[c].await \in {"check", "createGoogle", "createEmail"}
SignedInArrives ==
    \A c \in Calls :
        Recording(c) ~> (OnTop({"Starting", "Cover"}) \/ raced
                           \/ (Recording(c) /\ ~calls[c].live))
=============================================================================
