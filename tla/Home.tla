-------------------------------- MODULE Home --------------------------------
(***************************************************************************)
(* The reading flow of the app: Cover, Verse, Explanation, Guidance, Query *)
(* and Chat (lib/pages/home/), with the profile menu that each of them     *)
(* opens, on the one Navigator of the app.                                 *)
(*                                                                         *)
(* The Navigator's history is a sequence of pages.  A page is pushed by a  *)
(* State object that awaits the route's result (`opener', its index): the  *)
(* theme to show from now on.  The awaiting code is                        *)
(*     int themeOut = await Navigator.of(context).push(...)                *)
(* so that a route closed without a result (null) throws there and the     *)
(* assignments after it do not happen.                                     *)
(*                                                                         *)
(* Three requests of the Cover are asynchronous and end whatever page is   *)
(* on top by then: the user's data (initializeUserData), the verse         *)
(* (fetchVerse) and its explanation (generateOutput).                      *)
(*                                                                         *)
(* The pages inside the profile (settings, sheets, dialogs) are part of    *)
(* "Profile" here, with one exception: the answer to a theme update pops   *)
(* the page on top, which may be a page of any kind by then.  Auth is the  *)
(* sign-in page, whose own flow is not here.                               *)
(* The texts of a verse are abstracted to the number of the fetch that     *)
(* brought them; an offset is zero or not.                                 *)
(***************************************************************************)
EXTENDS Integers, Sequences, FiniteSets

CONSTANTS
    Themes,     \* themes a user can have
    Default,    \* theme 999 of cover.dart: a black screen
    NoTheme,    \* null
    MaxFetch,   \* bound: verses fetched
    MaxPuts     \* bound: theme updates under way at a time

ASSUME ThemeAssumption == Default \notin Themes /\ NoTheme \notin Themes \union {Default}
ASSUME FetchAssumption == MaxFetch \in Nat
ASSUME PutsAssumption == MaxPuts \in Nat

VARIABLES
    stack,      \* the Navigator's history; the last page is on top
    isLoading,  \* Cover: the field
    spinner,    \* Cover: isLoading when build last ran, so what the user sees
    fetch,      \* Cover: "idle", or "sent" while fetchVerse awaits its answer
    userData,   \* Cover: "sent" while initializeUserData awaits, then "done"
    fetched,    \* verses fetched so far
    outputDataFuture, \* the fetch whose explanation Cover holds; 0: late, unassigned
    explain,    \* explanation of each fetch, a future
    session,    \* "in", "ending" (signOut called), "out"
    themePuts,  \* theme updates under way, confirmed on a sheet that is still mounted
    \* History variables, read by the properties only.
    threw,      \* fetchVerse once ended in an exception
    lost,       \* Cover's push returned null and Cover was not rebuilt since
    chosen      \* the theme the user last returned with from the profile

cover == <<isLoading, spinner, fetch, userData, fetched, outputDataFuture>>
vars == <<stack, cover, explain, session, themePuts, threw, lost, chosen>>

Shown == Themes \union {Default}
HomePages == {"Cover", "Verse", "Explain", "Guidance", "Query", "Chat"}
PageNames == HomePages \union {"Profile", "Auth"}

\* offset: _offsetY is not 0.  fut: the future the page was given (0: none).
\* gesture: opened by handleGesture, which resets the offset on return.
Page(name, theme, opener, gesture, fut) ==
    [name |-> name, theme |-> theme, opener |-> opener, gesture |-> gesture,
     fut |-> fut, offset |-> FALSE]

\* The pages as their constructors and initState make them.
CoverPage == Page("Cover", Default, 0, FALSE, 0)
VersePage(theme, fut) == Page("Verse", theme, 1, TRUE, fut)
ExplainationPage(from, opener) == Page("Explain", from.theme, opener, TRUE, from.fut)
GuidancePage(from, opener) == Page("Guidance", from.theme, opener, TRUE, from.fut)
QueryPage(from, opener) == Page("Query", from.theme, opener, TRUE, from.fut)
ChatPage(from, opener) == Page("Chat", from.theme, opener, FALSE, from.fut)

\* What ProfileNav shows: the profile, or Auth when nobody is signed in.
ProfileNav(opener) ==
    Page(IF session = "out" THEN "Auth" ELSE "Profile", Default, opener, FALSE, 0)

\* A Verse page whose builder read outputDataFuture before it was assigned shows
\* Flutter's error page.
Broken(p) == p.name = "Verse" /\ p.fut = 0

Top == stack[Len(stack)]
OnTop(names) == stack # <<>> /\ Top.name \in names
Front(s) == SubSeq(s, 1, Len(s) - 1)

\* The Cover's State object exists (`mounted').
CoverMounted == stack # <<>> /\ stack[1].name = "Cover"

Init ==
    /\ stack = << CoverPage >>
    /\ isLoading = FALSE /\ spinner = FALSE
    /\ fetch = "idle" /\ userData = "sent"
    /\ fetched = 0 /\ outputDataFuture = 0
    /\ explain = [k \in 1..MaxFetch |-> "none"]
    /\ session = "in" /\ themePuts = 0
    /\ threw = FALSE /\ lost = FALSE /\ chosen = NoTheme

-----------------------------------------------------------------------------
(* Mutants: slips in the code that the properties notice.  No specification uses them. *)

\* `int? themeOut': a null result is stored.
Resume_Nullable(rest, p, x) ==
    IF p.opener = 0 THEN rest
    ELSE [rest EXCEPT ![p.opener].theme = x,
                      ![p.opener].offset = IF p.gesture THEN FALSE ELSE @]

\* handleGesture resets the offset and forgets the theme.
Resume_OffsetOnly(rest, p, x) ==
    IF x = NoTheme \/ p.opener = 0 THEN rest
    ELSE [rest EXCEPT ![p.opener] =
             IF p.gesture THEN [@ EXCEPT !.offset = FALSE] ELSE [@ EXCEPT !.theme = x]]

\* The late field is not assigned.
FetchOk_NoFuture ==
    /\ fetch = "sent" /\ fetch' = "idle" /\ CoverMounted
    /\ fetched' = fetched + 1
    /\ explain' = [explain EXCEPT ![fetched + 1] = "pending"]
    /\ isLoading' = FALSE
    /\ stack' = Append(stack, VersePage(stack[1].theme, outputDataFuture))
    /\ UNCHANGED <<spinner, userData, outputDataFuture, session, themePuts, threw, lost, chosen>>

\* isLoading stays set after an error answer.
FetchFailed_StillLoading ==
    /\ fetch = "sent" /\ fetch' = "idle" /\ CoverMounted
    /\ stack' = Append(stack, VersePage(stack[1].theme, outputDataFuture))
    /\ UNCHANGED <<isLoading, spinner, lost, userData, fetched, outputDataFuture, explain,
                   session, themePuts, threw, chosen>>

\* An error answer returns to the Cover without the Verse page.
FetchFailed_NoPage ==
    /\ fetch = "sent" /\ fetch' = "idle" /\ CoverMounted
    /\ isLoading' = FALSE /\ spinner' = FALSE /\ lost' = FALSE
    /\ UNCHANGED <<stack, userData, fetched, outputDataFuture, explain, session, themePuts, threw, chosen>>

\* _onWillPop of the Cover returns true.
Back_LeavesCover ==
    /\ OnTop(HomePages \union {"Auth"})
    /\ stack' = Resume_OffsetOnly(Front(stack), Top, NoTheme)
    /\ UNCHANGED <<cover, explain, session, themePuts, threw, lost, chosen>>

-----------------------------------------------------------------------------
(* The Navigator *)

\* The page `p' closed with result x; its opener resumes in the pages `rest'.
Resume(rest, p, x) ==
    IF x = NoTheme \/ p.opener = 0
    THEN rest
    ELSE [rest EXCEPT ![p.opener].theme = x,
                      ![p.opener].offset = IF p.gesture THEN FALSE ELSE @]

\* A Cover that resumes is rebuilt; one that throws is not.
RebuildCover(p, x) ==
    IF p.opener = 1 /\ x # NoTheme
    THEN spinner' = isLoading /\ lost' = FALSE
    ELSE spinner' = spinner /\ lost' = (lost \/ (p.opener = 1 /\ p.name = "Verse"))

PopTop(x) ==
    /\ stack' = Resume(Front(stack), Top, x)
    /\ RebuildCover(Top, x)

-----------------------------------------------------------------------------
(* Cover *)

\* The Bible is drawn unless the Cover is loading.
BibleDrawn == OnTop({"Cover"}) /\ ~spinner

\* A tap on the Bible: fetchVerse up to its await.
OpenBible ==
    /\ BibleDrawn
    /\ fetched < MaxFetch
    /\ isLoading' = TRUE /\ spinner' = TRUE /\ fetch' = "sent" /\ lost' = FALSE
    /\ UNCHANGED <<stack, userData, fetched, outputDataFuture, explain, session, themePuts, threw, chosen>>

\* handleGesture after fetchVerse: push the Verse over whatever is on top.
PushVerse(fut) ==
    stack' = Append(stack, VersePage(stack[1].theme, fut))

\* Status 200.  isLoading is reset without setState; the explanation is requested.
FetchOk ==
    /\ fetch = "sent" /\ fetch' = "idle"
    /\ CoverMounted
    /\ fetched' = fetched + 1 /\ outputDataFuture' = fetched + 1
    /\ explain' = [explain EXCEPT ![fetched + 1] = "pending"]
    /\ isLoading' = FALSE
    /\ PushVerse(fetched + 1)
    /\ UNCHANGED <<spinner, userData, session, themePuts, threw, lost, chosen>>

\* Any other status: a message, and the Verse page opens all the same.
FetchFailed ==
    /\ fetch = "sent" /\ fetch' = "idle"
    /\ CoverMounted
    /\ isLoading' = FALSE /\ spinner' = FALSE /\ lost' = FALSE
    /\ PushVerse(outputDataFuture)
    /\ UNCHANGED <<userData, fetched, outputDataFuture, explain, session, themePuts, threw, chosen>>

\* The request throws, or the Cover is gone when the answer comes: nothing follows.
FetchThrew ==
    /\ fetch = "sent" /\ fetch' = "idle"
    /\ threw' = TRUE
    /\ UNCHANGED <<stack, isLoading, spinner, userData, fetched, outputDataFuture, explain,
                   session, themePuts, lost, chosen>>

\* initializeUserData: the stored theme t, or NoTheme for an error.  Unless a Verse
\* page is open, which returns its own theme later, t takes the place of the chosen one.
UserDataArrives(t) ==
    /\ userData = "sent" /\ userData' = "done"
    /\ IF t \in Themes /\ CoverMounted
       THEN /\ stack' = [stack EXCEPT ![1].theme = t]
            /\ spinner' = isLoading /\ lost' = FALSE
            /\ chosen' = IF \E i \in DOMAIN stack : stack[i].name = "Verse" /\ ~Broken(stack[i])
                         THEN chosen ELSE NoTheme
       ELSE UNCHANGED <<stack, spinner, lost, chosen>>
    /\ UNCHANGED <<isLoading, fetch, fetched, outputDataFuture, explain, session, themePuts, threw>>

\* generateOutput with status 200: two or more paragraphs ("ok") or fewer ("short").
ExplainOk(k, paragraphs) ==
    /\ explain[k] = "pending"
    /\ IF CoverMounted
       THEN /\ explain' = [explain EXCEPT ![k] = paragraphs]
            /\ spinner' = isLoading /\ lost' = FALSE
       ELSE /\ explain' = [explain EXCEPT ![k] = "error"]
            /\ UNCHANGED <<spinner, lost>>
    /\ UNCHANGED <<stack, isLoading, fetch, userData, fetched, outputDataFuture, session, themePuts,
                   threw, chosen>>

\* Any other status: Navigator.pop() closes the page on top, whichever it is (inside
\* the profile it may close a page of the profile only), and the list is empty.
ExplainFailed(k) ==
    /\ explain[k] = "pending"
    /\ CoverMounted
    /\ explain' = [explain EXCEPT ![k] = "short"]
    /\ \/ /\ PopTop(NoTheme)
          /\ chosen' = IF OnTop(HomePages) THEN NoTheme ELSE chosen
       \/ /\ OnTop({"Profile"})
          /\ UNCHANGED <<stack, spinner, lost, chosen>>
    /\ UNCHANGED <<isLoading, fetch, userData, fetched, outputDataFuture, session, themePuts, threw>>

\* The request throws, or fails after the Cover is gone.
ExplainThrew(k) ==
    /\ explain[k] = "pending"
    /\ explain' = [explain EXCEPT ![k] = "error"]
    /\ UNCHANGED <<stack, cover, session, themePuts, threw, lost, chosen>>

-----------------------------------------------------------------------------
(* From page to page.  A drag moves the page before its end opens the next one. *)

Moved(dragged) == IF dragged THEN [stack EXCEPT ![Len(stack)].offset = TRUE] ELSE stack

Push(pages, p) ==
    /\ stack' = Append(pages, p)
    /\ UNCHANGED <<cover, explain, session, themePuts, threw, lost, chosen>>

\* The arrow of the Verse page is drawn when there is a text.
VerseArrow == OnTop({"Verse"}) /\ ~Broken(Top)

OpenExplain(dragged) ==
    VerseArrow /\ Push(Moved(dragged), ExplainationPage(Top, Len(stack)))

\* The arrow is drawn once the future has two paragraphs; with fewer the builder
\* throws, and without an answer it shows the waiting animation.
ExplainArrow == OnTop({"Explain"}) /\ explain[Top.fut] = "ok"

\* Mutant: pushReplacement for push.
OpenGuidance_Replaces(dragged) ==
    ExplainArrow /\ Push(Front(Moved(dragged)), GuidancePage(Top, Len(stack) - 1))

OpenGuidance(dragged) ==
    ExplainArrow /\ Push(Moved(dragged), GuidancePage(Top, Len(stack)))

\* The arrow of the Guidance page is always drawn.
GuidanceArrow == OnTop({"Guidance"})

OpenQuery(dragged) ==
    GuidanceArrow /\ Push(Moved(dragged), QueryPage(Top, Len(stack)))

\* Submit with a non-empty question.
OpenChat == OnTop({"Query"}) /\ Push(stack, ChatPage(Top, Len(stack)))

\* The menu button of every home page.
OpenMenu == OnTop(HomePages) /\ ~Broken(Top) /\ Push(stack, ProfileNav(Len(stack)))

\* The system's back button: Cover refuses; the other home pages return their theme;
\* an error page and Auth have no WillPopScope and return null.
Back ==
    /\ \/ OnTop(HomePages \ {"Cover"}) /\ PopTop(IF Broken(Top) THEN NoTheme ELSE Top.theme)
       \/ OnTop({"Auth"}) /\ Len(stack) > 1 /\ PopTop(NoTheme)
    /\ UNCHANGED <<isLoading, fetch, userData, fetched, outputDataFuture, explain, session, themePuts,
                   threw, chosen>>

-----------------------------------------------------------------------------
(* Profile *)

\* Back from the profile with its current theme.
CloseProfile(t) ==
    /\ OnTop({"Profile"}) /\ PopTop(t)
    /\ chosen' = t
    /\ UNCHANGED <<isLoading, fetch, userData, fetched, outputDataFuture, explain, session, themePuts,
                   threw>>

\* Log out: pop the profile, then replace the page below by Auth.
LogOut ==
    /\ OnTop({"Profile"})
    /\ LET rest == Front(stack)
           gone == rest[Len(rest)]
       IN  /\ stack' = Append(Front(rest), Page("Auth", Default, 0, FALSE, 0))
           /\ lost' = (lost \/ (gone.opener = 1 /\ gone.name = "Verse"))
    /\ session' = IF session = "in" THEN "ending" ELSE session
    /\ chosen' = NoTheme
    /\ UNCHANGED <<cover, explain, themePuts, threw>>

\* The theme sheet, a page inside the profile: Confirm sends an update and waits.
ConfirmTheme ==
    /\ OnTop({"Profile"})
    /\ themePuts < MaxPuts /\ themePuts' = themePuts + 1
    /\ UNCHANGED <<stack, cover, explain, session, threw, lost, chosen>>

\* Its answer, with the sheet mounted: Navigator.pop(v) closes the sheet, another page
\* inside the profile, or whichever page is on top.
ThemeAnswered(v) ==
    /\ themePuts > 0 /\ themePuts' = themePuts - 1
    /\ \/ /\ stack # <<>> /\ PopTop(v)
          /\ chosen' = IF OnTop({"Profile"}) THEN v ELSE NoTheme
       \/ /\ OnTop({"Profile"})
          /\ UNCHANGED <<stack, spinner, lost, chosen>>
    /\ UNCHANGED <<isLoading, fetch, userData, fetched, outputDataFuture, explain, session,
                   threw>>

\* The update is refused, or the sheet's exit animation ends first.
ThemeUnanswered ==
    /\ themePuts > 0 /\ themePuts' = themePuts - 1
    /\ UNCHANGED <<stack, cover, explain, session, threw, lost, chosen>>

\* The signOut that LogOut did not await.
SignedOut ==
    /\ session = "ending" /\ session' = "out"
    /\ UNCHANGED <<stack, cover, explain, themePuts, threw, lost, chosen>>

-----------------------------------------------------------------------------
Fetching == FetchOk \/ FetchFailed \/ FetchThrew

Explaining(k) ==
    (\E p \in {"ok", "short"} : ExplainOk(k, p)) \/ ExplainFailed(k) \/ ExplainThrew(k)

Next ==
    \/ OpenBible \/ FetchOk \/ FetchFailed \/ FetchThrew
    \/ \E t \in Themes \union {NoTheme} : UserDataArrives(t)
    \/ \E k \in 1..MaxFetch, p \in {"ok", "short"} : ExplainOk(k, p)
    \/ \E k \in 1..MaxFetch : ExplainFailed(k)
    \/ \E k \in 1..MaxFetch : ExplainThrew(k)
    \/ \E d \in BOOLEAN : OpenExplain(d)
    \/ \E d \in BOOLEAN : OpenGuidance(d)
    \/ \E d \in BOOLEAN : OpenQuery(d)
    \/ OpenChat \/ OpenMenu \/ Back
    \/ \E t \in Themes : CloseProfile(t)
    \/ LogOut \/ SignedOut
    \/ ConfirmTheme \/ (\E v \in Themes : ThemeAnswered(v)) \/ ThemeUnanswered

\* Requests end, with an answer or an exception.  Nothing is assumed of the user.
Fairness ==
    /\ WF_vars(Fetching)
    /\ \A k \in 1..MaxFetch : WF_vars(Explaining(k))

Spec == Init /\ [][Next]_vars
FairSpec == Spec /\ Fairness

-----------------------------------------------------------------------------
(* Properties *)

\* Types of the pages and of the Cover's fields.
TypeOK ==
    /\ \A i \in DOMAIN stack :
          /\ stack[i].name \in PageNames
          /\ stack[i].theme \in Shown
          /\ stack[i].opener \in 0..(i - 1)
          /\ stack[i].fut \in 0..fetched
    /\ isLoading \in BOOLEAN /\ spinner \in BOOLEAN
    /\ fetch \in {"idle", "sent"} /\ userData \in {"sent", "done"}
    /\ fetched \in 0..MaxFetch /\ outputDataFuture \in 0..fetched
    /\ explain \in [1..MaxFetch -> {"none", "pending", "ok", "short", "error"}]
    /\ session \in {"in", "ending", "out"}
    /\ themePuts \in 0..MaxPuts
    /\ chosen \in Themes \union {NoTheme}

\* A verse that arrives late is pushed over any page, yet the reading pages never
\* double up: there is one Verse page at most, none while a verse is being fetched,
\* and every later page lies directly on the page that leads to it.
OneReading ==
    LET verses == {i \in DOMAIN stack : stack[i].name = "Verse"}
        before == [Explain |-> "Verse", Guidance |-> "Explain", Query |-> "Guidance",
                   Chat |-> "Query"]
    IN  /\ Cardinality(verses) <= (IF fetch = "sent" THEN 0 ELSE 1)
        /\ \A i \in DOMAIN stack : stack[i].name \in DOMAIN before =>
              i > 1 /\ stack[i - 1].name = before[stack[i].name]

\* The theme the user last came back with from the profile is the theme of the home
\* page on top, however deep it was opened and whichever way the user went since; a
\* page closed by a failed explanation or by the answer to a theme update, a log-out
\* and late user data end this.
ThemeSticks ==
    chosen # NoTheme /\ OnTop(HomePages) => Top.theme = chosen

\* When the Cover is on top and no verse is being fetched the user can tap the
\* Bible, unless fetchVerse threw or the Verse page closed without a result.
CoverUsable ==
    OnTop({"Cover"}) /\ fetch = "idle" /\ ~threw /\ ~lost => ~spinner

\* Flutter's error page in place of a Verse means that no verse was fetched before.
BrokenOnlyFirst ==
    (\E i \in DOMAIN stack : Broken(stack[i])) => fetched = 0

\* Nothing the user does closes the last page and leaves the app without one, not even
\* over pages that came late: that takes the pop of a failed explanation or the pop of
\* an answer to a theme update, the two that do not ask which page is on top.
EmptiedByBlindPop ==
    [][stack # <<>> /\ stack' = <<>> =>
         \/ \E k \in 1..MaxFetch : explain[k] = "pending" /\ explain'[k] = "short"
         \/ themePuts' < themePuts]_vars

\* A tap on the Bible opens a Verse page, unless the request throws or the user logs
\* out meanwhile.
BibleOpens ==
    fetch = "sent" ~> (\E i \in DOMAIN stack : stack[i].name = "Verse") \/ threw

\* The offset of a page is zero when the page it opened has closed:
\* "Reset the offset after the navigation".
OffsetReset == OnTop({"Verse", "Explain", "Guidance"}) => ~Top.offset
=============================================================================
