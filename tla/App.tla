-------------------------------- MODULE App --------------------------------
(***************************************************************************)
(* The reading flow (module Home) together with the profiles it opens and  *)
(* the server that keeps the theme.                                        *)
(*                                                                         *)
(* Home lets the profile return any theme and the server answer any theme. *)
(* Here both are the real ones: a profile returns the copy it holds, which *)
(* it loads when it opens and changes when the user chooses, and an answer *)
(* is what the server had when it dealt with the request.  A verse that    *)
(* arrives late opens over a profile, and from there a second profile with *)
(* a copy of its own may be opened.                                        *)
(*                                                                         *)
(* Inside a profile are its preference page and the sheet (as in module    *)
(* ThemeSettings; the About pages, which have no theme, are left out).  An *)
(* update of the theme is confirmed, served and answered in three steps,   *)
(* and verses, failures and restarts come between them.                    *)
(***************************************************************************)
EXTENDS Home

CONSTANT Zero   \* theme 0, the one a profile has before its data comes

ASSUME ZeroAssumption == Zero \in Themes

VARIABLES
    stored,    \* the server's theme
    coverGet,  \* what the server answered to the Cover's request; NoTheme: not yet
    profiles,  \* by position in the stack: the copies of the open profiles
    index,     \* _currentIndex, a global variable of theme_bottom_modal.dart
    puts,      \* the theme updates, one in each slot
    \* History variables, read by the properties only.
    fresh,     \* the theme of the home page on top came from the server or a profile
    raced      \* an answer came too late, or to another page than the one it was for

settings == <<index, puts>>
own == <<stored, coverGet, profiles, settings, fresh, raced>>
appVars == <<vars, own>>

\* get, val: the profile's request.  ok, prefOk: the theme is not the initial 0.
\* level: the page of the profile that is on top, "profile", "prefs" or "sheet".
NewCopy == [theme |-> Zero, ok |-> FALSE, get |-> "sent", val |-> Zero,
            level |-> "profile", pref |-> Zero, prefOk |-> FALSE]

\* The preference page of a profile is closed.
Returned(c, theme, ok) ==
    [c EXCEPT !.level = "profile", !.theme = theme, !.ok = ok, !.pref = Zero, !.prefOk = FALSE]

\* "way" and "applied": the sheet waits for the answer.  "lost": nobody waits any more, but
\* the request is on its way.  at: the position of the sheet's profile; 0 if it is closed.
Slots == 1..MaxPuts
Put(val, state, at) == [val |-> val, state |-> state, at |-> at]
Free == Put(Zero, "free", 0)
Waiting(s) == puts[s].state \in {"way", "applied"}
Unread(s, i) == puts[s].state = "applied" /\ puts[s].at = i

\* The sheet no longer waits for the update in slot s.
Ended(s) == IF puts[s].state = "way" THEN Put(puts[s].val, "lost", 0) ELSE Free

\* The profiles left after a step of Home, and the updates of those that are closed.
Kept == [i \in {j \in DOMAIN profiles : j <= Len(stack')} |-> profiles[i]]
Parted == [s \in Slots |-> IF puts[s].at <= Len(stack') THEN puts[s]
                           ELSE Put(puts[s].val, puts[s].state, 0)]

\* The page of the profile on top of the stack that the user sees.
At(level) == OnTop({"Profile"}) /\ profiles[Len(stack)].level = level

AppInit ==
    /\ Init
    /\ stored \in Themes /\ coverGet = NoTheme /\ profiles = <<>>
    /\ index = Zero /\ puts = [s \in Slots |-> Free]
    /\ fresh = FALSE /\ raced = FALSE

-----------------------------------------------------------------------------
(* Mutants: slips in the code that the properties notice.  No specification uses them. *)

\* The profile does not take over the theme that the preference page returns.
ClosePrefs_NotTaken ==
    /\ At("prefs")
    /\ LET c == profiles[Len(stack)]
       IN  profiles' = [profiles EXCEPT ![Len(stack)] = Returned(c, c.theme, c.ok)]
    /\ UNCHANGED <<vars, stored, coverGet, settings, fresh, raced>>

\* The profile keeps null in currTheme until its data comes.
Visit_Null ==
    /\ OpenMenu
    /\ profiles' = IF session = "out" THEN profiles
                   ELSE [i \in DOMAIN profiles \union {Len(stack')} |->
                           IF i = Len(stack') THEN [NewCopy EXCEPT !.theme = NoTheme]
                           ELSE profiles[i]]
    /\ UNCHANGED <<stored, coverGet, settings, fresh, raced>>

-----------------------------------------------------------------------------
(* Steps of the reading flow that concern no profile and no theme. *)
Reading ==
    /\ \/ OpenBible \/ FetchOk \/ FetchFailed \/ FetchThrew
       \/ \E k \in 1..MaxFetch, p \in {"ok", "short"} : ExplainOk(k, p)
       \/ \E k \in 1..MaxFetch : ExplainThrew(k)
       \/ \E d \in BOOLEAN : OpenExplain(d) \/ OpenGuidance(d) \/ OpenQuery(d)
       \/ OpenChat \/ Back \/ SignedOut
    /\ UNCHANGED own

\* A failed explanation closes the page on top without a result, or one inside a profile.
Interrupted(k) ==
    /\ ExplainFailed(k)
    /\ LET n == Len(stack)
           c == profiles[n]
       IN  IF stack' = stack
           THEN profiles' = [profiles EXCEPT ![n] =
                    IF c.level = "sheet" THEN [c EXCEPT !.level = "prefs"]
                    ELSE Returned(c, c.theme, c.ok)]
           ELSE ~At("prefs") /\ ~At("sheet") /\ profiles' = Kept
    /\ puts' = Parted
    /\ fresh' = (fresh /\ stack' = stack)
    /\ raced' = (raced \/ (stack' = stack /\ ~At("profile")))
    /\ UNCHANGED <<stored, coverGet, index>>

\* initializeUserData of the Cover: the server's part, and the answer or an error.
CoverServed ==
    /\ userData = "sent" /\ coverGet = NoTheme /\ coverGet' = stored
    /\ UNCHANGED <<vars, stored, profiles, settings, fresh, raced>>

CoverAnswered ==
    /\ \E t \in {coverGet, NoTheme} :
          /\ UserDataArrives(t)
          /\ fresh' = (fresh \/ (stack' # stack /\ t # NoTheme
                                   /\ \A i \in DOMAIN stack : stack[i].name # "Verse"))
          /\ raced' = (raced \/ t \notin {stored, NoTheme})
    /\ coverGet' = NoTheme
    /\ UNCHANGED <<stored, profiles, settings>>

-----------------------------------------------------------------------------
(* Profiles *)

Visit ==
    /\ OpenMenu
    /\ profiles' = IF session = "out" THEN profiles
                   ELSE [i \in DOMAIN profiles \union {Len(stack')} |->
                           IF i = Len(stack') THEN NewCopy ELSE profiles[i]]
    /\ UNCHANGED <<stored, coverGet, settings, fresh, raced>>

ProfileServed(i) ==
    /\ profiles[i].get = "sent"
    /\ profiles' = [profiles EXCEPT ![i].get = "served", ![i].val = stored]
    /\ UNCHANGED <<vars, stored, coverGet, settings, fresh, raced>>

ProfileAnswered(i) ==
    /\ profiles[i].get = "served"
    /\ profiles' = [profiles EXCEPT ![i].theme = profiles[i].val, ![i].ok = TRUE,
                                    ![i].get = "none", ![i].val = Zero]
    /\ raced' = (raced \/ profiles[i].val # stored)
    /\ UNCHANGED <<vars, stored, coverGet, settings, fresh>>

ProfileFailed(i) ==
    /\ profiles[i].get # "none"
    /\ profiles' = [profiles EXCEPT ![i].get = "none", ![i].val = Zero]
    /\ UNCHANGED <<vars, stored, coverGet, settings, fresh, raced>>

\* Back from the profile with its copy.
Leave ==
    /\ At("profile") /\ CloseProfile(profiles[Len(stack)].theme)
    /\ profiles' = Kept /\ puts' = Parted
    /\ fresh' = profiles[Len(stack)].ok
    /\ UNCHANGED <<stored, coverGet, index, raced>>

Quit ==
    /\ At("profile") /\ LogOut
    /\ profiles' = Kept /\ puts' = Parted /\ fresh' = FALSE
    /\ UNCHANGED <<stored, coverGet, index, raced>>

-----------------------------------------------------------------------------
(* Preference page and sheet *)

OpenPrefs ==
    /\ At("profile")
    /\ LET n == Len(stack)
       IN  profiles' = [profiles EXCEPT ![n].level = "prefs", ![n].pref = profiles[n].theme,
                                        ![n].prefOk = profiles[n].ok]
    /\ UNCHANGED <<vars, stored, coverGet, settings, fresh, raced>>

ClosePrefs ==
    /\ At("prefs")
    /\ LET c == profiles[Len(stack)]
       IN  profiles' = [profiles EXCEPT ![Len(stack)] = Returned(c, c.pref, c.prefOk)]
    /\ UNCHANGED <<vars, stored, coverGet, settings, fresh, raced>>

OpenSheet ==
    /\ At("prefs")
    /\ \A s \in Slots : Waiting(s) => puts[s].at # Len(stack)
    /\ profiles' = [profiles EXCEPT ![Len(stack)].level = "sheet"]
    /\ UNCHANGED <<vars, stored, coverGet, settings, fresh, raced>>

Swipe(t) ==
    /\ At("sheet") /\ index' = t
    /\ UNCHANGED <<vars, stored, coverGet, profiles, puts, fresh, raced>>

Cancel ==
    /\ At("sheet")
    /\ profiles' = [profiles EXCEPT ![Len(stack)].level = "prefs"]
    /\ raced' = (raced \/ \E s \in Slots : Unread(s, Len(stack)))
    /\ UNCHANGED <<vars, stored, coverGet, settings, fresh>>

Confirm(s) ==
    /\ At("sheet")
    /\ puts[s].state = "free" /\ \A u \in 1..(s - 1) : puts[u].state # "free"
    /\ ConfirmTheme
    /\ puts' = [puts EXCEPT ![s] = Put(index, "way", Len(stack))]
    /\ UNCHANGED <<stored, coverGet, profiles, index, fresh, raced>>

SheetOpen(i) == i \in DOMAIN profiles /\ profiles[i].level = "sheet"

\* A race if the theme changes and its sheet is not there any more, or another profile is.
PutServed(s) ==
    /\ puts[s].state \in {"way", "lost"}
    /\ stored' = puts[s].val
    /\ puts' = [puts EXCEPT ![s] = IF Waiting(s) THEN Put(@.val, "applied", @.at) ELSE Free]
    /\ raced' = (raced \/ (/\ stored' # stored
                           /\ ~(/\ Waiting(s) /\ SheetOpen(puts[s].at)
                                /\ DOMAIN profiles = {puts[s].at})))
    /\ UNCHANGED <<vars, coverGet, profiles, index, fresh>>

\* The server refuses the update: a message, if the sheet is still there.
PutRefused(s) ==
    /\ puts[s].state \in {"way", "lost"}
    /\ IF Waiting(s) THEN ThemeUnanswered ELSE UNCHANGED vars
    /\ puts' = [puts EXCEPT ![s] = Free]
    /\ UNCHANGED <<stored, coverGet, profiles, index, fresh, raced>>

\* The exit animation of a closed sheet ends.  The updates of one sheet may end one by one
\* here, which is more than happens.
SheetGone(s) ==
    /\ Waiting(s) /\ ~SheetOpen(puts[s].at)
    /\ ThemeUnanswered
    /\ puts' = [puts EXCEPT ![s] = Ended(s)]
    /\ UNCHANGED <<stored, coverGet, profiles, index, fresh, raced>>

\* The page on top of the stack, or inside the profile there, is closed with the index.
PopIndex ==
    LET n == Len(stack)
    IN  \/ /\ At("sheet") /\ stack' = stack /\ fresh' = fresh
           /\ profiles' = [profiles EXCEPT ![n].level = "prefs", ![n].pref = index,
                                           ![n].prefOk = TRUE]
        \/ /\ At("prefs") /\ stack' = stack /\ fresh' = fresh
           /\ profiles' = [profiles EXCEPT ![n] = Returned(profiles[n], index, TRUE)]
        \/ /\ At("profile") /\ stack' = stack /\ UNCHANGED <<fresh, profiles>>
        \/ /\ At("profile") /\ stack' # stack /\ fresh' = TRUE /\ profiles' = Kept
        \/ /\ ~OnTop({"Profile"}) /\ fresh' = fresh /\ profiles' = Kept

\* The answer, or an exception, which counts as success.  A race if the index is not the
\* theme the server has, or if it goes to another page than its profile or those inside.
PutAnswered(s) ==
    /\ Waiting(s)
    /\ ThemeAnswered(index) /\ PopIndex
    /\ puts' = [Parted EXCEPT ![s] = Ended(s)]
    /\ raced' = (raced \/ index # stored \/ ~OnTop({"Profile"})
                       \/ puts[s].at \notin {0, Len(stack)})
    /\ UNCHANGED <<stored, coverGet, index>>

-----------------------------------------------------------------------------
\* The app is killed and started again while the user is signed in; the server keeps
\* the theme, and the Cover asks for it anew.  Updates on their way stay on their way.
Relaunch ==
    /\ session = "in"
    /\ stack' = << CoverPage >>
    /\ isLoading' = FALSE /\ spinner' = FALSE
    /\ fetch' = "idle" /\ userData' = "sent"
    /\ fetched' = 0 /\ outputDataFuture' = 0
    /\ explain' = [k \in 1..MaxFetch |-> "none"]
    /\ themePuts' = 0
    /\ threw' = FALSE /\ lost' = FALSE /\ chosen' = NoTheme
    /\ coverGet' = NoTheme /\ profiles' = <<>> /\ fresh' = FALSE
    /\ index' = Zero /\ puts' = [s \in Slots |-> IF Waiting(s) THEN Ended(s) ELSE puts[s]]
    /\ UNCHANGED <<session, stored, raced>>

-----------------------------------------------------------------------------
AppNext ==
    \/ Reading
    \/ \E k \in 1..MaxFetch : Interrupted(k)
    \/ CoverServed \/ CoverAnswered
    \/ Visit \/ Leave \/ Quit \/ Relaunch
    \/ OpenPrefs \/ ClosePrefs \/ OpenSheet \/ (\E t \in Themes : Swipe(t)) \/ Cancel
    \/ \E s \in Slots : Confirm(s)
    \/ \E s \in Slots : PutServed(s)
    \/ \E s \in Slots : PutRefused(s)
    \/ \E s \in Slots : SheetGone(s)
    \/ \E s \in Slots : PutAnswered(s)
    \/ \E i \in DOMAIN profiles : ProfileServed(i)
    \/ \E i \in DOMAIN profiles : ProfileAnswered(i)
    \/ \E i \in DOMAIN profiles : ProfileFailed(i)

AppSpec == AppInit /\ [][AppNext]_appVars

-----------------------------------------------------------------------------
(* Properties *)

\* There is a copy for each profile in the stack, and themes of the carousel in it.
AppTypeOK ==
    /\ stored \in Themes /\ coverGet \in Themes \union {NoTheme} /\ index \in Themes
    /\ DOMAIN profiles = {i \in DOMAIN stack : stack[i].name = "Profile"}
    /\ \A i \in DOMAIN profiles :
          /\ profiles[i].theme \in Themes /\ profiles[i].val \in Themes
          /\ profiles[i].pref \in Themes /\ profiles[i].level \in {"profile", "prefs", "sheet"}

\* With no profile open, the home page on top shows the theme the server has, whatever
\* pages opened and closed and profiles were visited before, also when verses arrived over
\* a sheet that waits for an answer, when Confirm was pressed again, and after a restart of
\* the app; provided that its theme came from the server or from a profile that had its
\* data, and that there was no race.  A race is an answer to the Cover's or a profile's
\* request that is out of date, an update that reaches the server when its sheet is closed
\* or a second profile is open, one that is made but whose sheet was cancelled, an answer
\* that closes another page than its profile's or returns another theme than the server
\* has, and a failed explanation that closes a page inside a profile.
ShowsStored ==
    fresh /\ ~raced /\ DOMAIN profiles = {} /\ OnTop(HomePages) => Top.theme = stored
=============================================================================
