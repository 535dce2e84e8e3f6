---------------------------- MODULE ThemeSettings ----------------------------
(***************************************************************************)
(* Choosing a theme: the profile (profile_home_page.dart), its preference  *)
(* page (preference_setting_page.dart) and the bottom sheet with the       *)
(* carousel (theme_bottom_modal.dart, background_swiper.dart), against the *)
(* server that stores the theme.                                           *)
(*                                                                         *)
(* Each page keeps a copy of the theme, got from the page below when it    *)
(* opens and given back when it closes.  The profile also asks the server  *)
(* (GET) when it opens; the sheet tells the server (PUT) on Confirm.  A    *)
(* request is served and answered in two steps, in any order among the     *)
(* requests, and its answer may be lost (an exception for the caller).     *)
(*                                                                         *)
(* The home page may have been left with calls of its own under way: a     *)
(* verse that arrives is pushed over the settings, and an explanation that *)
(* fails pops the page on top.  The answer to a PUT pops the page on top,  *)
(* too: none of them asks which page that is.                              *)
(*                                                                         *)
(* The copies carry a history flag, `ok': whether the value came from the  *)
(* server or from the user, and not from the field's initial 0.            *)
(***************************************************************************)
EXTENDS Integers, Sequences

CONSTANTS
    N,        \* images of the carousel (21 in the code); themes are 0..N-1
    MaxPuts   \* bound: Confirm presses

ASSUME ImagesAssumption == N \in Nat \ {0}
ASSUME PutsAssumption == MaxPuts \in Nat

Theme == 0..(N - 1)

VARIABLES
    level,      \* the page on top, one of Levels, not counting a Verse
    late,       \* calls of the home page under way: "verse", "explain"
    verse,      \* a Verse lies on top of the settings
    sheetCtx,   \* the sheet's context is mounted (until its exit animation ends)
    shown,      \* theme of the home page
    currTheme,  \* theme of the profile
    prefTheme,  \* theme of the preference page
    index,      \* _currentIndex, a global variable of theme_bottom_modal.dart
    get,        \* the profile's GET: "none", "sent", "served"
    getVal,     \* the theme the GET was served
    puts,       \* the PUTs, in the order of the Confirm presses
    stored,     \* the server's theme
    \* History variables, read by the properties only.
    shownOk, currOk, prefOk,
    raced       \* an answer came too late, or to another page than the one it was for

pages == <<shown, currTheme, prefTheme, shownOk, currOk, prefOk>>
request == <<get, getVal>>
cover == <<late, verse>>
rest == <<sheetCtx, cover, pages, index, request, puts, stored, raced>>
vars == <<level, rest>>

\* "about" and "text": the profile's pages without a theme, AboutUsNavPage and one of the
\* texts above it.  "gone" when the home page itself was popped.
Levels == {"home", "profile", "about", "text", "prefs", "sheet", "gone"}

\* client: "waiting" for the answer, "deaf" when the sheet is unmounted, "done".
Put(val) == [val |-> val, server |-> "way", client |-> "waiting"]

\* The server has made the update, and the sheet that asked for it does not know yet.
Unread(i) == puts[i].client = "waiting" /\ puts[i].server = "applied"

\* The page of this level is on top.
At(l) == level = l /\ ~verse

Init ==
    /\ level = "home" /\ sheetCtx = FALSE /\ late = {} /\ verse = FALSE
    /\ stored \in Theme /\ shown = stored /\ shownOk = TRUE
    /\ currTheme = 0 /\ currOk = FALSE /\ prefTheme = 0 /\ prefOk = FALSE
    /\ index = 0
    /\ get = "none" /\ getVal = 0
    /\ puts = <<>>
    /\ raced = FALSE

-----------------------------------------------------------------------------
(* Mutants: slips in the code that the properties notice.  No specification uses them. *)

\* onPageChanged counts from 1.
Swipe_FromOne(i) ==
    /\ At("sheet") /\ index' = i + 1
    /\ UNCHANGED <<level, sheetCtx, cover, pages, request, puts, stored, raced>>

\* The home page resets its theme when it opens the menu.
OpenProfile_Resets ==
    /\ At("home") /\ level' = "profile"
    /\ shown' = 0
    /\ currTheme' = 0 /\ currOk' = FALSE
    /\ get' = "sent" /\ getVal' = 0
    /\ late' \in SUBSET {"verse", "explain"}
    /\ UNCHANGED <<sheetCtx, verse, shownOk, prefTheme, prefOk, index, puts, stored, raced>>

\* The profile ignores what the preference page returns.
ClosePrefs_Ignored == At("prefs") /\ level' = "profile" /\ UNCHANGED rest

-----------------------------------------------------------------------------
(* Profile *)

\* A new State object: currTheme is 0 until the GET is answered.  The home page may wait
\* for a verse or for an explanation.
OpenProfile ==
    /\ At("home") /\ level' = "profile"
    /\ currTheme' = 0 /\ currOk' = FALSE
    /\ get' = "sent" /\ getVal' = 0
    /\ late' \in SUBSET {"verse", "explain"}
    /\ UNCHANGED <<sheetCtx, verse, shown, shownOk, prefTheme, prefOk, index, puts, stored,
                   raced>>

GetServed ==
    /\ get = "sent" /\ get' = "served" /\ getVal' = stored
    /\ UNCHANGED <<level, sheetCtx, cover, pages, index, puts, stored, raced>>

\* initializeUserData; the answer may be older than a theme chosen meanwhile.
GetAnswered ==
    /\ get = "served" /\ get' = "none" /\ getVal' = 0
    /\ currTheme' = getVal /\ currOk' = TRUE
    /\ raced' = (raced \/ getVal # stored)
    /\ UNCHANGED <<level, sheetCtx, cover, shown, shownOk, prefTheme, prefOk, index, puts,
                   stored>>

\* getUserById throws; the profile keeps its 0.
GetFailed ==
    /\ get # "none" /\ get' = "none" /\ getVal' = 0
    /\ UNCHANGED <<level, sheetCtx, cover, pages, index, puts, stored, raced>>

\* Back: the home page shows the profile's theme.  The GET of a closed profile throws.
CloseProfile ==
    /\ At("profile") /\ level' = "home"
    /\ shown' = currTheme /\ shownOk' = currOk
    /\ get' = "none" /\ getVal' = 0
    /\ UNCHANGED <<sheetCtx, cover, currTheme, currOk, prefTheme, prefOk, index, puts, stored,
                   raced>>

\* About, user agreement, privacy and contact, below AboutUsNavPage.  None returns a
\* result, and the profile does not wait for one.
OpenAbout == At("profile") /\ level' = "about" /\ UNCHANGED rest
CloseAbout == At("about") /\ level' = "profile" /\ UNCHANGED rest
OpenText == At("about") /\ level' = "text" /\ UNCHANGED rest
CloseText == At("text") /\ level' = "about" /\ UNCHANGED rest

-----------------------------------------------------------------------------
(* Preference page *)

OpenPrefs ==
    /\ At("profile") /\ level' = "prefs"
    /\ prefTheme' = currTheme /\ prefOk' = currOk
    /\ UNCHANGED <<sheetCtx, cover, shown, shownOk, currTheme, currOk, index, request, puts,
                   stored, raced>>

ClosePrefs ==
    /\ At("prefs") /\ level' = "profile"
    /\ currTheme' = prefTheme /\ currOk' = prefOk
    /\ UNCHANGED <<sheetCtx, cover, shown, shownOk, prefTheme, prefOk, index, request, puts,
                   stored, raced>>

-----------------------------------------------------------------------------
(* The sheet *)

\* The carousel shows prefTheme; the global index keeps its old value.
OpenSheet ==
    /\ At("prefs") /\ ~sheetCtx
    /\ level' = "sheet" /\ sheetCtx' = TRUE
    /\ UNCHANGED <<cover, pages, index, request, puts, stored, raced>>

Swipe(i) ==
    /\ At("sheet") /\ index' = i
    /\ UNCHANGED <<level, sheetCtx, cover, pages, request, puts, stored, raced>>

\* Cancel, or a tap beside the sheet; a race if the server has made an update already.
Cancel ==
    /\ At("sheet") /\ level' = "prefs"
    /\ raced' = (raced \/ \E i \in DOMAIN puts : Unread(i))
    /\ UNCHANGED <<sheetCtx, cover, pages, index, request, puts, stored>>

\* Nothing disables the button while a PUT is on its way.
Confirm ==
    /\ At("sheet") /\ Len(puts) < MaxPuts
    /\ puts' = Append(puts, Put(index))
    /\ UNCHANGED <<level, sheetCtx, cover, pages, index, request, stored, raced>>

\* The exit animation ends: the context is unmounted.
SheetGone ==
    /\ sheetCtx /\ level # "sheet" /\ sheetCtx' = FALSE
    /\ puts' = [i \in DOMAIN puts |->
                  IF puts[i].client = "waiting" THEN [puts[i] EXCEPT !.client = "deaf"]
                  ELSE puts[i]]
    /\ UNCHANGED <<level, cover, pages, index, request, stored, raced>>

\* A race if the theme changes when the sheet that asked for it is not there any more.
PutServed(i, outcome) ==
    /\ puts[i].server = "way"
    /\ puts' = [puts EXCEPT ![i].server = outcome]
    /\ stored' = IF outcome = "applied" THEN puts[i].val ELSE stored
    /\ raced' = (raced \/ (/\ stored' # stored
                           /\ ~(puts[i].client = "waiting" /\ level = "sheet")))
    /\ UNCHANGED <<level, sheetCtx, cover, pages, index, request>>

\* Navigator.pop(v) closes the page on top, which need not be the sheet.
PopWith(v) ==
    \/ /\ verse /\ verse' = FALSE
       /\ shown' = v /\ shownOk' = TRUE
       /\ UNCHANGED <<level, currTheme, currOk, prefTheme, prefOk>>
    \/ /\ At("sheet") /\ level' = "prefs"
       /\ prefTheme' = v /\ prefOk' = TRUE
       /\ UNCHANGED <<verse, shown, shownOk, currTheme, currOk>>
    \/ /\ At("prefs") /\ level' = "profile"
       /\ currTheme' = v /\ currOk' = TRUE
       /\ UNCHANGED <<verse, shown, shownOk, prefTheme, prefOk>>
    \/ /\ At("profile") /\ level' = "home"
       /\ shown' = v /\ shownOk' = TRUE
       /\ UNCHANGED <<verse, currTheme, currOk, prefTheme, prefOk>>
    \/ At("about") /\ level' = "profile" /\ UNCHANGED <<verse, pages>>
    \/ At("text") /\ level' = "about" /\ UNCHANGED <<verse, pages>>
    \/ level \in {"home", "gone"} /\ level' = "gone" /\ UNCHANGED <<verse, pages>>

\* The request of a closed profile has nobody to answer to.
EndGet ==
    IF level = "profile" /\ level' # level THEN get' = "none" /\ getVal' = 0
    ELSE UNCHANGED request

\* confirm() after the await: every value but "error" counts as success, and the index
\* returned is the one of now.  An unmounted context throws.  A race if the index is not
\* the theme the server has, or goes to the page below a Verse.
Close(i) ==
    /\ puts' = [puts EXCEPT ![i].client = "done"]
    /\ \/ /\ puts[i].client = "waiting" /\ PopWith(index)
          /\ raced' = (raced \/ verse \/ index # stored)
       \/ puts[i].client = "deaf" /\ UNCHANGED <<level, verse, pages, raced>>
    /\ EndGet
    /\ UNCHANGED <<sheetCtx, late, index, stored>>

PutAnswered(i) == puts[i].server = "applied" /\ Close(i)

\* updateUserTheme caught an exception and returned null, which is not "error" either.
PutThrew(i) == Close(i)

\* "error": a message; the sheet stays.
PutRefused(i) ==
    /\ puts[i].server = "refused" /\ puts[i].client # "done"
    /\ puts' = [puts EXCEPT ![i].client = "done"]
    /\ UNCHANGED <<level, sheetCtx, cover, pages, index, request, stored, raced>>

-----------------------------------------------------------------------------
(* What the home page left behind.  The pages that a Verse leads to are in module App. *)

Settings == Levels \ {"home", "gone"}

\* handleGesture pushes the Verse over the page on top; its explanation is asked for.
LateVerse ==
    /\ "verse" \in late /\ level \in Settings /\ verse' = TRUE
    /\ late' \in {late \ {"verse"}, {"explain"}}
    /\ UNCHANGED <<level, sheetCtx, pages, index, request, puts, stored, raced>>

\* Back from the Verse, with the theme that it was given by the home page.
CloseVerse ==
    /\ verse /\ verse' = FALSE
    /\ UNCHANGED <<level, sheetCtx, late, pages, index, request, puts, stored, raced>>

\* generateOutput of a failed explanation pops the page on top without a result: the page
\* below keeps its theme.  A race unless that was the Verse.
LateFailure ==
    /\ "explain" \in late /\ level \in Settings /\ late' = late \ {"explain"}
    /\ \/ verse /\ verse' = FALSE /\ UNCHANGED <<level, raced>>
       \/ /\ ~verse /\ raced' = TRUE /\ UNCHANGED verse
          /\ level' = CASE level = "sheet" -> "prefs"
                        [] level = "text" -> "about"
                        [] level = "profile" -> "home"
                        [] OTHER -> "profile"
    /\ EndGet
    /\ UNCHANGED <<sheetCtx, pages, index, puts, stored>>

-----------------------------------------------------------------------------
Next ==
    \/ OpenProfile \/ GetServed \/ GetAnswered \/ GetFailed \/ CloseProfile
    \/ OpenAbout \/ CloseAbout \/ OpenText \/ CloseText
    \/ OpenPrefs \/ ClosePrefs
    \/ OpenSheet \/ (\E i \in Theme : Swipe(i)) \/ Cancel \/ Confirm \/ SheetGone
    \/ \E i \in DOMAIN puts, o \in {"applied", "refused"} : PutServed(i, o)
    \/ \E i \in DOMAIN puts : PutAnswered(i)
    \/ \E i \in DOMAIN puts : PutThrew(i)
    \/ \E i \in DOMAIN puts : PutRefused(i)
    \/ LateVerse \/ CloseVerse \/ LateFailure

Spec == Init /\ [][Next]_vars

-----------------------------------------------------------------------------
(* Properties *)

\* Types; every theme a page can come to show is an image of the carousel, for which
\* getBackground has a widget.
TypeOK ==
    /\ level \in Levels
    /\ sheetCtx \in BOOLEAN /\ verse \in BOOLEAN /\ late \subseteq {"verse", "explain"}
    /\ shown \in Theme /\ currTheme \in Theme /\ prefTheme \in Theme
    /\ index \in Theme /\ stored \in Theme
    /\ get \in {"none", "sent", "served"} /\ getVal \in Theme
    /\ puts \in Seq([val : Theme, server : {"way", "applied", "refused"},
                     client : {"waiting", "deaf", "done"}])
    /\ shownOk \in BOOLEAN /\ currOk \in BOOLEAN /\ prefOk \in BOOLEAN /\ raced \in BOOLEAN

\* Back on the home page the theme shown is the one the server has, unless the profile
\* was left before its data came or there was a race.  It is none to confirm twice, to go
\* on swiping or to read a verse while the update is on its way: the answers then close
\* the sheet and pages below it, and hand over the theme the server has.
HomeAgrees ==
    level = "home" /\ shownOk /\ ~raced => shown = stored

\* The settings implement ThemeRegister: the home page's theme changes on coming back
\* only, the stored theme while the user is away only, and unless there was a race the one
\* shown then is the one stored.
Register == INSTANCE ThemeRegister WITH away <- level # "home", blind <- ~shownOk

RegisterKept == Register!Spec

\* A theme update that the server did not make keeps the sheet open, with the message
\* "Error updating theme".
FailureReported ==
    [][(\E i \in DOMAIN puts : /\ puts[i].client = "waiting" /\ puts'[i].client = "done"
                               /\ puts[i].server # "applied")
         => level' = level]_vars
=============================================================================
