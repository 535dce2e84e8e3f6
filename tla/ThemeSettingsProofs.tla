------------------------ MODULE ThemeSettingsProofs ------------------------
(***************************************************************************)
(* Proof that the theme shown agrees with the theme stored, for any number *)
(* of images and of Confirm presses.                                       *)
(*                                                                         *)
(* HomeAgrees speaks of the home page only.  The strengthening IInv gives  *)
(* each page its turn: the page on top has the server's theme (Agrees).    *)
(* The sheet may know less than the server, but only while it waits for an *)
(* answer to an update that was made: the answer then hands the theme to   *)
(* whatever page is below the one it closes.                               *)
(***************************************************************************)
EXTENDS ThemeSettings, TLAPS

Requests == [val : Theme, server : {"way", "applied", "refused"},
             client : {"waiting", "deaf", "done"}]

\* The part of TypeOK that the argument needs.
Typed ==
    /\ level \in Levels
    /\ index \in Theme
    /\ puts \in Seq(Requests)

\* The home page is not left by way of a Verse.
VerseAway == verse => level \in Settings

SomeUnread == \E i \in DOMAIN puts : Unread(i)

\* The page on top has the stored theme; an update the sheet has not heard of yet is
\* still going to be answered.
Agrees ==
    ~raced =>
        /\ level = "home" /\ shownOk => shown = stored
        /\ level \in {"profile", "about", "text"} /\ currOk => currTheme = stored
        /\ level = "prefs" /\ prefOk => prefTheme = stored
        /\ level = "sheet" /\ prefOk => prefTheme = stored \/ SomeUnread

IInv == Typed /\ VerseAway /\ Agrees

\* The app starts with the stored theme on its home page and no request under way.
LEMMA InitIInv == Init => IInv
  <1> SUFFICES ASSUME Init PROVE IInv
    OBVIOUS
  <1>1. puts = <<>> /\ puts \in Seq(Requests) /\ index \in Theme
    BY ImagesAssumption DEF Init, Theme
  <1> QED
    BY <1>1 DEF Init, IInv, Typed, VerseAway, Agrees, Levels

\* A step of the pages leaves the requests alone.
LEMMA PageStep ==
    ASSUME IInv,
           \/ OpenProfile \/ GetServed \/ GetAnswered \/ GetFailed \/ CloseProfile
           \/ OpenAbout \/ CloseAbout \/ OpenText \/ CloseText
           \/ OpenPrefs \/ ClosePrefs \/ OpenSheet
           \/ (\E i \in Theme : Swipe(i)) \/ Cancel \/ LateVerse \/ CloseVerse \/ LateFailure
    PROVE  IInv'
  <1> USE DEF OpenProfile, GetServed, GetAnswered, GetFailed, CloseProfile, OpenAbout,
              CloseAbout, OpenText, CloseText, OpenPrefs, ClosePrefs, OpenSheet, Swipe,
              Cancel, LateVerse, CloseVerse, LateFailure, pages, request, rest, cover, At
  <1>1. puts' = puts /\ stored' = stored /\ index' \in Theme
    BY DEF IInv, Typed
  <1>2. ~raced' => ~raced
    OBVIOUS
  <1>3. level' \in Levels
    BY DEF IInv, Typed, Levels, Settings
  <1>4. Typed'
    BY <1>1, <1>3 DEF IInv, Typed
  <1>5. VerseAway'
    BY DEF IInv, VerseAway, Settings, Levels
  <1>6. SomeUnread' <=> SomeUnread
    BY <1>1 DEF SomeUnread, Unread
  <1>7. ASSUME ~raced' PROVE Agrees'
    <2>1. /\ level = "home" /\ shownOk => shown = stored
          /\ level \in {"profile", "about", "text"} /\ currOk => currTheme = stored
          /\ level = "prefs" /\ prefOk => prefTheme = stored
          /\ level = "sheet" /\ prefOk => prefTheme = stored \/ SomeUnread
      BY <1>2, <1>7 DEF IInv, Agrees
    <2> USE DEF Agrees
    <2>2. CASE OpenProfile
      BY <2>1, <2>2
    <2>3. CASE GetServed \/ GetFailed \/ LateVerse \/ CloseVerse \/ (\E i \in Theme : Swipe(i))
      <3>1. level' = level /\ pages' = pages
        BY <2>3
      <3> QED
        BY <1>1, <1>6, <2>1, <3>1
    <2>4. CASE GetAnswered
      <3>1. getVal = stored
        BY <1>7, <2>4
      <3> QED
        BY <1>1, <1>6, <3>1, <2>1, <2>4
    <2>5. CASE CloseProfile
      BY <1>1, <2>1, <2>5
    <2>6. CASE OpenPrefs
      BY <1>1, <2>1, <2>6
    <2>7. CASE ClosePrefs
      BY <1>1, <2>1, <2>7
    <2>8. CASE OpenSheet
      BY <1>1, <2>1, <2>8
    <2>9. CASE OpenAbout \/ CloseAbout \/ OpenText \/ CloseText
      BY <1>1, <2>1, <2>9
    <2>10. CASE Cancel
      <3>1. ~SomeUnread
        BY <1>7, <2>10 DEF SomeUnread
      <3> QED
        BY <1>1, <2>1, <2>10, <3>1
    <2>11. CASE LateFailure
      <3>1. level' = level /\ pages' = pages
        BY <1>7, <2>11
      <3> QED
        BY <1>1, <1>6, <2>1, <3>1
    <2> QED
      BY <2>2, <2>3, <2>4, <2>5, <2>6, <2>7, <2>8, <2>9, <2>10, <2>11
  <1>8. Agrees'
    BY <1>7 DEF Agrees
  <1> QED
    BY <1>4, <1>5, <1>8 DEF IInv

\* Confirm adds a request that the server has not seen.
LEMMA ConfirmStep == ASSUME IInv, Confirm PROVE IInv'
  <1> DEFINE n == Len(puts)
  <1>1. /\ puts' = Append(puts, Put(index)) /\ stored' = stored /\ pages' = pages
        /\ level' = level /\ index' = index /\ verse' = verse /\ raced' = raced
    BY DEF Confirm, cover
  <1>2. n \in Nat /\ DOMAIN puts = 1..n
    BY DEF IInv, Typed
  <1>3. /\ DOMAIN puts' = 1..(n + 1)
        /\ \A i \in 1..n : puts'[i] = puts[i]
    BY <1>1, <1>2 DEF IInv, Typed
  <1>4. Put(index) \in Requests
    BY DEF IInv, Typed, Put, Requests
  <1>5. SomeUnread => SomeUnread'
    BY <1>2, <1>3 DEF SomeUnread, Unread
  <1>6. Typed'
    BY <1>1, <1>4 DEF IInv, Typed
  <1>7. Agrees'
    BY <1>1, <1>5 DEF IInv, Agrees, pages
  <1> QED
    BY <1>1, <1>6, <1>7 DEF IInv, VerseAway

\* The sheet's context goes after the sheet.
LEMMA GoneStep == ASSUME IInv, SheetGone PROVE IInv'
  <1>1. /\ stored' = stored /\ pages' = pages /\ level # "sheet" /\ level' = level
        /\ index' = index /\ raced' = raced /\ verse' = verse
        /\ puts' = [i \in DOMAIN puts |->
                      IF puts[i].client = "waiting" THEN [puts[i] EXCEPT !.client = "deaf"]
                      ELSE puts[i]]
    BY DEF SheetGone, cover
  <1>2. Typed'
    <2>1. \A r \in Requests : [r EXCEPT !.client = "deaf"] \in Requests
      BY DEF Requests
    <2>2. \A i \in DOMAIN puts : puts'[i] \in Requests
      BY <1>1, <2>1 DEF IInv, Typed
    <2>3. Len(puts) \in Nat /\ DOMAIN puts = 1..Len(puts)
      BY DEF IInv, Typed
    <2>4. puts' \in [1..Len(puts) -> Requests]
      BY <1>1, <2>2, <2>3
    <2> QED
      BY <1>1, <2>3, <2>4 DEF IInv, Typed
  <1>3. Agrees'
    BY <1>1 DEF IInv, Agrees, pages
  <1> QED
    BY <1>1, <1>2, <1>3 DEF IInv, VerseAway

\* The server deals with a request: unless there is a race its sheet is still there, and
\* waiting for it.
LEMMA ServeStep ==
    ASSUME IInv, NEW k \in DOMAIN puts, NEW o \in {"applied", "refused"}, PutServed(k, o)
    PROVE  IInv'
  <1>1. /\ pages' = pages /\ level' = level /\ index' = index /\ verse' = verse
        /\ puts[k].server = "way"
        /\ puts' = [puts EXCEPT ![k] = [puts[k] EXCEPT !.server = o]]
        /\ stored' = IF o = "applied" THEN puts[k].val ELSE stored
        /\ ~raced' => ~raced /\ (stored' = stored \/ (puts[k].client = "waiting" /\ level = "sheet"))
    BY DEF PutServed, cover
  <1>a. puts[k] \in Requests /\ Len(puts) \in Nat /\ DOMAIN puts = 1..Len(puts)
    BY DEF IInv, Typed
  <1>b. LET r == [puts[k] EXCEPT !.server = o]
        IN  r.server = o /\ r.client = puts[k].client /\ r \in Requests
    BY <1>a DEF Requests
  <1>2. /\ DOMAIN puts' = DOMAIN puts
        /\ \A i \in DOMAIN puts : i # k => puts'[i] = puts[i]
        /\ puts'[k].server = o /\ puts'[k].client = puts[k].client
    BY <1>1, <1>a, <1>b
  <1>3. Typed'
    BY <1>1, <1>b DEF IInv, Typed
  <1>4. SomeUnread => SomeUnread'
    <2>1. \A i \in DOMAIN puts : Unread(i) => Unread(i)'
      BY <1>1, <1>2 DEF Unread
    <2> QED
      BY <1>2, <2>1 DEF SomeUnread
  <1>5. stored' # stored /\ ~raced' => SomeUnread' /\ level' = "sheet"
    <2> SUFFICES ASSUME stored' # stored, ~raced' PROVE SomeUnread' /\ level' = "sheet"
      OBVIOUS
    <2>1. Unread(k)' /\ k \in DOMAIN puts'
      BY <1>1, <1>2 DEF Unread
    <2> QED
      BY <1>1, <2>1 DEF SomeUnread
  <1>6. Agrees'
    <2>1. CASE stored' = stored
      BY <1>1, <1>4, <2>1 DEF IInv, Agrees, pages
    <2>2. CASE stored' # stored
      BY <1>5, <2>2 DEF Agrees
    <2> QED
      BY <2>1, <2>2
  <1> QED
    BY <1>1, <1>3, <1>6 DEF IInv, VerseAway

\* A request is over for the client: which page closes is up to PopWith.
LEMMA DoneTyped ==
    ASSUME IInv, NEW k \in DOMAIN puts, puts' = [puts EXCEPT ![k].client = "done"]
    PROVE  /\ puts' \in Seq(Requests) /\ DOMAIN puts' = DOMAIN puts
           /\ \A i \in DOMAIN puts : i # k => puts'[i] = puts[i]
  <1>1. puts' = [puts EXCEPT ![k] = [puts[k] EXCEPT !.client = "done"]]
    OBVIOUS
  <1>2. puts[k] \in Requests /\ Len(puts) \in Nat /\ DOMAIN puts = 1..Len(puts)
    BY DEF IInv, Typed
  <1>3. [puts[k] EXCEPT !.client = "done"] \in Requests
    BY <1>2 DEF Requests
  <1>4. puts' \in Seq(Requests)
    BY <1>1, <1>3 DEF IInv, Typed
  <1> QED
    BY <1>1, <1>2, <1>3, <1>4

\* An answer, or an exception: unless there is a race the page that closes is one of the
\* settings, and the theme it returns is the server's.
LEMMA CloseStep == ASSUME IInv, NEW k \in DOMAIN puts, Close(k) PROVE IInv'
  <1>1. /\ puts' = [puts EXCEPT ![k].client = "done"]
        /\ index' = index /\ stored' = stored
        /\ \/ puts[k].client = "waiting" /\ PopWith(index)
           \/ puts[k].client = "deaf" /\ UNCHANGED <<level, verse, pages, raced>>
    BY DEF Close
  <1>2. /\ puts' \in Seq(Requests) /\ DOMAIN puts' = DOMAIN puts
        /\ \A i \in DOMAIN puts : i # k => puts'[i] = puts[i]
    BY <1>1, DoneTyped
  <1>3. level' \in Levels
    BY <1>1 DEF IInv, Typed, PopWith, At, Levels
  <1>4. Typed'
    BY <1>1, <1>2, <1>3 DEF IInv, Typed
  <1>5. VerseAway'
    BY <1>1 DEF IInv, VerseAway, PopWith, At, Settings, Levels
  <1>6. ASSUME ~raced' PROVE Agrees'
    <2>1. CASE puts[k].client = "deaf"
      <3>1. UNCHANGED <<level, pages, raced>>
        BY <2>1 DEF Close
      <3>2. SomeUnread => SomeUnread'
        <4>1. \A i \in DOMAIN puts : Unread(i) => Unread(i)'
          BY <1>2, <2>1 DEF Unread
        <4> QED
          BY <1>2, <4>1 DEF SomeUnread
      <3> QED
        BY <1>1, <3>1, <3>2 DEF IInv, Agrees, pages
    <2>2. CASE puts[k].client = "waiting"
      <3>1. ~raced /\ ~verse /\ index = stored /\ PopWith(index)
        BY <1>6, <2>2 DEF Close
      <3>2. CASE level = "sheet"
        BY <1>1, <3>1, <3>2 DEF PopWith, At, Agrees
      <3>3. CASE level = "prefs"
        BY <1>1, <3>1, <3>3 DEF PopWith, At, Agrees
      <3>4. CASE level = "profile"
        BY <1>1, <3>1, <3>4 DEF PopWith, At, Agrees
      <3>5. CASE level \in {"about", "text"}
        BY <1>1, <3>1, <3>5 DEF PopWith, At, pages, IInv, Agrees
      <3>6. CASE level \in {"home", "gone"}
        BY <1>1, <3>1, <3>6 DEF PopWith, At, Agrees
      <3> QED
        BY <3>2, <3>3, <3>4, <3>5, <3>6 DEF IInv, Typed, Levels
    <2> QED
      BY <1>1, <2>1, <2>2
  <1>7. Agrees'
    BY <1>6 DEF Agrees
  <1> QED
    BY <1>4, <1>5, <1>7 DEF IInv

\* A refused request changed nothing on the server and closes nothing.
LEMMA RefusedStep ==
    ASSUME IInv, NEW k \in DOMAIN puts, PutRefused(k)
    PROVE  IInv'
  <1>1. /\ puts[k].server = "refused" /\ puts' = [puts EXCEPT ![k].client = "done"]
        /\ pages' = pages /\ level' = level /\ index' = index /\ stored' = stored
        /\ raced' = raced /\ verse' = verse
    BY DEF PutRefused, cover
  <1>2. /\ puts' \in Seq(Requests) /\ DOMAIN puts' = DOMAIN puts
        /\ \A i \in DOMAIN puts : i # k => puts'[i] = puts[i]
    BY <1>1, DoneTyped
  <1>3. SomeUnread => SomeUnread'
    <2>1. \A i \in DOMAIN puts : Unread(i) => Unread(i)'
      BY <1>1, <1>2 DEF Unread
    <2> QED
      BY <1>2, <2>1 DEF SomeUnread
  <1>4. Agrees'
    BY <1>1, <1>3 DEF IInv, Agrees, pages
  <1> QED
    BY <1>1, <1>2, <1>4 DEF IInv, Typed, VerseAway

\* A step that changes no variable.
LEMMA StutterStep == ASSUME IInv, UNCHANGED vars PROVE IInv'
  <1>1. /\ puts' = puts /\ pages' = pages /\ level' = level /\ index' = index
        /\ stored' = stored /\ raced' = raced /\ verse' = verse
    BY DEF vars, rest, cover
  <1>2. SomeUnread' <=> SomeUnread
    BY <1>1 DEF SomeUnread, Unread
  <1> QED
    BY <1>1, <1>2 DEF IInv, Typed, VerseAway, Agrees, pages

\* The invariant holds throughout: one case per group of actions.
THEOREM Inductive == Spec => []IInv
  <1>1. IInv /\ [Next]_vars => IInv'
    <2> SUFFICES ASSUME IInv, [Next]_vars PROVE IInv'
      OBVIOUS
    <2> QED
      BY PageStep, ConfirmStep, GoneStep, ServeStep, CloseStep, RefusedStep, StutterStep
         DEF Next, PutAnswered, PutThrew
  <1> QED
    BY InitIInv, <1>1, PTL DEF Spec

\* The theme the home page shows is the server's (initializeUserData, confirm() and the
\* pops between them), for every number of images and of Confirm presses.
THEOREM HomeShowsStored == Spec => []HomeAgrees
  <1>1. IInv => HomeAgrees
    BY DEF IInv, Agrees, HomeAgrees
  <1> QED
    BY Inductive, <1>1, PTL

\* The values the pages and the server hold, and the Booleans.
Values ==
    /\ shown \in Theme /\ currTheme \in Theme /\ prefTheme \in Theme
    /\ stored \in Theme /\ getVal \in Theme
    /\ get \in {"none", "sent", "served"}
    /\ late \subseteq {"verse", "explain"}

Flags ==
    /\ sheetCtx \in BOOLEAN /\ verse \in BOOLEAN /\ raced \in BOOLEAN
    /\ shownOk \in BOOLEAN /\ currOk \in BOOLEAN /\ prefOk \in BOOLEAN

\* A page's theme comes from another page, from the server or from the carousel.
LEMMA ValuesStep == ASSUME IInv, Values, [Next]_vars PROVE Values'
  <1> USE DEF Values, pages, request, rest, cover
  <1>0. 0 \in Theme /\ index \in Theme
    BY ImagesAssumption DEF IInv, Typed, Theme
  <1>1. CASE OpenProfile \/ GetServed \/ GetAnswered \/ GetFailed \/ CloseProfile
    BY <1>0, <1>1 DEF OpenProfile, GetServed, GetAnswered, GetFailed, CloseProfile
  <1>2. CASE OpenAbout \/ CloseAbout \/ OpenText \/ CloseText \/ OpenPrefs \/ ClosePrefs
    BY <1>2 DEF OpenAbout, CloseAbout, OpenText, CloseText, OpenPrefs, ClosePrefs
  <1>3. CASE OpenSheet \/ (\E i \in Theme : Swipe(i)) \/ Cancel \/ Confirm \/ SheetGone
    BY <1>3 DEF OpenSheet, Swipe, Cancel, Confirm, SheetGone
  <1>4. ASSUME NEW i \in DOMAIN puts, NEW o \in {"applied", "refused"}, PutServed(i, o)
        PROVE  Values'
    <2>1. puts[i] \in Requests
      BY DEF IInv, Typed
    <2>2. puts[i].val \in Theme
      BY <2>1 DEF Requests
    <2> QED
      BY <1>4, <2>2 DEF PutServed
  <1>5. ASSUME NEW i \in DOMAIN puts, Close(i) PROVE Values'
    BY <1>0, <1>5 DEF Close, EndGet, PopWith
  <1>6. ASSUME NEW i \in DOMAIN puts, PutRefused(i) PROVE Values'
    BY <1>6 DEF PutRefused
  <1>7. CASE LateVerse \/ CloseVerse \/ LateFailure
    BY <1>0, <1>7 DEF LateVerse, CloseVerse, LateFailure, EndGet
  <1>8. CASE UNCHANGED vars
    BY <1>8 DEF vars
  <1> QED
    BY <1>1, <1>2, <1>3, <1>4, <1>5, <1>6, <1>7, <1>8 DEF Next, PutAnswered, PutThrew

\* The Booleans stay Boolean.
LEMMA FlagsStep == ASSUME Flags, [Next]_vars PROVE Flags'
  <1> USE DEF Flags, pages, request, rest, cover
  <1>1. CASE OpenProfile \/ GetServed \/ GetAnswered \/ GetFailed \/ CloseProfile
    BY <1>1, Zenon DEF OpenProfile, GetServed, GetAnswered, GetFailed, CloseProfile
  <1>2. CASE OpenAbout \/ CloseAbout \/ OpenText \/ CloseText \/ OpenPrefs \/ ClosePrefs
    BY <1>2, Zenon DEF OpenAbout, CloseAbout, OpenText, CloseText, OpenPrefs, ClosePrefs
  <1>3. CASE OpenSheet \/ (\E i \in Theme : Swipe(i)) \/ Cancel \/ Confirm \/ SheetGone
    BY <1>3, Zenon DEF OpenSheet, Swipe, Cancel, Confirm, SheetGone
  <1>4. ASSUME NEW i \in DOMAIN puts, NEW o \in {"applied", "refused"}, PutServed(i, o)
        PROVE  Flags'
    BY <1>4, Zenon DEF PutServed
  <1>5. ASSUME NEW i \in DOMAIN puts, Close(i) PROVE Flags'
    BY <1>5, Zenon DEF Close, PopWith
  <1>6. ASSUME NEW i \in DOMAIN puts, PutRefused(i) PROVE Flags'
    BY <1>6, Zenon DEF PutRefused
  <1>7. CASE LateVerse \/ CloseVerse \/ LateFailure
    BY <1>7, Zenon DEF LateVerse, CloseVerse, LateFailure
  <1>8. CASE UNCHANGED vars
    BY <1>8, Zenon DEF vars
  <1> QED
    BY <1>1, <1>2, <1>3, <1>4, <1>5, <1>6, <1>7, <1>8 DEF Next, PutAnswered, PutThrew

\* Every theme a page can come to show is one getBackground has a widget for.
THEOREM TypeCorrect == Spec => []TypeOK
  <1>1. Init => Values /\ Flags
    <2>1. Init => Values
      BY ImagesAssumption DEF Init, Values, Theme
    <2>2. Init => Flags
      BY Zenon DEF Init, Flags
    <2> QED
      BY <2>1, <2>2
  <1>2. Spec => [](IInv /\ Values /\ Flags)
    <2>1. IInv /\ Values /\ Flags /\ [Next]_vars => Values' /\ Flags'
      BY ValuesStep, FlagsStep
    <2> QED
      BY <1>1, <2>1, Inductive, PTL DEF Spec
  <1>3. IInv /\ Values /\ Flags => TypeOK
    <2> SUFFICES ASSUME IInv, Values, Flags PROVE TypeOK
      OBVIOUS
    <2>1. puts \in Seq([val : Theme, server : {"way", "applied", "refused"},
                        client : {"waiting", "deaf", "done"}])
      BY DEF IInv, Typed, Requests
    <2> QED
      BY <2>1, Zenon DEF IInv, Typed, Values, Flags, TypeOK
  <1> QED
    BY <1>2, <1>3, PTL

\* The settings implement ThemeRegister: a step is a visit's beginning or end, a write
\* during the visit, a race, or of no concern to the home page.
THEOREM SettingsAreRegister == Spec => RegisterKept
  <1>1. Init => Register!Init
    BY DEF Init, Register!Init
  <1>2. ASSUME IInv, TypeOK, TypeOK', [Next]_vars PROVE [Register!Next]_(Register!vars)
    <2> USE DEF Register!vars, Register!Next, pages, request, rest, cover, At
    <2> DEFINE Same == UNCHANGED <<level, stored, shown, shownOk, raced>>
    <2>0. /\ Same => [Register!Next]_(Register!vars)
          /\ raced' = TRUE => [Register!Next]_(Register!vars)
      BY DEF Register!Race
    <2>a. ASSUME level # "home", level' # "home", UNCHANGED <<stored, shown, shownOk, raced>>
          PROVE  [Register!Next]_(Register!vars)
      BY <2>a
    <2>b. raced \in BOOLEAN /\ raced' \in BOOLEAN
      BY <1>2 DEF TypeOK
    <2>c. ASSUME level = "home", level' # "home", UNCHANGED <<stored, shown, shownOk, raced>>
          PROVE  [Register!Next]_(Register!vars)
      BY <2>c DEF Register!Leave
    <2>d. ASSUME level # "home", level' = "home", UNCHANGED <<stored, raced>>,
                 shownOk' => shown' = stored
          PROVE  [Register!Next]_(Register!vars)
      <3>1. shown' \in Theme /\ shownOk' \in BOOLEAN
        BY <1>2 DEF TypeOK
      <3> QED
        BY <2>d, <3>1 DEF Register!Return
    <2>1. CASE OpenProfile
      BY <2>1, <2>c DEF OpenProfile
    <2>2. CASE CloseProfile
      <3>1. raced = TRUE \/ (shownOk' => shown' = stored)
        BY <1>2, <2>2 DEF CloseProfile, IInv, Agrees, TypeOK
      <3>2. level # "home" /\ level' = "home" /\ stored' = stored /\ raced' = raced
        BY <2>2 DEF CloseProfile
      <3> QED
        BY <3>1, <3>2, <2>0, <2>d
    <2>3. CASE GetServed \/ GetAnswered \/ GetFailed
      <3>1. UNCHANGED <<level, stored, shown, shownOk>> /\ (raced' = raced \/ raced' = TRUE)
        BY <2>3, <2>b DEF GetServed, GetAnswered, GetFailed
      <3> QED
        BY <3>1, <2>0
    <2>4. CASE OpenAbout \/ CloseAbout \/ OpenText \/ CloseText \/ OpenPrefs \/ ClosePrefs
      BY <2>4, <2>a DEF OpenAbout, CloseAbout, OpenText, CloseText, OpenPrefs, ClosePrefs
    <2>5. CASE OpenSheet \/ SheetGone \/ Confirm \/ LateVerse \/ CloseVerse
      <3>1. /\ level' = level \/ (level # "home" /\ level' # "home")
            /\ UNCHANGED <<stored, shown, shownOk, raced>>
        BY <2>5 DEF OpenSheet, SheetGone, Confirm, LateVerse, CloseVerse
      <3> QED
        BY <3>1, <2>0, <2>a
    <2>6. CASE (\E i \in Theme : Swipe(i)) \/ Cancel
      <3>1. /\ level # "home" /\ level' # "home"
            /\ UNCHANGED <<stored, shown, shownOk>> /\ (raced' = raced \/ raced' = TRUE)
        BY <2>6, <2>b DEF Swipe, Cancel
      <3> QED
        BY <3>1, <2>0, <2>a
    <2>7. ASSUME NEW i \in DOMAIN puts, NEW o \in {"applied", "refused"}, PutServed(i, o)
          PROVE  [Register!Next]_(Register!vars)
      <3>1. UNCHANGED <<level, shown, shownOk>> /\ stored' \in Theme
        BY <1>2, <2>7 DEF PutServed, TypeOK
      <3>2. \/ raced' = TRUE
            \/ raced' = raced /\ (stored' = stored \/ level = "sheet")
        BY <2>7, <2>b DEF PutServed
      <3> QED
        BY <3>1, <3>2, <2>0 DEF Register!Write
    <2>8. ASSUME NEW i \in DOMAIN puts, Close(i) PROVE [Register!Next]_(Register!vars)
      <3>1. CASE raced' = TRUE
        BY <2>0, <3>1
      <3>2. CASE raced' # TRUE /\ puts[i].client = "deaf"
        BY <2>0, <2>8, <3>2 DEF Close
      <3>3. CASE raced' # TRUE /\ puts[i].client = "waiting"
        <4>1. /\ ~raced /\ ~verse /\ index = stored /\ PopWith(index)
              /\ raced' = raced /\ stored' = stored
          BY <2>b, <2>8, <3>3 DEF Close
        <4>2. CASE level = "profile"
          BY <4>1, <4>2, <2>d DEF PopWith
        <4>3. CASE level = "home"
          BY <4>1, <4>3, <2>c DEF PopWith
        <4>4. CASE level \notin {"profile", "home"}
          BY <4>1, <4>4, <2>a DEF PopWith
        <4> QED
          BY <4>2, <4>3, <4>4
      <3> QED
        BY <2>8, <3>1, <3>2, <3>3 DEF Close
    <2>9. CASE LateFailure
      BY <2>0, <2>9 DEF LateFailure
    <2>10. ASSUME NEW i \in DOMAIN puts, PutRefused(i) PROVE [Register!Next]_(Register!vars)
      BY <2>0, <2>10 DEF PutRefused
    <2>11. CASE UNCHANGED vars
      BY <2>0, <2>11 DEF vars
    <2> HIDE DEF Same
    <2> QED
      BY <1>2, <2>1, <2>2, <2>3, <2>4, <2>5, <2>6, <2>7, <2>8, <2>9, <2>10, <2>11
         DEF Next, PutAnswered, PutThrew
  <1> QED
    BY <1>1, <1>2, Inductive, TypeCorrect, PTL DEF Spec, RegisterKept, Register!Spec
=============================================================================
