----------------------------- MODULE AppProofs -----------------------------
(***************************************************************************)
(* Proofs about the whole app: reading flow, profiles and server.  A step  *)
(* of the app is a step of Home, for which HomeProofs has the invariant,   *)
(* or the app starts again.                                                *)
(*                                                                         *)
(* ShowsStored is not inductive.  Without a race the page that the user    *)
(* sees of every open profile agrees with the server, if it has its data   *)
(* (Copies): for a sheet this may have to wait for an answer, to an update *)
(* that the server has made.  While no profile is open every page that a   *)
(* return would show next agrees (Shows).                                  *)
(***************************************************************************)
EXTENDS App, HomeProofs

CopySet == [theme : Themes, ok : BOOLEAN, get : {"none", "sent", "served"}, val : Themes,
            level : {"profile", "prefs", "sheet"}, pref : Themes, prefOk : BOOLEAN]

PutSet == [val : Themes, state : {"free", "way", "applied", "lost"}, at : Nat]

OpenProfiles == {i \in 1..Len(stack) : stack[i].name = "Profile"}

AppTyped ==
    /\ stored \in Themes /\ coverGet \in Themes \union {NoTheme} /\ index \in Themes
    /\ profiles \in [OpenProfiles -> CopySet]
    /\ puts \in [Slots -> PutSet]

\* The server has made an update that the sheet of profile i waits for.
UnreadAt(i) == \E s \in Slots : Unread(s, i)

\* What the user sees of the copy c agrees with the theme v.
Agrees(c, v) ==
    /\ c.level = "profile" /\ c.ok => c.theme = v
    /\ c.level # "profile" /\ c.prefOk => c.pref = v

Copies ==
    ~raced => \A i \in OpenProfiles : \/ Agrees(profiles[i], stored)
                                      \/ profiles[i].level = "sheet" /\ UnreadAt(i)

Shows == fresh /\ ~raced /\ OpenProfiles = {} => AllCurrent(stored)

AppIInv == IInv /\ AppTyped /\ Copies /\ Shows

-----------------------------------------------------------------------------
(* The steps of Home *)

\* A step of the app is a step of the reading flow, or the app starts again.
LEMMA AppStepIsHomeStep ==
    ASSUME AppIInv, [AppNext]_appVars PROVE [Next]_vars \/ Relaunch
  <1>0. Typed /\ AppTyped
    BY DEF AppIInv, IInv
  <1>1. CASE UNCHANGED appVars
    BY <1>1 DEF appVars
  <1>2. CASE Reading
    BY <1>2 DEF Reading, Next
  <1>3. ASSUME NEW k \in 1..MaxFetch, Interrupted(k) PROVE Next
    BY <1>3 DEF Interrupted, Next
  <1>4. CASE \/ CoverServed \/ OpenPrefs \/ ClosePrefs \/ OpenSheet
             \/ (\E t \in Themes : Swipe(t)) \/ Cancel \/ (\E s \in Slots : PutServed(s))
    BY <1>4 DEF CoverServed, OpenPrefs, ClosePrefs, OpenSheet, Swipe, Cancel, PutServed
  <1>5. CASE CoverAnswered
    <2>1. \E t \in Themes \union {NoTheme} : UserDataArrives(t)
      BY <1>0, <1>5 DEF CoverAnswered, AppTyped
    <2> QED
      BY <2>1 DEF Next
  <1>6. CASE Visit \/ Quit
    BY <1>6 DEF Visit, Quit, Next
  <1>7. CASE Leave
    <2>1. stack # <<>> /\ Top.name = "Profile" /\ CloseProfile(profiles[Len(stack)].theme)
      BY <1>7 DEF Leave, At, OnTop
    <2>2. Len(stack) \in 1..Len(stack) /\ stack[Len(stack)].name = "Profile"
      BY <1>0, <2>1 DEF Typed, Top
    <2>3. profiles[Len(stack)] \in CopySet
      BY <1>0, <2>2 DEF AppTyped, OpenProfiles
    <2>4. profiles[Len(stack)].theme \in Themes
      BY <2>3 DEF CopySet
    <2> QED
      BY <2>1, <2>4 DEF Next
  <1>8. ASSUME NEW i \in DOMAIN profiles, ProfileServed(i) \/ ProfileAnswered(i) \/ ProfileFailed(i)
        PROVE  UNCHANGED vars
    BY <1>8 DEF ProfileServed, ProfileAnswered, ProfileFailed
  <1>9. ASSUME NEW s \in Slots, Confirm(s) \/ PutRefused(s) \/ SheetGone(s)
        PROVE  [Next]_vars
    BY <1>9 DEF Confirm, PutRefused, SheetGone, Next
  <1>10. ASSUME NEW s \in Slots, PutAnswered(s) PROVE Next
    <2>1. ThemeAnswered(index) /\ index \in Themes
      BY <1>0, <1>10 DEF PutAnswered, AppTyped
    <2> QED
      BY <2>1 DEF Next
  <1> QED
    BY <1>1, <1>2, <1>3, <1>4, <1>5, <1>6, <1>7, <1>8, <1>9, <1>10 DEF AppNext

\* What the steps that concern no profile do to the stack.
LEMMA ReadingIs ==
    ASSUME IInv, Reading
    PROVE  \/ stack' = stack
           \/ \E p \in PageSet : /\ Pushed(p) /\ p.name \in HomePages
                                 /\ \/ OnTop(HomePages) /\ p.theme = Top.theme
                                    \/ Current(1) /\ stack # <<>> /\ p.theme = stack[1].theme
           \/ /\ stack # <<>> /\ Popped(NoTheme) /\ Top.name # "Profile"
              /\ Top.name \in HomePages => Broken(Top)
           \/ /\ stack # <<>> /\ Popped(Top.theme) /\ Top.theme # NoTheme /\ ~Broken(Top)
              /\ Top.name \in HomePages \ {"Cover"}
  <1>0. Typed /\ Stacked /\ stack \in Seq(PageSet) /\ Len(stack) \in Nat
    BY DEF IInv, Typed
  <1>1. CASE \/ OpenBible \/ FetchThrew \/ SignedOut
             \/ \E k \in 1..MaxFetch, p \in {"ok", "short"} : ExplainOk(k, p)
             \/ \E k \in 1..MaxFetch : ExplainThrew(k)
    BY <1>1 DEF OpenBible, FetchThrew, SignedOut, ExplainOk, ExplainThrew
  <1>2. ASSUME NEW fut \in Nat, fetch = "sent", CoverMounted, PushVerse(fut)
        PROVE  \E p \in PageSet : /\ Pushed(p) /\ p.name \in HomePages
                                  /\ Current(1) /\ stack # <<>> /\ p.theme = stack[1].theme
    <2> DEFINE p == VersePage(stack[1].theme, fut)
    <2>1. Len(stack) # 0 /\ stack[1].name = "Cover" /\ stack[1] \in PageSet /\ stack # <<>>
      BY <1>0, <1>2 DEF CoverMounted
    <2>2. p \in PageSet /\ p.name \in HomePages /\ p.theme = stack[1].theme
      BY <1>2, <2>1 DEF VersePage, Page, PageSet, PageNames, HomePages
    <2> HIDE DEF p
    <2>3. Pushed(p)
      BY <1>0, <1>2, <2>2, PushIs DEF PushVerse, SamePage, p
    <2>4. Current(1)
      BY <1>0, <1>2, <2>1, NoHomeAbove DEF Current, HomePages
    <2> QED
      BY <2>1, <2>2, <2>3, <2>4
  <1>3. CASE FetchOk
    <2>1. fetched + 1 \in Nat /\ fetch = "sent" /\ CoverMounted /\ PushVerse(fetched + 1)
      BY <1>0, <1>3 DEF FetchOk, Typed
    <2> QED
      BY <1>2, <2>1
  <1>4. CASE FetchFailed
    <2>1. /\ outputDataFuture \in Nat /\ fetch = "sent" /\ CoverMounted
          /\ PushVerse(outputDataFuture)
      BY <1>0, <1>4 DEF FetchFailed, Typed
    <2> QED
      BY <1>2, <2>1
  <1>5. ASSUME NEW d \in BOOLEAN, OpenExplain(d) \/ OpenGuidance(d) \/ OpenQuery(d)
        PROVE  \E p \in PageSet : /\ Pushed(p) /\ p.name \in HomePages
                                  /\ OnTop(HomePages) /\ p.theme = Top.theme
    <2>0. stack # <<>> /\ OnTop(HomePages)
      BY <1>5 DEF OpenExplain, OpenGuidance, OpenQuery, VerseArrow, ExplainArrow, GuidanceArrow,
                  OnTop, HomePages
    <2>1. Top \in PageSet
      BY <2>0, TopIs
    <2>2. /\ Moved(d) \in Seq(PageSet) /\ Len(Moved(d)) = Len(stack)
          /\ \A i \in 1..Len(stack) : /\ SamePage(Moved(d)[i], stack[i])
                                      /\ Moved(d)[i].theme = stack[i].theme
      BY <1>0, <2>0, MovedIs
    <2>3. PICK p : /\ p \in {ExplainationPage(Top, Len(stack)), GuidancePage(Top, Len(stack)),
                             QueryPage(Top, Len(stack))}
                   /\ stack' = Append(Moved(d), p)
      BY <1>5 DEF OpenExplain, OpenGuidance, OpenQuery, Push
    <2>4. p \in PageSet /\ p.name \in HomePages /\ p.theme = Top.theme
      <3>1. ASSUME NEW name \in {"Explain", "Guidance", "Query"}, NEW q,
                   q = Page(name, Top.theme, Len(stack), TRUE, Top.fut)
            PROVE  q \in PageSet /\ q.name \in HomePages /\ q.theme = Top.theme
        BY <1>0, <2>1, <3>1 DEF Page, PageSet, PageNames, HomePages
      <3>2. \/ p = Page("Explain", Top.theme, Len(stack), TRUE, Top.fut)
            \/ p = Page("Guidance", Top.theme, Len(stack), TRUE, Top.fut)
            \/ p = Page("Query", Top.theme, Len(stack), TRUE, Top.fut)
        BY <2>3, Zenon DEF ExplainationPage, GuidancePage, QueryPage
      <3> QED
        BY <3>1, <3>2
    <2>5. Pushed(p)
      BY <2>2, <2>3, <2>4, PushIs
    <2> QED
      BY <2>0, <2>4, <2>5
  <1>6. CASE OpenChat
    <2>0. /\ stack # <<>> /\ OnTop(HomePages)
          /\ stack' = Append(stack, ChatPage(Top, Len(stack)))
      BY <1>6 DEF OpenChat, OnTop, Push, HomePages
    <2>1. Top \in PageSet /\ \A i \in 1..Len(stack) : SamePage(stack[i], stack[i])
      BY <2>0, TopIs
    <2> DEFINE p == ChatPage(Top, Len(stack))
    <2>2. p \in PageSet /\ p.name \in HomePages /\ p.theme = Top.theme
      BY <1>0, <2>1 DEF ChatPage, Page, PageSet, PageNames, HomePages
    <2> HIDE DEF p
    <2>3. Pushed(p)
      BY <1>0, <2>0, <2>1, <2>2, PushIs DEF p
    <2> QED
      BY <2>0, <2>2, <2>3
  <1>7. CASE Back
    <2>1. CASE OnTop(HomePages \ {"Cover"}) /\ PopTop(IF Broken(Top) THEN NoTheme ELSE Top.theme)
      <3>1. stack # <<>> /\ Top.name \in HomePages \ {"Cover"} /\ Top.name # "Profile"
        BY <2>1 DEF OnTop, HomePages
      <3>2. Top.theme \in Shown /\ Top.theme # NoTheme
        BY <3>1, TopIs, ThemeAssumption DEF PageSet, Shown
      <3>3. CASE Broken(Top)
        BY <1>0, <2>1, <3>1, <3>3, PopIs
      <3>4. CASE ~Broken(Top)
        BY <1>0, <2>1, <3>1, <3>2, <3>4, PopIs
      <3> QED
        BY <3>3, <3>4
    <2>2. CASE OnTop({"Auth"}) /\ PopTop(NoTheme)
      <3>1. stack # <<>> /\ Top.name \notin HomePages /\ Top.name # "Profile"
        BY <2>2 DEF OnTop, HomePages
      <3> QED
        BY <1>0, <2>2, <3>1, PopIs
    <2> QED
      BY <1>7, <2>1, <2>2 DEF Back
  <1> QED
    BY <1>1, <1>3, <1>4, <1>5, <1>6, <1>7 DEF Reading

-----------------------------------------------------------------------------
(* The open profiles *)

\* A page opened over the others.
LEMMA ProfilesPush ==
    ASSUME Typed, NEW p, Pushed(p)
    PROVE  OpenProfiles' = OpenProfiles \union
                               {i \in {Len(stack) + 1} : p.name = "Profile"}
  <1>0. /\ Len(stack) \in Nat /\ Len(stack') = Len(stack) + 1 /\ stack'[Len(stack) + 1] = p
        /\ \A i \in 1..Len(stack) : stack'[i].name = stack[i].name
    BY DEF Typed, Pushed, SamePage
  <1> QED
    BY <1>0 DEF OpenProfiles

\* The page on top closed.
LEMMA ProfilesPop ==
    ASSUME Typed, stack # <<>>, NEW x, Popped(x)
    PROVE  /\ OpenProfiles' = {i \in OpenProfiles : i <= Len(stack')}
           /\ Top.name # "Profile" => OpenProfiles' = OpenProfiles
  <1>0. /\ Len(stack) \in Nat \ {0} /\ Len(stack') = Len(stack) - 1
        /\ \A i \in 1..(Len(stack) - 1) : stack'[i].name = stack[i].name
    BY DEF Typed, Popped, SamePage
  <1>1. OpenProfiles' = {i \in OpenProfiles : i <= Len(stack')}
    BY <1>0 DEF OpenProfiles
  <1>2. ASSUME Top.name # "Profile", NEW i \in OpenProfiles PROVE i <= Len(stack')
    BY <1>0, <1>2 DEF OpenProfiles, Top
  <1> QED
    BY <1>1, <1>2

\* The copies of the profiles that stay open are kept.
LEMMA KeptIs ==
    ASSUME AppTyped, OpenProfiles' = {i \in OpenProfiles : i <= Len(stack')}, profiles' = Kept
    PROVE  /\ profiles' \in [OpenProfiles' -> CopySet]
           /\ \A i \in OpenProfiles' : i \in OpenProfiles /\ profiles'[i] = profiles[i]
  <1>1. DOMAIN profiles = OpenProfiles /\ \A i \in OpenProfiles : profiles[i] \in CopySet
    BY DEF AppTyped
  <1>2. profiles' = [i \in OpenProfiles' |-> profiles[i]]
    BY <1>1 DEF Kept
  <1> QED
    BY <1>1, <1>2

\* The updates of the profiles that stay open are kept.
LEMMA PartedIs ==
    ASSUME AppTyped, Len(stack') \in Nat, puts' = Parted
    PROVE  /\ puts' \in [Slots -> PutSet]
           /\ \A i \in OpenProfiles' : UnreadAt(i) => UnreadAt(i)'
  <1>1. ASSUME NEW s \in Slots
        PROVE  /\ puts[s] \in PutSet /\ Put(puts[s].val, puts[s].state, 0) \in PutSet
               /\ puts[s].at <= Len(stack') => puts'[s] = puts[s]
    BY DEF AppTyped, PutSet, Put, Parted
  <1>2. puts' \in [Slots -> PutSet]
    BY <1>1 DEF Parted
  <1>3. ASSUME NEW i \in OpenProfiles', NEW s \in Slots, Unread(s, i) PROVE Unread(s, i)'
    <2>1. puts[s].at <= Len(stack')
      BY <1>3 DEF OpenProfiles, Unread
    <2> QED
      BY <1>1, <1>3, <2>1 DEF Unread
  <1> QED
    BY <1>2, <1>3 DEF UnreadAt

\* The updates of another profile that the server has made stay unread.
LEMMA UnreadKept ==
    ASSUME NEW i, NEW s \in Slots, puts[s].at # i \/ puts[s].state # "applied",
           \A u \in Slots : u # s => puts'[u] = puts[u]
    PROVE  UnreadAt(i) => UnreadAt(i)'
  <1>1. ASSUME NEW u \in Slots, Unread(u, i) PROVE Unread(u, i)'
    BY <1>1 DEF Unread
  <1> QED
    BY <1>1 DEF UnreadAt

\* The updates as they were.
LEMMA UnreadSame == ASSUME puts' = puts PROVE \A i : UnreadAt(i) => UnreadAt(i)'
  BY DEF UnreadAt, Unread

\* The server and the copies that stay are as before.
LEMMA CopiesKept ==
    ASSUME Copies, stored' = stored,
           ~raced' => /\ ~raced
                      /\ \A i \in OpenProfiles' :
                            /\ i \in OpenProfiles /\ profiles'[i] = profiles[i]
                            /\ profiles[i].level = "sheet" /\ UnreadAt(i) => UnreadAt(i)'
    PROVE  Copies'
  <1> SUFFICES ASSUME ~raced', NEW i \in OpenProfiles'
               PROVE  \/ Agrees(profiles'[i], stored')
                      \/ profiles'[i].level = "sheet" /\ UnreadAt(i)'
    BY DEF Copies
  <1>1. /\ profiles'[i] = profiles[i] /\ i \in OpenProfiles /\ ~raced
        /\ profiles[i].level = "sheet" /\ UnreadAt(i) => UnreadAt(i)'
    OBVIOUS
  <1>2. \/ Agrees(profiles[i], stored)
        \/ profiles[i].level = "sheet" /\ UnreadAt(i)
    BY <1>1 DEF Copies
  <1> QED
    BY <1>1, <1>2

\* Every page that a return would show has the server's theme.
LEMMA ShowsKept ==
    ASSUME stored' = stored, NEW v, v = stored, fresh' /\ ~raced' /\ OpenProfiles' = {} => AllCurrent(v)'
    PROVE  Shows'
  BY DEF Shows, AllCurrent

\* The same pages with the same themes.
LEMMA SameShows ==
    ASSUME NEW v, AllCurrent(v), stack' = stack
    PROVE  AllCurrent(v)'
  BY DEF AllCurrent, Current, Broken

-----------------------------------------------------------------------------
(* The steps *)

\* The page on top of the stack is a profile and has its copy.
LEMMA TopProfile ==
    ASSUME AppIInv, OnTop({"Profile"})
    PROVE  /\ stack # <<>> /\ Top.name = "Profile" /\ Len(stack) \in OpenProfiles
           /\ profiles[Len(stack)] \in CopySet
  <1>1. Typed /\ AppTyped /\ stack # <<>> /\ Top.name = "Profile"
    BY DEF AppIInv, IInv, OnTop
  <1>2. Len(stack) \in OpenProfiles
    BY <1>1 DEF Typed, Top, OpenProfiles
  <1> QED
    BY <1>1, <1>2 DEF AppTyped

\* A step with the stack as it was.
LEMMA StayStep ==
    ASSUME AppIInv, stack' = stack, stored' \in Themes, coverGet' \in Themes \union {NoTheme},
           index' \in Themes, puts' \in [Slots -> PutSet], profiles' \in [OpenProfiles -> CopySet],
           ~raced' => /\ ~raced
                      /\ \A i \in OpenProfiles : \/ Agrees(profiles'[i], stored')
                                                 \/ profiles'[i].level = "sheet" /\ UnreadAt(i)'
                      /\ OpenProfiles = {} => stored' = stored /\ (fresh' => fresh)
    PROVE  AppTyped' /\ Copies' /\ Shows'
  <1>0. AppTyped /\ Copies /\ Shows
    BY DEF AppIInv
  <1>1. OpenProfiles' = OpenProfiles
    BY DEF OpenProfiles
  <1>2. AppTyped'
    BY <1>1 DEF AppTyped
  <1>3. Copies'
    BY <1>1 DEF Copies
  <1>4. PICK v : v = stored
    OBVIOUS
  <1>5. ASSUME fresh', ~raced', OpenProfiles' = {} PROVE AllCurrent(v)' /\ v = stored'
    <2>1. v = stored' /\ fresh /\ ~raced /\ OpenProfiles = {}
      BY <1>1, <1>4, <1>5
    <2>2. AllCurrent(v)
      BY <1>0, <1>4, <2>1 DEF Shows
    <2> QED
      BY <2>1, <2>2, SameShows
  <1>6. Shows'
    BY <1>5 DEF Shows, AllCurrent
  <1> QED
    BY <1>2, <1>3, <1>6

\* A step of the server or of a sheet, with the pages and copies as they were.
LEMMA ServedStep ==
    ASSUME AppIInv, UNCHANGED <<stack, stored, profiles>>, coverGet' \in Themes \union {NoTheme},
           index' \in Themes, puts' \in [Slots -> PutSet], fresh' => fresh,
           ~raced' => /\ ~raced
                      /\ \A i \in OpenProfiles :
                            profiles[i].level = "sheet" /\ UnreadAt(i) => UnreadAt(i)'
    PROVE  AppTyped' /\ Copies' /\ Shows'
  <1>0. AppTyped /\ Copies
    BY DEF AppIInv
  <1>1. stored' \in Themes /\ profiles' \in [OpenProfiles -> CopySet]
    BY <1>0 DEF AppTyped
  <1>2. ASSUME ~raced', NEW i \in OpenProfiles
        PROVE  Agrees(profiles'[i], stored') \/ (profiles'[i].level = "sheet" /\ UnreadAt(i)')
    BY <1>0, <1>2 DEF Copies
  <1> QED
    BY <1>1, <1>2, StayStep

\* One copy changes, under a profile that is open.
LEMMA CopyStep ==
    ASSUME AppIInv, UNCHANGED <<stack, stored, coverGet, index>>, puts' \in [Slots -> PutSet],
           NEW i \in OpenProfiles, NEW c \in CopySet, profiles' = [profiles EXCEPT ![i] = c],
           \A j \in OpenProfiles \ {i} : UnreadAt(j) => UnreadAt(j)',
           ~raced' => ~raced /\ (Agrees(c, stored) \/ (c.level = "sheet" /\ UnreadAt(i)'))
    PROVE  AppTyped' /\ Copies' /\ Shows'
  <1>0. AppTyped /\ Copies
    BY DEF AppIInv
  <1>1. /\ profiles' \in [OpenProfiles -> CopySet] /\ profiles'[i] = c
        /\ \A j \in OpenProfiles : j # i => profiles'[j] = profiles[j]
    BY <1>0 DEF AppTyped
  <1>2. /\ stored' \in Themes /\ index' \in Themes /\ coverGet' \in Themes \union {NoTheme}
    BY <1>0 DEF AppTyped
  <1>3. ASSUME ~raced', NEW j \in OpenProfiles
        PROVE  Agrees(profiles'[j], stored') \/ (profiles'[j].level = "sheet" /\ UnreadAt(j)')
    <2>1. CASE j = i
      BY <1>1, <1>3, <2>1
    <2>2. CASE j # i
      <3>1. profiles'[j] = profiles[j] /\ (UnreadAt(j) => UnreadAt(j)')
        BY <1>1, <2>2
      <3>2. Agrees(profiles[j], stored) \/ (profiles[j].level = "sheet" /\ UnreadAt(j))
        BY <1>0, <1>3 DEF Copies
      <3> QED
        BY <3>1, <3>2
    <2> QED
      BY <2>1, <2>2
  <1> QED
    BY <1>1, <1>2, <1>3, StayStep

\* Pages closed, and the profiles that stay keep their copies.
LEMMA ClosedStep ==
    ASSUME AppIInv, UNCHANGED <<stored, coverGet, index>>, puts' \in [Slots -> PutSet],
           OpenProfiles' = {i \in OpenProfiles : i <= Len(stack')}, profiles' = Kept,
           ~raced' => ~raced /\ \A i \in OpenProfiles' : UnreadAt(i) => UnreadAt(i)'
    PROVE  AppTyped' /\ Copies'
  <1>0. AppTyped /\ Copies
    BY DEF AppIInv
  <1>1. /\ profiles' \in [OpenProfiles' -> CopySet]
        /\ \A i \in OpenProfiles' : i \in OpenProfiles /\ profiles'[i] = profiles[i]
    BY <1>0, KeptIs
  <1>2. AppTyped'
    BY <1>0, <1>1 DEF AppTyped
  <1>3. Copies'
    BY <1>0, <1>1, CopiesKept
  <1> QED
    BY <1>2, <1>3

\* The steps that concern no profile and no theme.
LEMMA ReadingStep ==
    ASSUME AppIInv, Reading
    PROVE  AppTyped' /\ Copies' /\ Shows'
  <1>0. IInv /\ Typed /\ Stacked /\ AppTyped /\ Copies /\ Shows /\ UNCHANGED own
    BY DEF AppIInv, IInv, Reading
  <1>1. /\ UNCHANGED <<stored, coverGet, profiles, index, puts>>
        /\ (fresh' => fresh) /\ (~raced' => ~raced)
    BY <1>0 DEF own, settings
  <1>2. PICK v : v = stored
    OBVIOUS
  <1>3. ASSUME OpenProfiles' = OpenProfiles, AllCurrent(v) => AllCurrent(v)'
        PROVE  AppTyped' /\ Copies' /\ Shows'
    <2>1. AppTyped'
      BY <1>0, <1>1, <1>3 DEF AppTyped
    <2>2. Copies'
      BY <1>0, <1>1, <1>3, UnreadSame, CopiesKept
    <2>3. fresh' /\ ~raced' /\ OpenProfiles' = {} => AllCurrent(v)'
      BY <1>0, <1>1, <1>2, <1>3 DEF Shows
    <2> QED
      BY <1>1, <1>2, <2>1, <2>2, <2>3, ShowsKept
  <1>4. CASE stack' = stack
    <2>1. OpenProfiles' = OpenProfiles
      BY <1>4 DEF OpenProfiles
    <2> QED
      BY <1>3, <1>4, <2>1, SameShows
  <1>5. ASSUME NEW p \in PageSet, Pushed(p), p.name \in HomePages,
               \/ OnTop(HomePages) /\ p.theme = Top.theme
               \/ Current(1) /\ stack # <<>> /\ p.theme = stack[1].theme
        PROVE  AppTyped' /\ Copies' /\ Shows'
    <2>1. OpenProfiles' = OpenProfiles
      <3>1. p.name # "Profile"
        BY <1>5 DEF HomePages
      <3> QED
        BY <1>0, <1>5, <3>1, ProfilesPush
    <2>2. ASSUME AllCurrent(v) PROVE AllCurrent(v)'
      <3>1. CASE OnTop(HomePages) /\ p.theme = Top.theme
        BY <1>0, <1>5, <2>2, <3>1, TopShows, CurrentPush
      <3>2. CASE Current(1) /\ stack # <<>> /\ p.theme = stack[1].theme
        <4>1. 1 \in 1..Len(stack)
          BY <1>0, <3>2 DEF Typed
        <4>2. p.theme = v
          BY <2>2, <3>2, <4>1 DEF AllCurrent
        <4> QED
          BY <1>0, <1>5, <2>2, <4>2, CurrentPush
      <3> QED
        BY <1>5, <3>1, <3>2
    <2> QED
      BY <1>3, <2>1, <2>2
  <1>6. CASE /\ stack # <<>> /\ Popped(NoTheme) /\ Top.name # "Profile"
             /\ Top.name \in HomePages => Broken(Top)
    <2>1. OpenProfiles' = OpenProfiles
      BY <1>0, <1>6, ProfilesPop
    <2>2. AllCurrent(v) => AllCurrent(v)'
      BY <1>0, <1>6, CurrentPopNull
    <2> QED
      BY <1>3, <2>1, <2>2
  <1>7. CASE /\ stack # <<>> /\ Popped(Top.theme) /\ Top.theme # NoTheme /\ ~Broken(Top)
             /\ Top.name \in HomePages \ {"Cover"}
    <2>1. OpenProfiles' = OpenProfiles
      <3>1. Top.name # "Profile"
        BY <1>7 DEF HomePages
      <3> QED
        BY <1>0, <1>7, <3>1, ProfilesPop
    <2>2. ASSUME AllCurrent(v) PROVE AllCurrent(v)'
      <3>1. Top.theme = v
        BY <1>0, <1>7, <2>2, TopShows DEF OnTop
      <3>2. Popped(v) /\ v # NoTheme
        BY <1>7, <3>1
      <3> QED
        BY <1>0, <1>7, <3>2, CurrentPop
    <2> QED
      BY <1>3, <2>1, <2>2
  <1> QED
    BY <1>0, <1>4, <1>5, <1>6, <1>7, ReadingIs

\* A failed explanation closes the page on top, or a page inside the profile.
LEMMA InterruptedStep ==
    ASSUME AppIInv, NEW k \in 1..MaxFetch, Interrupted(k)
    PROVE  AppTyped' /\ Copies' /\ Shows'
  <1> DEFINE n == Len(stack)
             c == profiles[n]
             d == IF c.level = "sheet" THEN [c EXCEPT !.level = "prefs"]
                  ELSE Returned(c, c.theme, c.ok)
  <1>0. /\ IInv /\ Typed /\ AppTyped /\ Copies /\ ExplainFailed(k)
        /\ UNCHANGED <<stored, coverGet, index>> /\ puts' = Parted
    BY DEF AppIInv, IInv, Interrupted
  <1>1. /\ ~raced' => ~raced /\ (stack' = stack => At("profile"))
        /\ fresh' => stack' = stack
    BY Zenon DEF Interrupted
  <1>2. stack # <<>>
    BY <1>0 DEF ExplainFailed, CoverMounted
  <1>3. CASE PopTop(NoTheme)
    <2>1. Popped(NoTheme) /\ stack' \in Seq(PageSet)
      BY <1>0, <1>2, <1>3, PopIs
    <2>2. OpenProfiles' = {i \in OpenProfiles : i <= Len(stack')}
      BY <1>0, <1>2, <2>1, ProfilesPop
    <2>3. Len(stack') \in Nat /\ stack' # stack
      BY <1>0, <2>1 DEF Popped, Typed
    <2>4. profiles' = Kept
      BY <2>3 DEF Interrupted
    <2>5. AppTyped' /\ Copies'
      BY <1>0, <1>1, <2>2, <2>3, <2>4, PartedIs, ClosedStep
    <2>6. Shows'
      BY <1>1, <2>3 DEF Shows
    <2> QED
      BY <2>5, <2>6
  <1>4. CASE OnTop({"Profile"}) /\ stack' = stack
    <2>1. n \in OpenProfiles /\ c \in CopySet
      BY <1>4, TopProfile
    <2>2. d \in CopySet
      BY <2>1, ZeroAssumption DEF CopySet, Returned
    <2>3. profiles' = [profiles EXCEPT ![n] = d]
      BY <1>4 DEF Interrupted
    <2>4. /\ puts' \in [Slots -> PutSet] /\ OpenProfiles' = OpenProfiles
          /\ \A i \in OpenProfiles : UnreadAt(i) => UnreadAt(i)'
      <3>1. OpenProfiles' = OpenProfiles /\ Len(stack') \in Nat
        BY <1>0, <1>4 DEF OpenProfiles, Typed
      <3> QED
        BY <1>0, <3>1, PartedIs
    <2>5. ASSUME ~raced' PROVE ~raced /\ Agrees(d, stored)
      <3>1. c.level = "profile" /\ ~raced
        BY <1>1, <1>4, <2>5 DEF At
      <3>2. d = Returned(c, c.theme, c.ok)
        BY <3>1
      <3>3. c.ok => c.theme = stored
        BY <1>0, <2>1, <3>1 DEF Copies, Agrees
      <3>4. d.level = "profile" /\ d.theme = c.theme /\ d.ok = c.ok
        BY <2>1, <3>2 DEF Returned, CopySet
      <3> QED
        BY <3>1, <3>3, <3>4 DEF Agrees
    <2> HIDE DEF c, d, n
    <2> QED
      BY <1>0, <1>4, <2>1, <2>2, <2>3, <2>4, <2>5, CopyStep
  <1> QED
    BY <1>0, <1>3, <1>4 DEF ExplainFailed

\* The Cover's user data: the Cover gets a theme, and nothing above it changes.
LEMMA CoverAnsweredStep ==
    ASSUME AppIInv, CoverAnswered
    PROVE  AppTyped' /\ Copies' /\ Shows'
  <1>0. IInv /\ Typed /\ Stacked /\ AppTyped /\ Copies /\ Shows
    BY DEF AppIInv, IInv
  <1>1. PICK t \in {coverGet, NoTheme} :
           /\ UserDataArrives(t)
           /\ fresh' = (fresh \/ (stack' # stack /\ t # NoTheme
                                    /\ \A i \in DOMAIN stack : stack[i].name # "Verse"))
           /\ raced' = (raced \/ t \notin {stored, NoTheme})
    BY Zenon DEF CoverAnswered
  <1>2. UNCHANGED <<stored, profiles, index, puts>> /\ coverGet' = NoTheme
    BY DEF CoverAnswered, settings
  <1>3. CASE stack' = stack
    <2>1. (fresh' => fresh) /\ (~raced' => ~raced)
      BY <1>1, <1>3, Zenon
    <2>2. /\ coverGet' \in Themes \union {NoTheme} /\ index' \in Themes
          /\ puts' \in [Slots -> PutSet]
      BY <1>0, <1>2 DEF AppTyped
    <2> QED
      BY <1>2, <1>3, <2>1, <2>2, UnreadSame, ServedStep
  <1>4. CASE t \in Themes /\ CoverMounted /\ stack' = [stack EXCEPT ![1].theme = t]
    <2>1. stack \in Seq(PageSet) /\ 1 \in 1..Len(stack) /\ Len(stack) \in Nat
      BY <1>0, <1>4 DEF Typed, CoverMounted
    <2>2. stack[1] \in PageSet
      BY <2>1
    <2>3. [stack[1] EXCEPT !.theme = t] \in PageSet
      BY <1>4, <2>2 DEF PageSet, Shown
    <2>4. /\ Len(stack') = Len(stack) /\ stack'[1] = [stack[1] EXCEPT !.theme = t]
          /\ \A i \in 1..Len(stack) : i # 1 => stack'[i] = stack[i]
      BY <1>4, <2>1, <2>3
    <2>5. stack'[1].name = stack[1].name /\ stack'[1].theme = t
      BY <2>2, <2>4 DEF PageSet
    <2>6. OpenProfiles' = OpenProfiles
      <3>1. \A i \in 1..Len(stack) : stack'[i].name = stack[i].name
        BY <2>4, <2>5
      <3> QED
        BY <2>4, <3>1 DEF OpenProfiles
    <2>7. /\ ~raced' => ~raced /\ t = stored
          /\ fresh' => fresh \/ \A i \in DOMAIN stack : stack[i].name # "Verse"
      <3>1. t # NoTheme
        BY <1>4, ThemeAssumption
      <3> QED
        BY <1>1, <3>1, Zenon
    <2>8. AppTyped'
      BY <1>0, <1>2, <2>6 DEF AppTyped
    <2>9. Copies'
      BY <1>0, <1>2, <2>6, <2>7, UnreadSame, CopiesKept
    <2>10. ASSUME fresh', ~raced', OpenProfiles' = {} PROVE AllCurrent(t)'
      <3> SUFFICES ASSUME NEW i \in 1..Len(stack), Current(i)'
                   PROVE  stack'[i].theme = t
        BY <2>4 DEF AllCurrent
      <3>1. CASE i = 1
        BY <2>5, <3>1
      <3>2. CASE i # 1 /\ fresh
        <4>1. stack'[i] = stack[i] /\ Len(stack') = Len(stack)
          BY <2>4, <3>2
        <4>2. \A j \in (i + 1)..Len(stack) : stack'[j] = stack[j]
          BY <2>1, <2>4
        <4>3. Current(i)
          BY <4>1, <4>2 DEF Current, Broken
        <4>4. AllCurrent(stored) /\ t = stored
          BY <1>0, <2>6, <2>7, <2>10, <3>2 DEF Shows
        <4> QED
          BY <4>1, <4>3, <4>4 DEF AllCurrent
      <3>3. CASE i # 1 /\ ~fresh
        <4>1. \A j \in 1..Len(stack) : stack[j].name # "Verse"
          BY <2>1, <2>7, <2>10, <3>3
        <4>2. stack[i].name \in HomePages /\ i > 1
          BY <2>4, <3>3 DEF Current
        <4>3. PICK j \in 1..i : stack[j].name = "Verse"
          BY <1>0, <4>2 DEF Stacked, PageOK
        <4>4. j \in 1..Len(stack)
          BY <2>1
        <4> QED
          BY <4>1, <4>3, <4>4
      <3> QED
        BY <3>1, <3>2, <3>3
    <2>11. fresh' /\ ~raced' /\ OpenProfiles' = {} => AllCurrent(t)' /\ t = stored
      BY <2>7, <2>10
    <2>12. Shows'
      BY <1>2, <2>11 DEF Shows, AllCurrent
    <2> QED
      BY <2>8, <2>9, <2>12
  <1> QED
    BY <1>1, <1>3, <1>4 DEF UserDataArrives

\* The menu opens a profile, or Auth.
LEMMA VisitStep ==
    ASSUME AppIInv, Visit
    PROVE  AppTyped' /\ Copies' /\ Shows'
  <1>0. IInv /\ Typed /\ AppTyped /\ Copies /\ Shows
    BY DEF AppIInv, IInv
  <1>1. /\ OpenMenu /\ UNCHANGED <<stored, coverGet, index, puts>>
        /\ (fresh' => fresh) /\ (~raced' => ~raced)
        /\ profiles' = IF session = "out" THEN profiles
                       ELSE [i \in DOMAIN profiles \union {Len(stack')} |->
                               IF i = Len(stack') THEN NewCopy ELSE profiles[i]]
    BY DEF Visit, settings
  <1>2. stack # <<>> /\ stack' = Append(stack, ProfileNav(Len(stack)))
    BY <1>1 DEF OpenMenu, OnTop, Push
  <1>3. /\ stack \in Seq(PageSet) /\ Len(stack) \in Nat
        /\ \A i \in 1..Len(stack) : SamePage(stack[i], stack[i])
    BY <1>0, <1>2, TopIs
  <1> DEFINE p == ProfileNav(Len(stack))
  <1>4. p \in PageSet /\ p.name = IF session = "out" THEN "Auth" ELSE "Profile"
    BY <1>3 DEF ProfileNav, Page, PageSet, PageNames, HomePages, Shown
  <1>5. stack' = Append(stack, p)
    BY <1>2
  <1> HIDE DEF p
  <1>6. Pushed(p)
    BY <1>3, <1>4, <1>5, PushIs
  <1>7. OpenProfiles' = OpenProfiles \union {i \in {Len(stack) + 1} : p.name = "Profile"}
    BY <1>0, <1>6, ProfilesPush
  <1>8. CASE session = "out"
    <2>1. OpenProfiles' = OpenProfiles /\ profiles' = profiles /\ p.name \notin HomePages
      BY <1>1, <1>4, <1>7, <1>8 DEF HomePages
    <2>2. AppTyped'
      BY <1>0, <1>1, <2>1 DEF AppTyped
    <2>3. Copies'
      BY <1>0, <1>1, <2>1, UnreadSame, CopiesKept
    <2>4. PICK v : v = stored
      OBVIOUS
    <2>5. AllCurrent(v) => AllCurrent(v)'
      BY <1>0, <1>6, <2>1, CurrentPush
    <2>6. fresh' /\ ~raced' /\ OpenProfiles' = {} => AllCurrent(v)'
      BY <1>0, <1>1, <2>1, <2>4, <2>5 DEF Shows
    <2> QED
      BY <1>1, <2>2, <2>3, <2>4, <2>6, ShowsKept
  <1>9. CASE session # "out"
    <2> DEFINE m == Len(stack) + 1
    <2>1. OpenProfiles' = OpenProfiles \union {m} /\ Len(stack') = m
      BY <1>4, <1>6, <1>7, <1>9 DEF Pushed
    <2>2. DOMAIN profiles = OpenProfiles /\ \A i \in OpenProfiles : profiles[i] \in CopySet
      BY <1>0 DEF AppTyped
    <2>3. profiles' = [i \in OpenProfiles' |-> IF i = m THEN NewCopy ELSE profiles[i]]
      BY <1>1, <1>9, <2>1, <2>2
    <2>4. NewCopy \in CopySet /\ NewCopy.level = "profile" /\ ~NewCopy.ok
      BY ZeroAssumption DEF NewCopy, CopySet
    <2> HIDE DEF m
    <2>5. profiles' \in [OpenProfiles' -> CopySet]
      BY <2>1, <2>2, <2>3, <2>4
    <2>6. AppTyped'
      BY <1>0, <1>1, <2>5 DEF AppTyped
    <2>7. Copies'
      <3> SUFFICES ASSUME ~raced', NEW i \in OpenProfiles'
                   PROVE  \/ Agrees(profiles'[i], stored')
                          \/ profiles'[i].level = "sheet" /\ UnreadAt(i)'
        BY DEF Copies
      <3>1. CASE i = m
        BY <2>3, <2>4, <3>1 DEF Agrees
      <3>2. CASE i # m
        <4>1. i \in OpenProfiles /\ profiles'[i] = profiles[i]
          BY <2>1, <2>3, <3>2
        <4>2. Agrees(profiles[i], stored) \/ (profiles[i].level = "sheet" /\ UnreadAt(i))
          BY <1>0, <1>1, <4>1 DEF Copies
        <4> QED
          BY <1>1, <4>1, <4>2, UnreadSame
      <3> QED
        BY <3>1, <3>2
    <2>8. Shows'
      BY <2>1 DEF Shows
    <2> QED
      BY <2>6, <2>7, <2>8
  <1> QED
    BY <1>8, <1>9

\* The preference page and the sheet open and close.
LEMMA PageStep ==
    ASSUME AppIInv, OpenPrefs \/ ClosePrefs \/ OpenSheet \/ Cancel
    PROVE  AppTyped' /\ Copies' /\ Shows'
  <1> DEFINE n == Len(stack)
             c == profiles[n]
  <1>0. AppTyped /\ Copies
    BY DEF AppIInv
  <1>1. /\ OnTop({"Profile"}) /\ UNCHANGED <<stack, stored, coverGet, index, puts>>
        /\ ~raced' => ~raced
    <2>1. ~raced' => ~raced
      BY Zenon DEF OpenPrefs, ClosePrefs, OpenSheet, Cancel
    <2>2. OnTop({"Profile"}) /\ UNCHANGED <<vars, stored, coverGet, settings>>
      BY DEF OpenPrefs, ClosePrefs, OpenSheet, Cancel, At
    <2> QED
      BY <2>1, <2>2 DEF vars, settings
  <1>2. n \in OpenProfiles /\ c \in CopySet
    BY <1>1, TopProfile
  <1>3. puts' \in [Slots -> PutSet] /\ \A j : UnreadAt(j) => UnreadAt(j)'
    BY <1>0, <1>1, UnreadSame DEF AppTyped
  <1>4. ~raced => Agrees(c, stored) \/ (c.level = "sheet" /\ UnreadAt(n))
    BY <1>0, <1>2 DEF Copies
  <1>5. ASSUME NEW d \in CopySet, profiles' = [profiles EXCEPT ![n] = d],
               ~raced' => Agrees(d, stored)
        PROVE  AppTyped' /\ Copies' /\ Shows'
    <2> HIDE DEF n
    <2> QED
      BY <1>1, <1>2, <1>3, <1>5, CopyStep
  <1>6. CASE OpenPrefs
    <2> DEFINE d == [c EXCEPT !.level = "prefs", !.pref = c.theme, !.prefOk = c.ok]
    <2>1. /\ d \in CopySet /\ d.level = "prefs" /\ d.pref = c.theme /\ d.prefOk = c.ok
          /\ c.level = "profile"
      BY <1>2, <1>6 DEF CopySet, OpenPrefs, At
    <2>2. profiles' = [profiles EXCEPT ![n] = d]
      BY <1>0, <1>2, <1>6 DEF OpenPrefs, AppTyped
    <2>3. ~raced' => Agrees(d, stored)
      BY <1>1, <1>4, <2>1 DEF Agrees
    <2> HIDE DEF c, d, n
    <2> QED
      BY <1>5, <2>1, <2>2, <2>3
  <1>7. CASE ClosePrefs
    <2> DEFINE d == Returned(c, c.pref, c.prefOk)
    <2>1. /\ d \in CopySet /\ d.level = "profile" /\ d.theme = c.pref /\ d.ok = c.prefOk
          /\ c.level = "prefs"
      BY <1>2, <1>7, ZeroAssumption DEF CopySet, Returned, ClosePrefs, At
    <2>2. profiles' = [profiles EXCEPT ![n] = d]
      BY <1>7 DEF ClosePrefs
    <2>3. ~raced' => Agrees(d, stored)
      BY <1>1, <1>4, <2>1 DEF Agrees
    <2> HIDE DEF c, d, n
    <2> QED
      BY <1>5, <2>1, <2>2, <2>3
  <1>8. CASE OpenSheet
    <2> DEFINE d == [c EXCEPT !.level = "sheet"]
    <2>1. /\ d \in CopySet /\ d.level = "sheet" /\ d.pref = c.pref /\ d.prefOk = c.prefOk
          /\ c.level = "prefs"
      BY <1>2, <1>8 DEF CopySet, OpenSheet, At
    <2>2. profiles' = [profiles EXCEPT ![n] = d]
      BY <1>0, <1>2, <1>8 DEF OpenSheet, AppTyped
    <2>3. ~raced' => Agrees(d, stored)
      BY <1>1, <1>4, <2>1 DEF Agrees
    <2> HIDE DEF c, d, n
    <2> QED
      BY <1>5, <2>1, <2>2, <2>3
  <1>9. CASE Cancel
    <2> DEFINE d == [c EXCEPT !.level = "prefs"]
    <2>1. /\ d \in CopySet /\ d.level = "prefs" /\ d.pref = c.pref /\ d.prefOk = c.prefOk
          /\ c.level = "sheet"
      BY <1>2, <1>9 DEF CopySet, Cancel, At
    <2>2. profiles' = [profiles EXCEPT ![n] = d]
      BY <1>0, <1>2, <1>9 DEF Cancel, AppTyped
    <2>3. ~raced' => ~UnreadAt(n)
      BY <1>9, Zenon DEF Cancel, UnreadAt
    <2>4. ~raced' => Agrees(d, stored)
      BY <1>1, <1>4, <2>1, <2>3 DEF Agrees
    <2> HIDE DEF c, d, n
    <2> QED
      BY <1>5, <2>1, <2>2, <2>4
  <1> QED
    BY <1>6, <1>7, <1>8, <1>9

\* The user turns the carousel or confirms.
LEMMA SheetStep ==
    ASSUME AppIInv, (\E t \in Themes : Swipe(t)) \/ \E s \in Slots : Confirm(s)
    PROVE  AppTyped' /\ Copies' /\ Shows'
  <1>0. AppTyped /\ Typed
    BY DEF AppIInv, IInv
  <1>1. ASSUME NEW t \in Themes, Swipe(t) PROVE AppTyped' /\ Copies' /\ Shows'
    <2>1. /\ UNCHANGED <<stack, stored, coverGet, profiles, puts, fresh>> /\ index' = t
          /\ ~raced' => ~raced
      BY <1>1 DEF Swipe, vars
    <2>2. /\ coverGet' \in Themes \union {NoTheme} /\ index' \in Themes
          /\ puts' \in [Slots -> PutSet]
      BY <1>0, <2>1 DEF AppTyped
    <2>3. fresh' => fresh
      BY <2>1
    <2> QED
      BY <2>1, <2>2, <2>3, UnreadSame, ServedStep
  <1>2. ASSUME NEW s \in Slots, Confirm(s) PROVE AppTyped' /\ Copies' /\ Shows'
    <2>1. /\ UNCHANGED <<stack, stored, coverGet, profiles, index>> /\ puts[s].state = "free"
          /\ puts' = [puts EXCEPT ![s] = Put(index, "way", Len(stack))]
          /\ (fresh' => fresh) /\ (~raced' => ~raced)
      BY <1>2 DEF Confirm, ConfirmTheme
    <2>2. Put(index, "way", Len(stack)) \in PutSet
      BY <1>0 DEF AppTyped, PutSet, Put, Typed
    <2>3. puts' \in [Slots -> PutSet] /\ \A u \in Slots : u # s => puts'[u] = puts[u]
      BY <1>0, <2>1, <2>2 DEF AppTyped
    <2>4. \A i : UnreadAt(i) => UnreadAt(i)'
      BY <2>1, <2>3, UnreadKept
    <2>5. coverGet' \in Themes \union {NoTheme} /\ index' \in Themes
      BY <1>0, <2>1 DEF AppTyped
    <2> QED
      BY <2>1, <2>3, <2>4, <2>5, ServedStep
  <1> QED
    BY <1>1, <1>2

\* An update that ends without a theme for a page.
LEMMA PutEndsStep ==
    ASSUME AppIInv, NEW s \in Slots, PutRefused(s) \/ SheetGone(s)
    PROVE  AppTyped' /\ Copies' /\ Shows'
  <1>0. AppTyped
    BY DEF AppIInv
  <1>1. /\ UNCHANGED <<stack, stored, coverGet, profiles, index>>
        /\ (fresh' => fresh) /\ (~raced' => ~raced)
    BY DEF PutRefused, SheetGone, ThemeUnanswered, vars
  <1>2. puts' = [puts EXCEPT ![s] = Free] \/ puts' = [puts EXCEPT ![s] = Ended(s)]
    BY DEF PutRefused, SheetGone
  <1>3. Free \in PutSet /\ Ended(s) \in PutSet
    BY <1>0, ZeroAssumption DEF AppTyped, PutSet, Put, Free, Ended
  <1>4. puts' \in [Slots -> PutSet] /\ \A u \in Slots : u # s => puts'[u] = puts[u]
    BY <1>0, <1>2, <1>3 DEF AppTyped
  <1>5. ASSUME NEW i \in OpenProfiles, profiles[i].level = "sheet", UnreadAt(i)
        PROVE  UnreadAt(i)'
    <2>1. puts[s].at # i \/ puts[s].state # "applied"
      <3>1. CASE PutRefused(s)
        BY <3>1 DEF PutRefused
      <3>2. CASE SheetGone(s)
        BY <1>0, <1>5, <3>2 DEF SheetGone, SheetOpen, AppTyped
      <3> QED
        BY <3>1, <3>2
    <2> QED
      BY <1>4, <1>5, <2>1, UnreadKept
  <1>6. coverGet' \in Themes \union {NoTheme} /\ index' \in Themes
    BY <1>0, <1>1 DEF AppTyped
  <1> QED
    BY <1>1, <1>4, <1>5, <1>6, ServedStep

\* The server makes an update.
LEMMA PutServedStep ==
    ASSUME AppIInv, NEW s \in Slots, PutServed(s)
    PROVE  AppTyped' /\ Copies' /\ Shows'
  <1>0. AppTyped /\ Copies
    BY DEF AppIInv
  <1> DEFINE p == puts[s]
             m == IF Waiting(s) THEN Put(p.val, "applied", p.at) ELSE Free
  <1>1. /\ UNCHANGED <<stack, coverGet, profiles, index, fresh>> /\ stored' = p.val
        /\ puts' = [puts EXCEPT ![s] = m] /\ p.state \in {"way", "lost"}
    BY DEF PutServed, vars
  <1>2. p \in PutSet /\ m \in PutSet
    BY <1>0, ZeroAssumption DEF AppTyped, PutSet, Put, Free
  <1>3. /\ puts' \in [Slots -> PutSet] /\ puts'[s] = m
        /\ \A u \in Slots : u # s => puts'[u] = puts[u]
    BY <1>0, <1>1, <1>2 DEF AppTyped
  <1>4. \A i : UnreadAt(i) => UnreadAt(i)'
    BY <1>1, <1>3, UnreadKept
  <1>5. /\ stored' \in Themes /\ coverGet' \in Themes \union {NoTheme} /\ index' \in Themes
        /\ profiles' \in [OpenProfiles -> CopySet] /\ DOMAIN profiles = OpenProfiles
    BY <1>0, <1>1, <1>2 DEF AppTyped, PutSet
  <1>6. ~raced' => /\ ~raced
                   /\ \/ stored' = stored
                      \/ Waiting(s) /\ SheetOpen(p.at) /\ DOMAIN profiles = {p.at}
    BY Zenon DEF PutServed
  <1>7. CASE stored' = stored
    <2>1. (fresh' => fresh) /\ (~raced' => ~raced)
      BY <1>1, <1>6
    <2> HIDE DEF p, m
    <2> QED
      BY <1>1, <1>3, <1>4, <1>5, <1>7, <2>1, ServedStep
  <1>8. CASE stored' # stored
    <2>1. ASSUME ~raced'
          PROVE  /\ ~raced /\ OpenProfiles # {}
                 /\ \A i \in OpenProfiles : profiles'[i].level = "sheet" /\ UnreadAt(i)'
      <3>0. PICK i : i = p.at
        OBVIOUS
      <3>1. ~raced /\ Waiting(s) /\ SheetOpen(i) /\ OpenProfiles = {i}
        BY <1>5, <1>6, <1>8, <2>1, <3>0
      <3>2. profiles'[i].level = "sheet"
        BY <1>1, <3>1 DEF SheetOpen
      <3>3. puts'[s].state = "applied" /\ puts'[s].at = i
        BY <1>3, <3>0, <3>1 DEF Put
      <3>4. UnreadAt(i)'
        BY <3>3 DEF UnreadAt, Unread
      <3> QED
        BY <3>1, <3>2, <3>4
    <2> HIDE DEF p, m
    <2> QED
      BY <1>1, <1>3, <1>5, <2>1, StayStep
  <1> QED
    BY <1>7, <1>8

\* The answer to an update closes the page on top, or one inside a profile.
LEMMA PutAnsweredStep ==
    ASSUME AppIInv, NEW s \in Slots, PutAnswered(s)
    PROVE  AppTyped' /\ Copies' /\ Shows'
  <1> DEFINE n == Len(stack)
             c == profiles[n]
  <1>0. IInv /\ Typed /\ Stacked /\ AppTyped /\ Copies
    BY DEF AppIInv, IInv
  <1>1. /\ UNCHANGED <<stored, coverGet, index>> /\ puts' = [Parted EXCEPT ![s] = Ended(s)]
        /\ ThemeAnswered(index) /\ PopIndex
    BY DEF PutAnswered
  <1>2. ~raced' => /\ ~raced /\ index = stored /\ OnTop({"Profile"})
                   /\ puts[s].at \in {0, n}
    BY Zenon DEF PutAnswered
  <1>3. Parted \in [Slots -> PutSet] /\ Ended(s) \in PutSet
    <2>1. ASSUME NEW u \in Slots
          PROVE  puts[u] \in PutSet /\ Put(puts[u].val, puts[u].state, 0) \in PutSet
      BY <1>0 DEF AppTyped, PutSet, Put
    <2>2. Parted \in [Slots -> PutSet]
      BY <2>1 DEF Parted
    <2>3. Ended(s) \in PutSet
      BY <1>0, ZeroAssumption DEF AppTyped, PutSet, Put, Free, Ended
    <2> QED
      BY <2>2, <2>3
  <1>4. puts' \in [Slots -> PutSet] /\ \A u \in Slots : u # s => puts'[u] = Parted[u]
    BY <1>1, <1>3
  <1>5. ASSUME ~raced', NEW i \in 1..Len(stack'), i # n, UnreadAt(i) PROVE UnreadAt(i)'
    <2>1. PICK u \in Slots : puts[u].state = "applied" /\ puts[u].at = i
      BY <1>5 DEF UnreadAt, Unread
    <2>2. u # s
      BY <1>2, <1>5, <2>1
    <2>3. puts'[u] = puts[u]
      BY <1>4, <2>1, <2>2 DEF Parted
    <2> QED
      BY <2>1, <2>3 DEF UnreadAt, Unread
  <1>6. index \in Themes /\ index \in Shown \union {NoTheme} /\ index # NoTheme
    BY <1>0, ThemeAssumption DEF AppTyped, Shown
  <1>7. CASE stack # <<>> /\ PopTop(index)
    <2>1. Popped(index) /\ stack' \in Seq(PageSet)
      BY <1>0, <1>6, <1>7, PopIs
    <2>2. OpenProfiles' = {i \in OpenProfiles : i <= Len(stack')}
      BY <1>0, <1>7, <2>1, ProfilesPop
    <2>3. Len(stack') = n - 1 /\ n \in Nat /\ stack' # stack
      BY <1>0, <2>1 DEF Popped, Typed
    <2>4. profiles' = Kept
      BY <1>1, <2>3 DEF PopIndex
    <2>5. \A i \in OpenProfiles' : i \in 1..Len(stack') /\ i # n
      BY <2>3 DEF OpenProfiles
    <2>6. AppTyped' /\ Copies'
      BY <1>1, <1>2, <1>4, <1>5, <2>2, <2>4, <2>5, ClosedStep
    <2>7. PICK v : v = index
      OBVIOUS
    <2>8. ASSUME ~raced' PROVE AllCurrent(v)' /\ v = stored'
      <3>1. Top.name = "Profile" /\ ~Broken(Top)
        BY <1>2, <2>8 DEF OnTop, Broken
      <3>2. Popped(v) /\ v # NoTheme
        BY <1>6, <2>1, <2>7
      <3> QED
        BY <1>0, <1>1, <1>2, <1>7, <2>7, <2>8, <3>1, <3>2, CurrentPop
    <2>9. Shows'
      BY <2>8 DEF Shows, AllCurrent
    <2> QED
      BY <2>6, <2>9
  <1>8. CASE OnTop({"Profile"}) /\ stack' = stack
    <2>1. n \in OpenProfiles /\ c \in CopySet
      BY <1>8, TopProfile
    <2>2. \A j \in OpenProfiles : j \in 1..Len(stack')
      BY <1>8 DEF OpenProfiles
    <2>3. ASSUME c.level = "profile" PROVE AppTyped' /\ Copies' /\ Shows'
      <3>1. UNCHANGED <<fresh, profiles>>
        BY <1>1, <1>8, <2>3 DEF PopIndex, At
      <3>2. \A i \in OpenProfiles : profiles[i].level = "sheet" => i # n
        BY <2>3
      <3>3. coverGet' \in Themes \union {NoTheme} /\ index' \in Themes /\ (fresh' => fresh)
        BY <1>0, <1>1, <3>1 DEF AppTyped
      <3>4. ~raced' => /\ ~raced
                       /\ \A i \in OpenProfiles :
                             profiles[i].level = "sheet" /\ UnreadAt(i) => UnreadAt(i)'
        BY <1>2, <1>5, <2>2, <3>2
      <3> QED
        BY <1>1, <1>4, <1>8, <3>1, <3>3, <3>4, ServedStep
    <2>4. ASSUME NEW d \in CopySet, profiles' = [profiles EXCEPT ![n] = d],
                 ~raced' => Agrees(d, stored)
          PROVE  AppTyped' /\ Copies' /\ Shows'
      <3>1. CASE ~raced'
        <4>1. \A j \in OpenProfiles \ {n} : UnreadAt(j) => UnreadAt(j)'
          BY <1>5, <2>2, <3>1
        <4> HIDE DEF n
        <4> QED
          BY <1>1, <1>2, <1>4, <1>8, <2>1, <2>4, <4>1, CopyStep
      <3>2. CASE raced'
        <4>1. profiles' \in [OpenProfiles -> CopySet]
          BY <1>0, <2>4 DEF AppTyped
        <4>2. /\ stored' \in Themes /\ index' \in Themes
              /\ coverGet' \in Themes \union {NoTheme}
          BY <1>0, <1>1 DEF AppTyped
        <4> QED
          BY <1>4, <1>8, <3>2, <4>1, <4>2, StayStep
      <3> QED
        BY <3>1, <3>2
    <2>5. CASE c.level = "sheet"
      <3> DEFINE d == [c EXCEPT !.level = "prefs", !.pref = index, !.prefOk = TRUE]
      <3>1. d \in CopySet /\ d.level = "prefs" /\ d.pref = index
        BY <1>6, <2>1 DEF CopySet
      <3>2. profiles' = [profiles EXCEPT ![n] = d]
        <4>1. /\ At("sheet") /\ ~At("prefs") /\ ~At("profile")
          BY <1>8, <2>5 DEF At
        <4>2. profiles' = [profiles EXCEPT ![n].level = "prefs", ![n].pref = index,
                                           ![n].prefOk = TRUE]
          BY <1>1, <1>8, <4>1 DEF PopIndex
        <4> QED
          BY <1>0, <2>1, <4>2 DEF AppTyped
      <3>3. ~raced' => Agrees(d, stored)
        BY <1>2, <3>1 DEF Agrees
      <3> HIDE DEF d, c, n
      <3> QED
        BY <2>4, <3>1, <3>2, <3>3
    <2>6. CASE c.level = "prefs"
      <3> DEFINE d == Returned(c, index, TRUE)
      <3>1. d \in CopySet /\ d.level = "profile" /\ d.theme = index
        BY <1>6, <2>1, ZeroAssumption DEF CopySet, Returned
      <3>2. profiles' = [profiles EXCEPT ![n] = d]
        BY <1>1, <1>8, <2>6 DEF PopIndex, At
      <3>3. ~raced' => Agrees(d, stored)
        BY <1>2, <3>1 DEF Agrees
      <3> HIDE DEF d, c, n
      <3> QED
        BY <2>4, <3>1, <3>2, <3>3
    <2>7. c.level \in {"profile", "prefs", "sheet"}
      BY <2>1 DEF CopySet
    <2> QED
      BY <2>3, <2>5, <2>6, <2>7
  <1> QED
    BY <1>1, <1>7, <1>8 DEF ThemeAnswered

\* The request of a profile: the server's part, the answer, or an error.
LEMMA ProfileStep ==
    ASSUME AppIInv, NEW i \in DOMAIN profiles,
           ProfileServed(i) \/ ProfileAnswered(i) \/ ProfileFailed(i)
    PROVE  AppTyped' /\ Copies' /\ Shows'
  <1> DEFINE c == profiles[i]
  <1>0. AppTyped /\ Copies /\ stored \in Themes
    BY DEF AppIInv, AppTyped
  <1>1. i \in OpenProfiles /\ c \in CopySet
    BY <1>0 DEF AppTyped
  <1>2. UNCHANGED <<stack, stored, coverGet, index, puts>> /\ (~raced' => ~raced)
    <2>1. ~raced' => ~raced
      BY Zenon DEF ProfileServed, ProfileAnswered, ProfileFailed
    <2>2. UNCHANGED <<vars, stored, coverGet, settings>>
      BY DEF ProfileServed, ProfileAnswered, ProfileFailed
    <2> QED
      BY <2>1, <2>2 DEF vars, settings
  <1>3. puts' \in [Slots -> PutSet] /\ \A j : UnreadAt(j) => UnreadAt(j)'
    BY <1>0, <1>2, UnreadSame DEF AppTyped
  <1>4. ~raced => Agrees(c, stored) \/ (c.level = "sheet" /\ UnreadAt(i))
    BY <1>0, <1>1 DEF Copies
  <1>5. ASSUME NEW d \in CopySet, profiles' = [profiles EXCEPT ![i] = d],
               d.level = c.level, d.pref = c.pref, d.prefOk = c.prefOk,
               \/ d.theme = c.theme /\ d.ok = c.ok
               \/ ~raced' => d.theme = stored
        PROVE  AppTyped' /\ Copies' /\ Shows'
    <2>1. ~raced' => ~raced /\ (Agrees(d, stored) \/ (d.level = "sheet" /\ UnreadAt(i)'))
      BY <1>2, <1>3, <1>4, <1>5 DEF Agrees
    <2> HIDE DEF c
    <2> QED
      BY <1>1, <1>2, <1>3, <1>5, <2>1, CopyStep
  <1>6. CASE ProfileServed(i)
    <2> DEFINE d == [c EXCEPT !.get = "served", !.val = stored]
    <2>1. /\ d \in CopySet /\ d.level = c.level /\ d.pref = c.pref /\ d.prefOk = c.prefOk
          /\ d.theme = c.theme /\ d.ok = c.ok
      BY <1>0, <1>1 DEF CopySet
    <2>2. profiles' = [profiles EXCEPT ![i] = d]
      BY <1>0, <1>1, <1>6 DEF ProfileServed, AppTyped
    <2> HIDE DEF c, d
    <2> QED
      BY <1>5, <2>1, <2>2
  <1>7. CASE ProfileAnswered(i)
    <2> DEFINE d == [c EXCEPT !.theme = c.val, !.ok = TRUE, !.get = "none", !.val = Zero]
    <2>1. /\ d \in CopySet /\ d.level = c.level /\ d.pref = c.pref /\ d.prefOk = c.prefOk
          /\ d.theme = c.val
      BY <1>0, <1>1, ZeroAssumption DEF CopySet
    <2>2. profiles' = [profiles EXCEPT ![i] = d]
      BY <1>0, <1>1, <1>7 DEF ProfileAnswered, AppTyped
    <2>3. ~raced' => d.theme = stored
      <3>1. ~raced' => profiles[i].val = stored
        BY <1>7, Zenon DEF ProfileAnswered
      <3> QED
        BY <2>1, <3>1
    <2> HIDE DEF c, d
    <2> QED
      BY <1>5, <2>1, <2>2, <2>3
  <1>8. CASE ProfileFailed(i)
    <2> DEFINE d == [c EXCEPT !.get = "none", !.val = Zero]
    <2>1. /\ d \in CopySet /\ d.level = c.level /\ d.pref = c.pref /\ d.prefOk = c.prefOk
          /\ d.theme = c.theme /\ d.ok = c.ok
      BY <1>0, <1>1, ZeroAssumption DEF CopySet
    <2>2. profiles' = [profiles EXCEPT ![i] = d]
      BY <1>0, <1>1, <1>8 DEF ProfileFailed, AppTyped
    <2> HIDE DEF c, d
    <2> QED
      BY <1>5, <2>1, <2>2
  <1> QED
    BY <1>6, <1>7, <1>8

\* Back from a profile with its copy.
LEMMA LeaveStep ==
    ASSUME AppIInv, Leave
    PROVE  AppTyped' /\ Copies' /\ Shows'
  <1> DEFINE n == Len(stack)
  <1>0. IInv /\ Typed /\ Stacked /\ AppTyped /\ Copies
    BY DEF AppIInv, IInv
  <1>1. /\ OnTop({"Profile"}) /\ PopTop(profiles[n].theme) /\ profiles' = Kept
        /\ UNCHANGED <<stored, coverGet, index>> /\ puts' = Parted /\ profiles[n].level = "profile"
    BY DEF Leave, CloseProfile, At
  <1>2. (fresh' => profiles[n].ok) /\ (~raced' => ~raced)
    BY DEF Leave
  <1>3. stack # <<>> /\ Top.name = "Profile" /\ n \in OpenProfiles /\ profiles[n] \in CopySet
    BY <1>1, TopProfile
  <1>4. PICK t \in Themes : t = profiles[n].theme
    BY <1>3 DEF CopySet
  <1>5. t \in Shown \union {NoTheme} /\ t # NoTheme /\ ~Broken(Top)
    BY <1>3, ThemeAssumption DEF Shown, Broken
  <1>6. Popped(t) /\ stack' \in Seq(PageSet)
    BY <1>0, <1>1, <1>3, <1>4, <1>5, PopIs
  <1>7. OpenProfiles' = {i \in OpenProfiles : i <= Len(stack')} /\ Len(stack') \in Nat
    BY <1>0, <1>3, <1>6, ProfilesPop
  <1>8. AppTyped' /\ Copies'
    BY <1>0, <1>1, <1>2, <1>7, PartedIs, ClosedStep
  <1>11. AllCurrent(t)'
    BY <1>0, <1>3, <1>5, <1>6, CurrentPop
  <1>12. fresh' /\ ~raced' => t = stored
    BY <1>0, <1>1, <1>2, <1>3, <1>4 DEF Copies, Agrees
  <1>13. Shows'
    BY <1>1, <1>11, <1>12 DEF Shows, AllCurrent
  <1> QED
    BY <1>8, <1>13

\* Log out from a profile.
LEMMA QuitStep ==
    ASSUME AppIInv, Quit
    PROVE  AppTyped' /\ Copies' /\ Shows'
  <1> DEFINE n == Len(stack)
  <1>0. IInv /\ Stacked /\ AppTyped /\ Copies
    BY DEF AppIInv, IInv
  <1>1. /\ LogOut /\ profiles' = Kept /\ UNCHANGED <<stored, coverGet, index>> /\ ~fresh'
        /\ puts' = Parted /\ (~raced' => ~raced)
    BY DEF Quit
  <1>2. /\ n \in Nat /\ n > 1 /\ stack[n].name = "Profile"
        /\ Len(stack') = n - 1 /\ stack'[n - 1].name = "Auth"
        /\ \A i \in 1..(n - 2) : stack'[i] = stack[i]
    BY <1>0, <1>1, LogOutIs DEF Page
  <1>3. stack[n - 1].name # "Profile"
    <2>1. n \in 1..n
      BY <1>2
    <2> QED
      BY <1>0, <1>2, <2>1 DEF Stacked, PageOK, HomePages
  <1>4. OpenProfiles' = {i \in OpenProfiles : i <= Len(stack')}
    <2>1. ASSUME NEW i \in 1..(n - 1)
          PROVE  stack'[i].name = "Profile" <=> stack[i].name = "Profile"
      <3>1. CASE i = n - 1
        BY <1>2, <1>3, <3>1
      <3>2. CASE i # n - 1
        <4>1. i \in 1..(n - 2)
          BY <1>2, <3>2
        <4> QED
          BY <1>2, <4>1
      <3> QED
        BY <3>1, <3>2
    <2> QED
      BY <1>2, <2>1 DEF OpenProfiles
  <1>5. Len(stack') \in Nat
    BY <1>2
  <1>6. AppTyped' /\ Copies'
    BY <1>0, <1>1, <1>4, <1>5, PartedIs, ClosedStep
  <1>8. Shows'
    BY <1>1 DEF Shows
  <1> QED
    BY <1>6, <1>8

\* Only the Cover is there, and no theme came from the server yet.
JustStarted ==
    /\ stack = <<CoverPage>> /\ profiles = <<>> /\ ~fresh
    /\ stored \in Themes /\ coverGet = NoTheme /\ index \in Themes
    /\ puts \in [Slots -> PutSet]

\* The app starts, or starts again: no profile is open.
LEMMA Started == JustStarted => AppTyped /\ Copies /\ Shows
  <1> SUFFICES ASSUME JustStarted PROVE AppTyped /\ Copies /\ Shows
    OBVIOUS
  <1>1. OpenProfiles = {}
    <2>1. Len(stack) = 1 /\ stack[1].name = "Cover"
      BY DEF JustStarted, CoverPage, Page
    <2> QED
      BY <2>1 DEF OpenProfiles
  <1>2. profiles \in [{} -> CopySet]
    BY DEF JustStarted
  <1> QED
    BY <1>1, <1>2 DEF JustStarted, AppTyped, Copies, Shows

\* The reading flow starts with its invariant.
LEMMA HomeStart == Init => IInv
  BY InitIInv

-----------------------------------------------------------------------------
(* What follows *)

\* The app starts with the invariant.
LEMMA AppStart == AppInit => AppIInv
  <1> SUFFICES ASSUME AppInit PROVE AppIInv
    OBVIOUS
  <1>1. Free \in PutSet
    BY ZeroAssumption DEF Free, Put, PutSet
  <1>2. Init /\ JustStarted
    BY <1>1, ZeroAssumption DEF AppInit, Init, JustStarted
  <1> QED
    BY <1>2, HomeStart, Started DEF AppIInv

\* A restart of the app is a start of Home.
LEMMA RelaunchStep ==
    ASSUME AppIInv, Relaunch
    PROVE  AppIInv'
  <1>1. stored \in Themes /\ puts \in [Slots -> PutSet]
    BY DEF AppIInv, AppTyped
  <1>2. Init'
    BY Zenon DEF Relaunch, Init
  <1>3. JustStarted'
    <2>1. \A s \in Slots : puts[s] \in PutSet /\ Ended(s) \in PutSet
      BY <1>1, ZeroAssumption DEF Ended, Free, Put, PutSet
    <2>2. puts' \in [Slots -> PutSet]
      BY <2>1 DEF Relaunch
    <2> QED
      BY <1>1, <2>2, ZeroAssumption DEF Relaunch, JustStarted
  <1>4. IInv'
    BY <1>2, HomeStart, PTL
  <1>5. (AppTyped /\ Copies /\ Shows)'
    BY <1>3, Started, PTL
  <1> QED
    BY <1>4, <1>5 DEF AppIInv

\* Every step of the app keeps the invariant.
LEMMA AppStep == AppIInv /\ [AppNext]_appVars => AppIInv'
  <1> SUFFICES ASSUME AppIInv, [AppNext]_appVars PROVE AppIInv'
    OBVIOUS
  <1>0. IInv /\ AppTyped
    BY DEF AppIInv
  <1>1. CASE Relaunch
    BY <1>1, RelaunchStep
  <1>2. CASE [Next]_vars
    <2>1. IInv'
      BY <1>0, <1>2, HomeStep
    <2>2. AppTyped' /\ Copies' /\ Shows'
      <3>1. CASE UNCHANGED appVars \/ CoverServed
        <4>1. /\ UNCHANGED <<stack, stored, profiles, index, puts>>
              /\ coverGet' \in Themes \union {NoTheme} /\ (fresh' => fresh) /\ (~raced' => ~raced)
          BY <1>0, <3>1 DEF AppTyped, appVars, vars, own, settings, CoverServed
        <4>2. index' \in Themes /\ puts' \in [Slots -> PutSet]
          BY <1>0, <4>1 DEF AppTyped
        <4> QED
          BY <4>1, <4>2, UnreadSame, ServedStep
      <3>2. CASE Relaunch
        BY <3>2, RelaunchStep DEF AppIInv
      <3> QED
        BY <3>1, <3>2, ReadingStep, InterruptedStep, CoverAnsweredStep, VisitStep, LeaveStep,
           QuitStep, PageStep, SheetStep, PutServedStep, PutEndsStep, PutAnsweredStep,
           ProfileStep DEF AppNext
    <2> QED
      BY <2>1, <2>2 DEF AppIInv
  <1> QED
    BY <1>1, <1>2, AppStepIsHomeStep

\* The invariant of the app holds in every state.
THEOREM AppInductive == AppSpec => []AppIInv
  BY AppStart, AppStep, PTL DEF AppSpec

\* Whatever verses arrive late over a profile and whatever failures close pages, there is
\* exactly one copy for each profile in the stack, and a theme of the carousel in it.
THEOREM AppTypeCorrect == AppSpec => []AppTypeOK
  <1>1. AppIInv => AppTypeOK
    <2> SUFFICES ASSUME AppIInv PROVE AppTypeOK
      OBVIOUS
    <2>0. Typed /\ AppTyped
      BY DEF AppIInv, IInv
    <2>1. DOMAIN stack = 1..Len(stack)
      BY <2>0 DEF Typed
    <2>2. DOMAIN profiles = {i \in DOMAIN stack : stack[i].name = "Profile"}
      BY <2>0, <2>1 DEF AppTyped, OpenProfiles
    <2>3. \A i \in DOMAIN profiles :
             /\ profiles[i].theme \in Themes /\ profiles[i].val \in Themes
             /\ profiles[i].pref \in Themes /\ profiles[i].level \in {"profile", "prefs", "sheet"}
      BY <2>0 DEF AppTyped, CopySet
    <2> QED
      BY <2>0, <2>2, <2>3 DEF AppTypeOK, AppTyped
  <1> QED
    BY AppInductive, <1>1, PTL

\* Without a race the home page on top shows the theme the server has, once its theme came
\* from the server or from a profile that had its data.
THEOREM StoredShown == AppSpec => []ShowsStored
  <1>1. AppIInv => ShowsStored
    <2> SUFFICES ASSUME AppIInv, fresh, ~raced, DOMAIN profiles = {}, OnTop(HomePages)
                 PROVE  Top.theme = stored
      BY DEF ShowsStored
    <2>0. Typed /\ AppTyped /\ Shows
      BY DEF AppIInv, IInv
    <2>1. OpenProfiles = {}
      BY <2>0 DEF AppTyped
    <2>2. AllCurrent(stored)
      BY <2>0, <2>1 DEF Shows
    <2> QED
      BY <2>0, <2>2, TopShows
  <1> QED
    BY AppInductive, <1>1, PTL
=============================================================================
