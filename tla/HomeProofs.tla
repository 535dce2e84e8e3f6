----------------------------- MODULE HomeProofs -----------------------------
(***************************************************************************)
(* Proofs about the reading flow, for any themes and any number of verses. *)
(*                                                                         *)
(* The properties look at the page on top; what keeps them true is the     *)
(* shape of the whole stack (PageOK): a Verse page has no home page but    *)
(* the Cover below it, returns to the Cover, and is never there while a    *)
(* verse is being fetched; every other page returns to the page directly   *)
(* below it; Flutter's error page stays on top.  The theme the user chose  *)
(* is that of every page that a return would show next (Chosen).           *)
(***************************************************************************)
EXTENDS Home, FiniteSetTheorems, SequenceTheorems, TLAPS

PageSet == [name : PageNames, theme : Shown, opener : Nat, gesture : BOOLEAN, fut : Nat,
            offset : BOOLEAN]

Before == [Explain |-> "Verse", Guidance |-> "Explain", Query |-> "Guidance", Chat |-> "Query"]

Typed ==
    /\ stack \in Seq(PageSet)
    /\ \A i \in 1..Len(stack) : stack[i].opener < i /\ stack[i].fut <= fetched
    /\ fetch \in {"idle", "sent"} /\ userData \in {"sent", "done"}
    /\ fetched \in 0..MaxFetch /\ outputDataFuture = fetched
    /\ fetch = "sent" => fetched < MaxFetch
    /\ explain \in [1..MaxFetch -> {"none", "pending", "ok", "short", "error"}]
    /\ session \in {"in", "ending", "out"}
    /\ chosen \in Themes \union {NoTheme}

Flags == isLoading \in BOOLEAN /\ spinner \in BOOLEAN

\* Page i of a stack and the pages below it.
PageOK(s, i) ==
    /\ s[i].name = "Cover" => i = 1
    /\ s[i].name = "Verse" => /\ i > 1 /\ s[i].opener = 1 /\ s[1].name = "Cover"
                              /\ \A j \in 2..(i - 1) : s[j].name \notin HomePages
    /\ s[i].name \in DOMAIN Before => /\ i > 1 /\ s[i].opener = i - 1
                                      /\ s[i - 1].name = Before[s[i].name]
    /\ s[i].name \in HomePages /\ i > 1 => \E j \in 1..i : s[j].name = "Verse"
    /\ s[i].name = "Profile" => i > 1 /\ s[i].opener = i - 1 /\ s[i - 1].name \in HomePages

Stacked ==
    \A i \in 1..Len(stack) :
        /\ PageOK(stack, i)
        /\ stack[i].name = "Verse" => fetch = "idle"
        /\ Broken(stack[i]) => i = Len(stack) /\ fetched = 0

\* The page i is the home page on top, or would be if error pages above it closed.
Current(i) ==
    /\ stack[i].name \in HomePages
    /\ \A j \in (i + 1)..Len(stack) : stack[j].name \in HomePages => Broken(stack[j])

AllCurrent(v) == \A i \in 1..Len(stack) : Current(i) => stack[i].theme = v

Chosen == chosen # NoTheme => AllCurrent(chosen)

\* The Cover shows its field isLoading, or was not rebuilt because a Verse is over it.
Loading ==
    /\ ~threw => (isLoading <=> fetch = "sent")
    /\ ~threw /\ ~lost /\ fetch = "idle" /\ spinner /\ CoverMounted
          => \E i \in 1..Len(stack) : stack[i].name = "Verse"

IInv == Typed /\ Flags /\ Stacked /\ Chosen /\ Loading

-----------------------------------------------------------------------------
(* The Navigator *)

\* Pages that differ in theme and offset at most.
SamePage(p, q) == p.name = q.name /\ p.opener = q.opener /\ p.fut = q.fut

\* The stack grew by page p.
Pushed(p) ==
    /\ Len(stack') = Len(stack) + 1 /\ stack'[Len(stack) + 1] = p
    /\ \A i \in 1..Len(stack) : SamePage(stack'[i], stack[i]) /\ stack'[i].theme = stack[i].theme

\* The page on top closed with result x.
Popped(x) ==
    /\ Len(stack') = Len(stack) - 1
    /\ \A i \in 1..(Len(stack) - 1) :
          /\ SamePage(stack'[i], stack[i])
          /\ stack'[i].theme = IF x # NoTheme /\ i = Top.opener THEN x ELSE stack[i].theme

\* The pages are those they were.
SameStack == stack' \in Seq(PageSet) /\ Len(stack') = Len(stack)
             /\ \A i \in 1..Len(stack) : SamePage(stack'[i], stack[i])

\* A stack without its last page.
LEMMA FrontIs ==
    ASSUME NEW s \in Seq(PageSet), s # <<>>
    PROVE  /\ Front(s) \in Seq(PageSet) /\ Len(s) \in Nat \ {0} /\ Len(Front(s)) = Len(s) - 1
           /\ \A i \in 1..(Len(s) - 1) : Front(s)[i] = s[i]
           /\ s[Len(s)] \in PageSet
  <1>1. Len(s) \in Nat \ {0} /\ s[Len(s)] \in PageSet
    OBVIOUS
  <1>2. \A i \in 1..(Len(s) - 1) : s[i] \in PageSet
    BY <1>1
  <1>3. Front(s) = [i \in 1..(Len(s) - 1) |-> s[i]]
    BY <1>1 DEF Front
  <1> DEFINE n == Len(s) - 1
             f == Front(s)
  <1>4. n \in Nat
    BY <1>1
  <1>5. f \in [1..n -> PageSet] /\ \A i \in 1..n : f[i] = s[i]
    BY <1>2, <1>3
  <1> HIDE DEF n, f
  <1>6. f \in Seq(PageSet) /\ Len(f) = n
    BY <1>4, <1>5
  <1> QED
    BY <1>1, <1>5, <1>6 DEF n, f

\* A page opened over others.
LEMMA AppendIs ==
    ASSUME NEW s \in Seq(PageSet), NEW p \in PageSet, NEW t, t = Append(s, p)
    PROVE  /\ t \in Seq(PageSet) /\ Len(s) \in Nat /\ Len(t) = Len(s) + 1
           /\ t[Len(s) + 1] = p /\ \A i \in 1..Len(s) : t[i] = s[i]
  BY AppendProperties

\* The State object that resumes gets the theme and keeps what it is.
LEMMA ResumeIs ==
    ASSUME NEW s \in Seq(PageSet), NEW p \in PageSet, p.opener <= Len(s),
           NEW x \in Shown \union {NoTheme}
    PROVE  LET r == Resume(s, p, x)
           IN  /\ r \in Seq(PageSet) /\ Len(r) = Len(s)
               /\ \A i \in 1..Len(s) :
                     /\ SamePage(r[i], s[i])
                     /\ r[i].theme = IF x # NoTheme /\ i = p.opener THEN x ELSE s[i].theme
  <1> DEFINE r == Resume(s, p, x)
  <1>0. p.opener \in Nat
    BY DEF PageSet
  <1>1. CASE x = NoTheme \/ p.opener = 0
    BY <1>0, <1>1 DEF Resume, SamePage
  <1>2. CASE ~(x = NoTheme \/ p.opener = 0)
    <2> DEFINE o == p.opener
               q == [s[o] EXCEPT !.theme = x, !.offset = IF p.gesture THEN FALSE ELSE @]
    <2>1. o \in 1..Len(s) /\ x \in Shown
      BY <1>0, <1>2
    <2>2. s[o] \in PageSet
      BY <2>1
    <2>3. r = [s EXCEPT ![o] = q]
      BY <1>2 DEF Resume
    <2>4. q \in PageSet /\ SamePage(q, s[o]) /\ q.theme = x
      BY <2>1, <2>2 DEF PageSet, SamePage
    <2> HIDE DEF q, r
    <2>5. /\ r \in Seq(PageSet) /\ Len(r) = Len(s) /\ r[o] = q
          /\ \A i \in 1..Len(s) : i # o => r[i] = s[i]
      BY <2>1, <2>3, <2>4
    <2>6. ASSUME NEW i \in 1..Len(s)
          PROVE  /\ SamePage(r[i], s[i])
                 /\ r[i].theme = IF x # NoTheme /\ i = p.opener THEN x ELSE s[i].theme
      <3>1. CASE i = o
        BY <1>2, <2>4, <2>5, <3>1
      <3>2. CASE i # o
        BY <2>5, <3>2 DEF SamePage
      <3> QED
        BY <3>1, <3>2
    <2> QED
      BY <2>5, <2>6 DEF r
  <1> QED
    BY <1>1, <1>2

\* pop() with a result.
LEMMA PopIs ==
    ASSUME Typed, stack # <<>>, NEW x \in Shown \union {NoTheme}, PopTop(x)
    PROVE  Popped(x) /\ stack' \in Seq(PageSet)
  <1>1. /\ stack \in Seq(PageSet) /\ Front(stack) \in Seq(PageSet) /\ Len(stack) \in Nat \ {0}
        /\ Len(Front(stack)) = Len(stack) - 1
        /\ \A i \in 1..(Len(stack) - 1) : Front(stack)[i] = stack[i]
    BY FrontIs DEF Typed
  <1>2. Top \in PageSet /\ Top.opener <= Len(Front(stack))
    <2>1. Len(stack) \in 1..Len(stack)
      BY <1>1
    <2>2. Top \in PageSet /\ Top.opener < Len(stack)
      BY <1>1, <2>1 DEF Typed, Top
    <2>3. Top.opener \in Nat
      BY <2>2 DEF PageSet
    <2> QED
      BY <1>1, <2>2, <2>3
  <1>3. stack' = Resume(Front(stack), Top, x)
    BY DEF PopTop
  <1>4. /\ stack' \in Seq(PageSet) /\ Len(stack') = Len(Front(stack))
        /\ \A i \in 1..Len(Front(stack)) :
              /\ SamePage(stack'[i], Front(stack)[i])
              /\ stack'[i].theme = IF x # NoTheme /\ i = Top.opener THEN x
                                   ELSE Front(stack)[i].theme
    BY <1>1, <1>2, <1>3, ResumeIs
  <1> QED
    BY <1>1, <1>4 DEF Popped

\* A drag moves the page on top.
LEMMA MovedIs ==
    ASSUME Typed, stack # <<>>, NEW d \in BOOLEAN
    PROVE  /\ Moved(d) \in Seq(PageSet) /\ Len(Moved(d)) = Len(stack)
           /\ \A i \in 1..Len(stack) : /\ SamePage(Moved(d)[i], stack[i])
                                       /\ Moved(d)[i].theme = stack[i].theme
  <1>0. stack \in Seq(PageSet) /\ Len(stack) \in 1..Len(stack)
    BY DEF Typed
  <1>1. CASE ~d
    BY <1>0, <1>1 DEF Moved, SamePage
  <1>2. CASE d
    <2> DEFINE n == Len(stack)
               q == [stack[n] EXCEPT !.offset = TRUE]
    <2>1. stack[n] \in PageSet
      BY <1>0
    <2>2. Moved(d) = [stack EXCEPT ![n] = q]
      BY <1>2, Zenon DEF Moved
    <2>3. q \in PageSet /\ SamePage(q, stack[n]) /\ q.theme = stack[n].theme
      BY <2>1 DEF PageSet, SamePage
    <2> HIDE DEF q
    <2>4. /\ Moved(d) \in Seq(PageSet) /\ Len(Moved(d)) = Len(stack) /\ Moved(d)[n] = q
          /\ \A i \in 1..Len(stack) : i # n => Moved(d)[i] = stack[i]
      BY <1>0, <2>2, <2>3
    <2>5. ASSUME NEW i \in 1..Len(stack)
          PROVE  SamePage(Moved(d)[i], stack[i]) /\ Moved(d)[i].theme = stack[i].theme
      <3>1. CASE i = n
        BY <2>3, <2>4, <3>1
      <3>2. CASE i # n
        BY <2>4, <3>2 DEF SamePage
      <3> QED
        BY <3>1, <3>2
    <2> QED
      BY <2>4, <2>5
  <1> QED
    BY <1>1, <1>2

\* push() over the pages, dragged or not.
LEMMA PushIs ==
    ASSUME NEW s \in Seq(PageSet), Len(s) = Len(stack), NEW p \in PageSet,
           \A i \in 1..Len(stack) : SamePage(s[i], stack[i]) /\ s[i].theme = stack[i].theme,
           stack' = Append(s, p)
    PROVE  Pushed(p) /\ stack' \in Seq(PageSet)
  <1>1. /\ stack' \in Seq(PageSet) /\ Len(stack') = Len(s) + 1 /\ stack'[Len(s) + 1] = p
        /\ \A i \in 1..Len(s) : stack'[i] = s[i]
    BY AppendIs
  <1> QED
    BY <1>1 DEF Pushed, SamePage

-----------------------------------------------------------------------------
(* The shape of the stack *)

\* Whether a page is in its place depends on the pages below it only.
LEMMA PageOKSame ==
    ASSUME NEW s, NEW t, NEW i \in Nat \ {0}, PageOK(s, i),
           \A j \in 1..i : SamePage(t[j], s[j])
    PROVE  PageOK(t, i)
  <1>1. i \in 1..i /\ 1 \in 1..i /\ (i > 1 => i - 1 \in 1..i) /\ \A j \in 2..(i - 1) : j \in 1..i
    OBVIOUS
  <1>2. /\ t[i].name = s[i].name /\ t[i].opener = s[i].opener /\ t[1].name = s[1].name
        /\ i > 1 => t[i - 1].name = s[i - 1].name
        /\ \A j \in 1..i : t[j].name = s[j].name
    BY <1>1 DEF SamePage
  <1> QED
    BY <1>1, <1>2 DEF PageOK

\* n pages stay and Auth, if any, takes the place of those above them.
Cut(n) ==
    /\ n \in 0..(Len(stack) - 1) /\ Len(stack') \in {n, n + 1}
    /\ \A i \in 1..n : SamePage(stack'[i], stack[i])
    /\ Len(stack') = n + 1 => stack'[n + 1].name = "Auth"

\* Closing pages keeps the others in their places.
LEMMA StackedCut ==
    ASSUME Typed, Stacked, NEW n, Cut(n), UNCHANGED <<fetch, fetched>>
    PROVE  Stacked'
  <1>0. Len(stack) \in Nat /\ n \in Nat /\ n < Len(stack)
    BY DEF Typed, Cut
  <1> SUFFICES ASSUME NEW i \in 1..Len(stack')
               PROVE  /\ PageOK(stack', i)
                      /\ stack'[i].name = "Verse" => fetch' = "idle"
                      /\ Broken(stack'[i]) => i = Len(stack') /\ fetched' = 0
    BY DEF Stacked, Broken
  <1>1. CASE i \in 1..n
    <2>1. /\ i \in 1..Len(stack) /\ i # Len(stack) /\ i \in Nat \ {0}
          /\ \A j \in 1..i : SamePage(stack'[j], stack[j])
      BY <1>0, <1>1 DEF Cut
    <2>2. PageOK(stack, i) /\ (stack[i].name = "Verse" => fetch = "idle") /\ ~Broken(stack[i])
      BY <2>1 DEF Stacked
    <2>3. PageOK(stack', i)
      BY <2>1, <2>2, PageOKSame
    <2>4. stack'[i].name = stack[i].name /\ stack'[i].fut = stack[i].fut
      BY <2>1 DEF SamePage
    <2> QED
      BY <2>2, <2>3, <2>4 DEF Broken
  <1>2. CASE i = n + 1
    <2>1. stack'[i].name = "Auth"
      BY <1>0, <1>2 DEF Cut
    <2> QED
      BY <2>1 DEF PageOK, Broken, HomePages, Before
  <1> QED
    BY <1>0, <1>1, <1>2 DEF Cut

\* A page opened in its place keeps the others in theirs.
LEMMA StackedPush ==
    ASSUME Typed, Stacked, NEW p, Pushed(p), \A i \in 1..Len(stack) : ~Broken(stack[i]),
           PageOK(stack', Len(stack) + 1), fetch' = fetch \/ fetch' = "idle",
           p.name = "Verse" => fetch' = "idle", Broken(p) => fetched' = 0
    PROVE  Stacked'
  <1>0. Len(stack) \in Nat /\ Len(stack') = Len(stack) + 1
    BY DEF Typed, Pushed
  <1> SUFFICES ASSUME NEW i \in 1..Len(stack')
               PROVE  /\ PageOK(stack', i)
                      /\ stack'[i].name = "Verse" => fetch' = "idle"
                      /\ Broken(stack'[i]) => i = Len(stack') /\ fetched' = 0
    BY DEF Stacked, Broken
  <1>1. CASE i \in 1..Len(stack)
    <2>1. i \in Nat \ {0} /\ \A j \in 1..i : SamePage(stack'[j], stack[j])
      BY <1>0, <1>1 DEF Pushed
    <2>2. PageOK(stack, i) /\ (stack[i].name = "Verse" => fetch = "idle") /\ ~Broken(stack[i])
      BY <1>1 DEF Stacked
    <2>3. PageOK(stack', i)
      BY <2>1, <2>2, PageOKSame
    <2>4. stack'[i].name = stack[i].name /\ stack'[i].fut = stack[i].fut
      BY <1>0, <2>1 DEF SamePage
    <2> QED
      BY <2>2, <2>3, <2>4 DEF Broken
  <1>2. CASE i = Len(stack) + 1
    <2>1. stack'[i] = p
      BY <1>2 DEF Pushed
    <2> QED
      BY <1>0, <1>2, <2>1
  <1> QED
    BY <1>0, <1>1, <1>2

\* A step that moves no page.
LEMMA StackedSame ==
    ASSUME Typed, Stacked, SameStack, fetched' = fetched,
           \/ fetch' = fetch \/ fetch' = "idle"
           \/ \A i \in 1..Len(stack) : stack[i].name # "Verse"
    PROVE  Stacked'
  <1>0. Len(stack) \in Nat /\ Len(stack') = Len(stack)
    BY DEF Typed, SameStack
  <1> SUFFICES ASSUME NEW i \in 1..Len(stack)
               PROVE  /\ PageOK(stack', i)
                      /\ stack'[i].name = "Verse" => fetch' = "idle"
                      /\ Broken(stack'[i]) => i = Len(stack') /\ fetched' = 0
    BY <1>0 DEF Stacked, Broken
  <1>1. i \in Nat \ {0} /\ \A j \in 1..i : SamePage(stack'[j], stack[j])
    BY <1>0 DEF SameStack
  <1>2. /\ PageOK(stack, i) /\ (stack[i].name = "Verse" => fetch = "idle")
        /\ Broken(stack[i]) => i = Len(stack) /\ fetched = 0
    BY DEF Stacked
  <1>3. PageOK(stack', i)
    BY <1>1, <1>2, PageOKSame
  <1>4. stack'[i].name = stack[i].name /\ stack'[i].fut = stack[i].fut
    BY <1>0, <1>1 DEF SamePage
  <1> QED
    BY <1>0, <1>2, <1>3, <1>4 DEF Broken

\* While a verse is being fetched, and under the Cover's spinner, no home page is open
\* but the Cover.
LEMMA NoHomeAbove ==
    ASSUME Typed, Stacked, fetch = "sent" \/ OnTop({"Cover"})
    PROVE  \A i \in 2..Len(stack) : stack[i].name \notin HomePages
  <1>0. Len(stack) \in Nat
    BY DEF Typed
  <1>1. CASE OnTop({"Cover"})
    <2>1. Len(stack) \in 1..Len(stack) /\ stack[Len(stack)].name = "Cover"
      BY <1>1 DEF OnTop, Top, Typed
    <2>2. Len(stack) = 1
      BY <2>1 DEF Stacked, PageOK
    <2> QED
      BY <2>2
  <1>2. CASE fetch = "sent"
    <2> SUFFICES ASSUME NEW i \in 2..Len(stack), stack[i].name \in HomePages PROVE FALSE
      OBVIOUS
    <2>1. PageOK(stack, i) /\ i > 1
      BY <1>0 DEF Stacked
    <2>2. PICK j \in 1..i : stack[j].name = "Verse"
      BY <2>1 DEF PageOK
    <2>3. j \in 1..Len(stack)
      BY <1>0
    <2> QED
      BY <1>2, <2>2, <2>3 DEF Stacked
  <1> QED
    BY <1>1, <1>2

-----------------------------------------------------------------------------
(* The chosen theme *)

\* Opening a page with the theme of the page on top.
LEMMA CurrentPush ==
    ASSUME Typed, NEW v, AllCurrent(v), NEW p, Pushed(p), p.name \in HomePages => p.theme = v
    PROVE  AllCurrent(v)'
  <1>0. Len(stack) \in Nat /\ Len(stack') = Len(stack) + 1
    BY DEF Typed, Pushed
  <1> SUFFICES ASSUME NEW i \in 1..Len(stack'), Current(i)'
               PROVE  stack'[i].theme = v
    BY DEF AllCurrent
  <1>1. CASE i = Len(stack) + 1
    BY <1>1 DEF Pushed, Current
  <1>2. CASE i \in 1..Len(stack)
    <2>1. stack'[i].name = stack[i].name /\ stack'[i].theme = stack[i].theme
      BY <1>2 DEF Pushed, SamePage
    <2>2. ASSUME NEW j \in (i + 1)..Len(stack), stack[j].name \in HomePages
          PROVE  Broken(stack[j])
      <3>1. j \in 1..Len(stack) /\ j \in (i + 1)..Len(stack')
        BY <1>0
      <3>2. stack'[j].name = stack[j].name /\ stack'[j].fut = stack[j].fut
        BY <3>1 DEF Pushed, SamePage
      <3>3. stack'[j].name \in HomePages => Broken(stack'[j])
        BY <3>1 DEF Current, Broken
      <3> QED
        BY <2>2, <3>2, <3>3 DEF Broken
    <2>3. Current(i)
      BY <2>1, <2>2 DEF Current
    <2> QED
      BY <1>2, <2>1, <2>3 DEF AllCurrent
  <1> QED
    BY <1>0, <1>1, <1>2

\* Closing the profile, Auth or an error page without a result.
LEMMA CurrentPopNull ==
    ASSUME Typed, NEW v, AllCurrent(v), stack # <<>>, Popped(NoTheme),
           Top.name \in HomePages => Broken(Top)
    PROVE  AllCurrent(v)'
  <1>0. Len(stack) \in Nat \ {0} /\ Len(stack') = Len(stack) - 1
    BY DEF Typed, Popped
  <1> SUFFICES ASSUME NEW i \in 1..Len(stack'), Current(i)'
               PROVE  stack'[i].theme = v
    BY DEF AllCurrent
  <1>1. i \in 1..(Len(stack) - 1) /\ i \in 1..Len(stack)
    BY <1>0
  <1>2. stack'[i].name = stack[i].name /\ stack'[i].theme = stack[i].theme
    BY <1>1 DEF Popped, SamePage
  <1>3. ASSUME NEW j \in (i + 1)..Len(stack), stack[j].name \in HomePages
        PROVE  Broken(stack[j])
    <2>1. CASE j = Len(stack)
      BY <1>3, <2>1 DEF Top
    <2>2. CASE j # Len(stack)
      <3>1. j \in 1..(Len(stack) - 1) /\ j \in (i + 1)..Len(stack')
        BY <1>0, <1>1, <2>2
      <3>2. stack'[j].name = stack[j].name /\ stack'[j].fut = stack[j].fut
        BY <3>1 DEF Popped, SamePage
      <3>3. stack'[j].name \in HomePages => Broken(stack'[j])
        BY <3>1 DEF Current, Broken
      <3> QED
        BY <1>3, <3>2, <3>3 DEF Broken
    <2> QED
      BY <2>1, <2>2
  <1>4. Current(i)
    BY <1>2, <1>3 DEF Current
  <1> QED
    BY <1>1, <1>2, <1>4 DEF AllCurrent

\* A page that returns a theme gives it to the home page that is on top then.
LEMMA CurrentPop ==
    ASSUME Typed, Stacked, stack # <<>>, NEW x, x # NoTheme, Popped(x),
           Top.name \in (HomePages \ {"Cover"}) \union {"Profile"}, ~Broken(Top)
    PROVE  AllCurrent(x)'
  <1>0. /\ Len(stack) \in Nat \ {0} /\ Len(stack') = Len(stack) - 1
        /\ Len(stack) \in 1..Len(stack)
    BY DEF Typed, Popped
  <1> SUFFICES ASSUME NEW i \in 1..Len(stack'), Current(i)'
               PROVE  stack'[i].theme = x
    BY DEF AllCurrent
  <1> DEFINE n == Len(stack)
  <1>1. i \in 1..(n - 1) /\ stack'[i].name = stack[i].name /\ stack[i].name \in HomePages
    BY <1>0 DEF Popped, SamePage, Current
  <1>2. PageOK(stack, n)
    BY <1>0 DEF Stacked
  <1>3. i = Top.opener
    <2>1. CASE Top.name = "Verse"
      <3>1. Top.opener = 1 /\ \A j \in 2..(n - 1) : stack[j].name \notin HomePages
        BY <1>2, <2>1 DEF PageOK, Top
      <3> QED
        BY <1>0, <1>1, <3>1
    <2>2. CASE Top.name # "Verse"
      <3>1. Top.name \in DOMAIN Before \/ Top.name = "Profile"
        BY <2>2 DEF HomePages, Before
      <3>2. n > 1 /\ Top.opener = n - 1 /\ stack[n - 1].name \in HomePages
        BY <1>2, <3>1 DEF PageOK, Top, Before, HomePages
      <3>3. n - 1 \in 1..n /\ ~Broken(stack[n - 1])
        BY <1>0, <3>2 DEF Stacked
      <3>4. stack'[n - 1].name = stack[n - 1].name /\ stack'[n - 1].fut = stack[n - 1].fut
        BY <1>0, <3>2 DEF Popped, SamePage
      <3>5. ASSUME i # n - 1 PROVE FALSE
        <4>1. n - 1 \in (i + 1)..Len(stack')
          BY <1>0, <1>1, <3>5
        <4>2. Broken(stack'[n - 1])
          BY <3>2, <3>4, <4>1 DEF Current, Broken
        <4> QED
          BY <3>3, <3>4, <4>2 DEF Broken
      <3> QED
        BY <3>2, <3>5
    <2> QED
      BY <2>1, <2>2
  <1> QED
    BY <1>1, <1>3 DEF Popped

\* The home page on top is current.
LEMMA TopShows ==
    ASSUME Typed, NEW v, AllCurrent(v), OnTop(HomePages)
    PROVE  Top.theme = v
  <1>1. Len(stack) \in 1..Len(stack) /\ Len(stack) \in Nat
    BY DEF Typed, OnTop
  <1>2. Current(Len(stack))
    BY <1>1 DEF Current, OnTop, Top
  <1> QED
    BY <1>1, <1>2 DEF AllCurrent, Top

\* The same for the chosen theme.
LEMMA ChosenPush ==
    ASSUME Typed, Chosen, NEW p, Pushed(p), chosen' = chosen,
           p.name \in HomePages /\ chosen # NoTheme => p.theme = chosen
    PROVE  Chosen'
  <1> SUFFICES ASSUME chosen # NoTheme PROVE AllCurrent(chosen)'
    BY DEF Chosen
  <1>1. PICK v : v = chosen
    OBVIOUS
  <1>2. AllCurrent(v)
    BY <1>1 DEF Chosen
  <1>3. AllCurrent(v)'
    BY <1>1, <1>2, CurrentPush
  <1> QED
    BY <1>1, <1>3 DEF AllCurrent

\* Closing a page without a result.
LEMMA ChosenPopNull ==
    ASSUME Typed, Chosen, stack # <<>>, Popped(NoTheme), chosen' = chosen,
           Top.name \in HomePages => Broken(Top)
    PROVE  Chosen'
  <1> SUFFICES ASSUME chosen # NoTheme PROVE AllCurrent(chosen)'
    BY DEF Chosen
  <1>1. PICK v : v = chosen
    OBVIOUS
  <1>2. AllCurrent(v)
    BY <1>1 DEF Chosen
  <1>3. AllCurrent(v)'
    BY <1>1, <1>2, CurrentPopNull
  <1> QED
    BY <1>1, <1>3 DEF AllCurrent

\* Closing a page with the chosen theme.
LEMMA ChosenPop ==
    ASSUME Typed, Stacked, stack # <<>>, NEW x, x # NoTheme, Popped(x),
           Top.name \in (HomePages \ {"Cover"}) \union {"Profile"}, ~Broken(Top),
           chosen' = x \/ chosen' = NoTheme
    PROVE  Chosen'
  <1>1. AllCurrent(x)'
    BY CurrentPop
  <1> QED
    BY <1>1 DEF Chosen, AllCurrent

\* The home page on top has the chosen theme.
LEMMA TopCurrent ==
    ASSUME Typed, Chosen, OnTop(HomePages), chosen # NoTheme
    PROVE  Top.theme = chosen
  <1>1. AllCurrent(chosen)
    BY DEF Chosen
  <1> QED
    BY <1>1, TopShows

-----------------------------------------------------------------------------
(* The Cover's spinner *)

HasVerse == \E i \in 1..Len(stack) : stack[i].name = "Verse"
Known == ~threw => (isLoading <=> fetch = "sent")
Stuck == ~threw /\ ~lost /\ fetch = "idle" /\ spinner /\ CoverMounted

\* Loading, in two parts.
LEMMA LoadingIs == Loading <=> Known /\ (Stuck => HasVerse)
  BY Zenon DEF Loading, Known, Stuck, HasVerse

\* The same after a step.
LEMMA LoadingIsNext == Loading' <=> Known' /\ (Stuck' => HasVerse')
  BY Zenon DEF Loading, Known, Stuck, HasVerse

\* The Verse is seen by the Cover: closing it rebuilds the Cover or is a loss.
LEMMA LoadingPop ==
    ASSUME Typed, Stacked, Loading, stack # <<>>, NEW x, RebuildCover(Top, x), Popped(x),
           UNCHANGED <<isLoading, fetch, threw>>
    PROVE  Loading'
  <1>0. Known /\ (Stuck => HasVerse)
    BY LoadingIs
  <1>1. Known'
    BY <1>0, Zenon DEF Known
  <1>2. /\ Len(stack) \in Nat \ {0} /\ Len(stack') = Len(stack) - 1
        /\ Len(stack) \in 1..Len(stack)
    BY DEF Typed, Popped
  <1>3. CASE Top.opener = 1 /\ x # NoTheme
    <2>1. spinner' = isLoading
      BY <1>3 DEF RebuildCover
    <2>2. ~Stuck'
      BY <1>1, <2>1 DEF Stuck, Known
    <2> QED
      BY <1>1, <2>2, LoadingIsNext
  <1>4. CASE ~(Top.opener = 1 /\ x # NoTheme)
    <2>1. spinner' = spinner /\ lost' = (lost \/ (Top.opener = 1 /\ Top.name = "Verse"))
      BY <1>4, Zenon DEF RebuildCover
    <2>2. ASSUME Stuck' PROVE HasVerse'
      <3>1. CoverMounted' /\ ~threw /\ ~lost /\ fetch = "idle" /\ spinner
            /\ ~(Top.opener = 1 /\ Top.name = "Verse")
        BY <2>1, <2>2, Zenon DEF Stuck
      <3>2. 1 \in 1..(Len(stack) - 1) /\ stack'[1].name = "Cover"
        BY <1>2, <3>1 DEF CoverMounted, Typed
      <3>3. CoverMounted
        BY <1>2, <3>2 DEF Popped, SamePage, CoverMounted
      <3>4. PICK i \in 1..Len(stack) : stack[i].name = "Verse"
        BY <1>0, <3>1, <3>3 DEF Stuck, HasVerse
      <3>5. i # Len(stack)
        BY <3>1, <3>4 DEF Stacked, PageOK, Top
      <3>6. i \in 1..(Len(stack) - 1) /\ i \in 1..Len(stack')
        BY <1>2, <3>5
      <3> QED
        BY <3>4, <3>6 DEF HasVerse, Popped, SamePage
    <2> QED
      BY <1>1, <2>2, LoadingIsNext
  <1> QED
    BY <1>3, <1>4

\* Opening a page.
LEMMA LoadingPush ==
    ASSUME Typed, Loading, stack # <<>>, NEW p, Pushed(p),
           UNCHANGED <<isLoading, spinner, fetch, threw, lost>>
    PROVE  Loading'
  <1>0. Known /\ (Stuck => HasVerse)
    BY LoadingIs
  <1>1. Known'
    BY <1>0, Zenon DEF Known
  <1>2. Len(stack) \in Nat \ {0} /\ Len(stack') = Len(stack) + 1
    BY DEF Typed, Pushed
  <1>3. CoverMounted' => CoverMounted
    BY <1>2 DEF CoverMounted, Pushed, SamePage
  <1>4. Stuck' => Stuck
    BY <1>3, Zenon DEF Stuck
  <1>5. HasVerse => HasVerse'
    BY <1>2 DEF HasVerse, Pushed, SamePage
  <1> QED
    BY <1>0, <1>1, <1>4, <1>5, LoadingIsNext

\* A Cover that is rebuilt, or nothing.
LEMMA LoadingSame ==
    ASSUME Typed, Loading, SameStack, UNCHANGED <<isLoading, fetch, threw>>,
           (spinner' = isLoading \/ (spinner' = spinner /\ lost' = lost))
    PROVE  Loading'
  <1>0. Known /\ (Stuck => HasVerse)
    BY LoadingIs
  <1>1. Known'
    BY <1>0, Zenon DEF Known
  <1>2. CASE spinner' = isLoading
    <2>1. ~Stuck'
      BY <1>1, <1>2 DEF Stuck, Known
    <2> QED
      BY <1>1, <2>1, LoadingIsNext
  <1>3. CASE spinner' = spinner /\ lost' = lost
    <2>1. CoverMounted' => CoverMounted
      BY DEF CoverMounted, SameStack, SamePage, Typed
    <2>2. Stuck' => Stuck
      BY <1>3, <2>1, Zenon DEF Stuck
    <2>3. HasVerse => HasVerse'
      BY DEF HasVerse, SameStack, SamePage
    <2> QED
      BY <1>0, <1>1, <2>2, <2>3, LoadingIsNext
  <1> QED
    BY <1>2, <1>3

-----------------------------------------------------------------------------
(* The actions *)

StackTyped ==
    /\ stack \in Seq(PageSet)
    /\ \A i \in 1..Len(stack) : stack[i].opener < i /\ stack[i].fut <= fetched

FieldsTyped ==
    /\ fetch \in {"idle", "sent"} /\ userData \in {"sent", "done"}
    /\ fetched \in 0..MaxFetch /\ outputDataFuture = fetched
    /\ fetch = "sent" => fetched < MaxFetch
    /\ explain \in [1..MaxFetch -> {"none", "pending", "ok", "short", "error"}]
    /\ session \in {"in", "ending", "out"}
    /\ chosen \in Themes \union {NoTheme}

\* The types of the stack and of the fields.
LEMMA TypedIs == Typed <=> StackTyped /\ FieldsTyped
  BY DEF Typed, StackTyped, FieldsTyped

\* The same after a step.
LEMMA TypedIsNext == Typed' <=> StackTyped' /\ FieldsTyped'
  BY DEF Typed, StackTyped, FieldsTyped

\* Opening a page of the right type.
LEMMA TypedPush ==
    ASSUME Typed, NEW p, Pushed(p), stack' \in Seq(PageSet), p.opener \in 0..Len(stack),
           p.fut \in 0..fetched', fetched' \in Nat, fetched <= fetched'
    PROVE  StackTyped'
  <1>0. Len(stack) \in Nat /\ Len(stack') = Len(stack) + 1 /\ fetched \in Nat
    BY DEF Typed, Pushed
  <1> SUFFICES ASSUME NEW i \in 1..Len(stack')
               PROVE  stack'[i].opener < i /\ stack'[i].fut <= fetched'
    BY DEF StackTyped
  <1>1. CASE i = Len(stack) + 1
    BY <1>0, <1>1 DEF Pushed
  <1>2. CASE i \in 1..Len(stack)
    <2>1. stack[i] \in PageSet /\ stack[i].opener < i /\ stack[i].fut <= fetched
      BY <1>2 DEF Typed
    <2>2. stack[i].fut \in Nat
      BY <2>1 DEF PageSet
    <2> QED
      BY <1>0, <1>2, <2>1, <2>2 DEF Pushed, SamePage
  <1> QED
    BY <1>0, <1>1, <1>2

\* Closing pages or none.
LEMMA TypedKeep ==
    ASSUME Typed, stack' \in Seq(PageSet), Len(stack') <= Len(stack), fetched' = fetched,
           \A i \in 1..Len(stack') : SamePage(stack'[i], stack[i])
    PROVE  StackTyped'
  <1>0. Len(stack) \in Nat /\ Len(stack') \in Nat
    BY DEF Typed
  <1> SUFFICES ASSUME NEW i \in 1..Len(stack')
               PROVE  stack'[i].opener < i /\ stack'[i].fut <= fetched'
    BY DEF StackTyped
  <1>1. i \in 1..Len(stack)
    BY <1>0
  <1> QED
    BY <1>1 DEF Typed, SamePage

\* A step that touches neither the stack nor the chosen theme.
LEMMA StackKept ==
    ASSUME IInv, UNCHANGED <<stack, chosen, fetched>>
    PROVE  SameStack /\ StackTyped' /\ Chosen'
  <1>1. Typed /\ Chosen
    BY DEF IInv
  <1>2. SameStack
    BY <1>1 DEF SameStack, SamePage, Typed
  <1>3. StackTyped'
    BY <1>1 DEF StackTyped, Typed
  <1>4. Chosen'
    BY <1>1 DEF Chosen, AllCurrent, Current, Broken
  <1> QED
    BY <1>2, <1>3, <1>4

\* fetchVerse starts on a Cover that is on top: no Verse is open.
LEMMA OpenBibleStep == ASSUME IInv, OpenBible PROVE IInv'
  <1>0. Typed /\ Flags /\ Stacked /\ Chosen /\ Loading
    BY DEF IInv
  <1>1. /\ OnTop({"Cover"}) /\ fetched < MaxFetch /\ fetch' = "sent"
        /\ isLoading' = TRUE /\ spinner' = TRUE
        /\ UNCHANGED <<stack, userData, fetched, outputDataFuture, explain, session, threw, chosen>>
    BY Zenon DEF OpenBible, BibleDrawn
  <1>2. SameStack /\ StackTyped' /\ Chosen'
    BY <1>1, StackKept
  <1>3. FieldsTyped'
    BY <1>0, <1>1 DEF Typed, FieldsTyped
  <1>4. Stacked'
    <2>1. \A i \in 1..Len(stack) : stack[i].name # "Verse"
      <3>1. \A i \in 2..Len(stack) : stack[i].name # "Verse"
        BY <1>0, <1>1, NoHomeAbove DEF HomePages
      <3>2. \A i \in 1..Len(stack) : stack[i].name = "Verse" => i > 1
        BY <1>0 DEF Stacked, PageOK
      <3> QED
        BY <1>0, <3>1, <3>2 DEF Typed
    <2> QED
      BY <1>0, <1>1, <1>2, <2>1, StackedSame
  <1>5. Loading'
    BY <1>1 DEF Loading
  <1>6. Flags'
    BY <1>1, Zenon DEF Flags
  <1> QED
    BY <1>2, <1>3, <1>4, <1>5, <1>6, TypedIsNext DEF IInv

\* The Verse page that fetchVerse opens, over the Cover and whatever is on it.
LEMMA PushVerseIs ==
    ASSUME IInv, fetch = "sent", CoverMounted, NEW fut \in Nat, PushVerse(fut),
           fut = 0 => fetched' = 0, fetch' = "idle", fetched' \in Nat, fetched <= fetched',
           fut <= fetched', chosen' = chosen
    PROVE  /\ StackTyped' /\ Stacked' /\ Chosen' /\ HasVerse'
  <1> DEFINE p == VersePage(stack[1].theme, fut)
             n == Len(stack)
  <1>0. Typed /\ Stacked /\ Chosen /\ stack \in Seq(PageSet) /\ n \in Nat
    BY DEF IInv, Typed
  <1>1. n # 0 /\ stack[1].name = "Cover" /\ stack[1] \in PageSet
    BY <1>0 DEF CoverMounted
  <1>2. p \in PageSet /\ p.name = "Verse" /\ p.opener = 1 /\ p.fut = fut /\ p.theme = stack[1].theme
    BY <1>1 DEF VersePage, Page, PageSet, PageNames, HomePages
  <1> HIDE DEF p
  <1>3. Pushed(p) /\ stack' \in Seq(PageSet)
    BY <1>0, <1>2, PushIs DEF PushVerse, SamePage, p
  <1>4. StackTyped'
    BY <1>0, <1>1, <1>2, <1>3, TypedPush
  <1>5. \A i \in 2..n : stack[i].name \notin HomePages
    BY <1>0, NoHomeAbove
  <1>6. \A i \in 1..n : ~Broken(stack[i])
    BY <1>0 DEF Stacked, Broken
  <1>7. stack'[n + 1] = p /\ Len(stack') = n + 1 /\ \A i \in 1..n : stack'[i].name = stack[i].name
    BY <1>3 DEF Pushed, SamePage
  <1>8. PageOK(stack', n + 1)
    <2>1. \A j \in 2..((n + 1) - 1) : stack'[j].name \notin HomePages
      BY <1>0, <1>5, <1>7
    <2>2. stack'[1].name = "Cover" /\ n + 1 > 1 /\ n + 1 \in 1..(n + 1)
      BY <1>0, <1>1, <1>7
    <2>3. stack'[n + 1].name = "Verse" /\ stack'[n + 1].opener = 1
      BY <1>2, <1>7
    <2> QED
      BY <2>1, <2>2, <2>3 DEF PageOK, Before
  <1>9. Stacked'
    <2>1. Broken(p) => fetched' = 0
      BY <1>2 DEF Broken
    <2> QED
      BY <1>0, <1>2, <1>3, <1>6, <1>8, <2>1, StackedPush
  <1>10. Chosen'
    <2>1. Current(1) /\ 1 \in 1..n
      BY <1>0, <1>1, <1>5 DEF Current, HomePages
    <2>2. chosen # NoTheme => p.theme = chosen
      BY <1>0, <1>2, <2>1 DEF Chosen, AllCurrent
    <2> QED
      BY <1>0, <1>3, <2>2, ChosenPush
  <1>11. HasVerse'
    BY <1>0, <1>2, <1>7 DEF HasVerse
  <1> QED
    BY <1>4, <1>9, <1>10, <1>11

\* A verse arrives.
LEMMA FetchOkStep == ASSUME IInv, FetchOk PROVE IInv'
  <1>0. Typed /\ Flags
    BY DEF IInv
  <1>1. /\ fetch = "sent" /\ fetch' = "idle" /\ CoverMounted
        /\ fetched' = fetched + 1 /\ outputDataFuture' = fetched + 1
        /\ explain' = [explain EXCEPT ![fetched + 1] = "pending"]
        /\ isLoading' = FALSE /\ PushVerse(fetched + 1)
        /\ UNCHANGED <<spinner, userData, session, threw, lost, chosen>>
    BY DEF FetchOk
  <1>2. fetched \in Nat /\ fetched < MaxFetch
    BY <1>0, <1>1 DEF Typed
  <1>3. StackTyped' /\ Stacked' /\ Chosen' /\ HasVerse'
    BY <1>1, <1>2, PushVerseIs
  <1>4. FieldsTyped'
    BY <1>0, <1>1, <1>2, FetchAssumption DEF Typed, FieldsTyped
  <1>5. Loading'
    BY <1>1, <1>3 DEF Loading, HasVerse
  <1>6. Flags'
    BY <1>0, <1>1, Zenon DEF Flags
  <1> QED
    BY <1>3, <1>4, <1>5, <1>6, TypedIsNext DEF IInv

\* An error answer opens a Verse page, Flutter's error page if no verse came before.
LEMMA FetchFailedStep == ASSUME IInv, FetchFailed PROVE IInv'
  <1>0. Typed /\ Flags
    BY DEF IInv
  <1>1. /\ fetch = "sent" /\ fetch' = "idle" /\ CoverMounted
        /\ isLoading' = FALSE /\ spinner' = FALSE /\ PushVerse(outputDataFuture)
        /\ UNCHANGED <<userData, fetched, outputDataFuture, explain, session, threw, chosen>>
    BY DEF FetchFailed
  <1>2. fetched \in Nat /\ outputDataFuture = fetched
    BY <1>0 DEF Typed
  <1>3. StackTyped' /\ Stacked' /\ Chosen' /\ HasVerse'
    BY <1>1, <1>2, PushVerseIs
  <1>4. FieldsTyped'
    BY <1>0, <1>1 DEF Typed, FieldsTyped
  <1>5. Loading'
    BY <1>1, <1>3 DEF Loading, HasVerse
  <1>6. Flags'
    BY <1>1, Zenon DEF Flags
  <1> QED
    BY <1>3, <1>4, <1>5, <1>6, TypedIsNext DEF IInv

\* A request that throws.
LEMMA FetchThrewStep == ASSUME IInv, FetchThrew PROVE IInv'
  <1>0. Typed /\ Flags /\ Stacked
    BY DEF IInv
  <1>1. /\ fetch' = "idle" /\ threw' = TRUE
        /\ UNCHANGED <<stack, isLoading, spinner, userData, fetched, outputDataFuture, explain,
                       session, lost, chosen>>
    BY DEF FetchThrew
  <1>2. SameStack /\ StackTyped' /\ Chosen'
    BY <1>1, StackKept
  <1>3. FieldsTyped'
    BY <1>0, <1>1 DEF Typed, FieldsTyped
  <1>4. Stacked'
    BY <1>0, <1>1, <1>2, StackedSame
  <1>5. Loading' /\ Flags'
    BY <1>0, <1>1, Zenon DEF Loading, Flags
  <1> QED
    BY <1>2, <1>3, <1>4, <1>5, TypedIsNext DEF IInv

\* A step of a request that leaves the pages and the chosen theme alone.
LEMMA QuietStep ==
    ASSUME IInv, UNCHANGED <<stack, chosen, fetched, outputDataFuture, fetch, isLoading, threw>>,
           spinner' = isLoading \/ (spinner' = spinner /\ lost' = lost),
           userData' \in {"sent", "done"}, session' \in {"in", "ending", "out"},
           explain' \in [1..MaxFetch -> {"none", "pending", "ok", "short", "error"}]
    PROVE  IInv'
  <1>0. Typed /\ Flags /\ Stacked /\ Loading
    BY DEF IInv
  <1>1. SameStack /\ StackTyped' /\ Chosen'
    BY StackKept
  <1>2. FieldsTyped'
    BY <1>0 DEF Typed, FieldsTyped
  <1>3. Stacked'
    BY <1>0, <1>1, StackedSame
  <1>4. Loading'
    BY <1>0, <1>1, LoadingSame
  <1>5. Flags'
    BY <1>0, Zenon DEF Flags
  <1> QED
    BY <1>1, <1>2, <1>3, <1>4, <1>5, TypedIsNext DEF IInv

\* The user's data arrives: the Cover changes its theme, under a Verse or on top.
LEMMA UserDataStep ==
    ASSUME IInv, NEW t \in Themes \union {NoTheme}, UserDataArrives(t) PROVE IInv'
  <1>0. Typed /\ Flags /\ Stacked /\ Chosen /\ Loading /\ stack \in Seq(PageSet)
    BY DEF IInv, Typed
  <1>1. /\ userData' = "done"
        /\ UNCHANGED <<isLoading, fetch, fetched, outputDataFuture, explain, session, threw>>
    BY DEF UserDataArrives
  <1>2. CASE ~(t \in Themes /\ CoverMounted)
    <2>1. UNCHANGED <<stack, spinner, lost, chosen>>
      BY <1>2 DEF UserDataArrives
    <2> QED
      BY <1>0, <1>1, <2>1, QuietStep DEF Typed
  <1>3. CASE t \in Themes /\ CoverMounted
    <2> DEFINE q == [stack[1] EXCEPT !.theme = t]
    <2>1. /\ stack' = [stack EXCEPT ![1] = q] /\ spinner' = isLoading /\ lost' = FALSE
          /\ \/ chosen' = NoTheme
             \/ /\ chosen' = chosen
                /\ \E i \in DOMAIN stack : stack[i].name = "Verse" /\ ~Broken(stack[i])
      BY <1>3 DEF UserDataArrives
    <2>2. 1 \in 1..Len(stack) /\ stack[1] \in PageSet /\ Len(stack) \in Nat
      BY <1>0, <1>3 DEF CoverMounted
    <2>3. q \in PageSet /\ SamePage(q, stack[1])
      BY <1>3, <2>2 DEF PageSet, SamePage, Shown
    <2> HIDE DEF q
    <2>4. /\ stack' \in Seq(PageSet) /\ Len(stack') = Len(stack) /\ stack'[1] = q
          /\ \A i \in 1..Len(stack) : i # 1 => stack'[i] = stack[i]
      BY <1>0, <2>1, <2>2, <2>3
    <2>5. \A i \in 1..Len(stack) : SamePage(stack'[i], stack[i])
      BY <2>3, <2>4 DEF SamePage
    <2>6. SameStack
      BY <2>4, <2>5 DEF SameStack
    <2>7. StackTyped'
      BY <1>0, <1>1, <2>2, <2>4, <2>5, TypedKeep
    <2>8. FieldsTyped'
      BY <1>0, <1>1, <2>1 DEF Typed, FieldsTyped
    <2>9. Stacked'
      BY <1>0, <1>1, <2>6, StackedSame
    <2>10. Loading'
      BY <1>0, <1>1, <2>1, <2>6, LoadingSame
    <2>11. Flags'
      BY <1>0, <1>1, <2>1, Zenon DEF Flags
    <2>12. Chosen'
      <3>1. CASE chosen' = NoTheme
        BY <3>1 DEF Chosen
      <3>2. CASE chosen' # NoTheme
        <4>1. PICK v \in 1..Len(stack) : stack[v].name = "Verse" /\ ~Broken(stack[v])
          BY <1>0, <2>1, <3>2
        <4>2. v > 1 /\ chosen' = chosen
          BY <1>0, <2>1, <3>2, <4>1 DEF Stacked, PageOK
        <4> SUFFICES ASSUME NEW i \in 1..Len(stack), Current(i)' PROVE stack'[i].theme = chosen
          BY <2>4, <4>2 DEF Chosen, AllCurrent
        <4>3. \A j \in 1..Len(stack) : /\ stack'[j].name = stack[j].name
                                       /\ stack'[j].fut = stack[j].fut
          BY <2>5 DEF SamePage
        <4>4. i # 1
          <5>1. i = 1 => Broken(stack'[v])
            BY <2>2, <2>4, <4>1, <4>2, <4>3 DEF Current, Broken, HomePages
          <5> QED
            BY <4>1, <4>3, <5>1 DEF Broken
        <4>5. Current(i)
          BY <2>2, <2>4, <4>3 DEF Current, Broken
        <4> QED
          BY <1>0, <2>4, <3>2, <4>2, <4>4, <4>5 DEF Chosen, AllCurrent
      <3> QED
        BY <3>1, <3>2
    <2> QED
      BY <2>7, <2>8, <2>9, <2>10, <2>11, <2>12, TypedIsNext DEF IInv
  <1> QED
    BY <1>2, <1>3

\* An explanation arrives.
LEMMA ExplainOkStep ==
    ASSUME IInv, NEW k \in 1..MaxFetch, NEW p \in {"ok", "short"}, ExplainOk(k, p) PROVE IInv'
  <1>0. Typed
    BY DEF IInv
  <1>1. UNCHANGED <<stack, isLoading, fetch, userData, fetched, outputDataFuture, session,
                    threw, chosen>>
    BY DEF ExplainOk
  <1>2. spinner' = isLoading \/ (spinner' = spinner /\ lost' = lost)
    BY DEF ExplainOk
  <1>3. explain' \in [1..MaxFetch -> {"none", "pending", "ok", "short", "error"}]
    BY <1>0 DEF ExplainOk, Typed
  <1>4. userData' \in {"sent", "done"} /\ session' \in {"in", "ending", "out"}
    BY <1>0, <1>1 DEF Typed
  <1> QED
    BY <1>1, <1>2, <1>3, <1>4, QuietStep

\* An explanation that throws.
LEMMA ExplainThrewStep ==
    ASSUME IInv, NEW k \in 1..MaxFetch, ExplainThrew(k) PROVE IInv'
  <1>0. Typed
    BY DEF IInv
  <1>1. UNCHANGED <<stack, isLoading, fetch, userData, fetched, outputDataFuture, session,
                    threw, chosen, spinner, lost>>
    BY DEF ExplainThrew, cover
  <1>2. explain' \in [1..MaxFetch -> {"none", "pending", "ok", "short", "error"}]
    BY <1>0 DEF ExplainThrew, Typed
  <1>3. userData' \in {"sent", "done"} /\ session' \in {"in", "ending", "out"}
    BY <1>0, <1>1 DEF Typed
  <1> QED
    BY <1>1, <1>2, <1>3, QuietStep

\* signOut ends.
LEMMA SignedOutStep == ASSUME IInv, SignedOut PROVE IInv'
  <1>0. Typed
    BY DEF IInv
  <1>1. /\ UNCHANGED <<stack, isLoading, fetch, userData, fetched, outputDataFuture, explain,
                       threw, chosen, spinner, lost>>
        /\ session' = "out"
    BY DEF SignedOut, cover
  <1>2. /\ userData' \in {"sent", "done"} /\ session' \in {"in", "ending", "out"}
        /\ explain' \in [1..MaxFetch -> {"none", "pending", "ok", "short", "error"}]
    BY <1>0, <1>1 DEF Typed
  <1> QED
    BY <1>1, <1>2, QuietStep

\* Closing the page on top, apart from the chosen theme.
LEMMA PopKeeps ==
    ASSUME IInv, stack # <<>>, NEW x \in Shown \union {NoTheme}, PopTop(x),
           UNCHANGED <<isLoading, fetch, userData, fetched, outputDataFuture, session, threw>>,
           explain' \in [1..MaxFetch -> {"none", "pending", "ok", "short", "error"}],
           chosen' \in Themes \union {NoTheme}
    PROVE  Typed' /\ Flags' /\ Stacked' /\ Loading' /\ Popped(x)
  <1>0. Typed /\ Flags /\ Stacked /\ Loading /\ Len(stack) \in Nat \ {0}
    BY DEF IInv, Typed
  <1>1. Popped(x) /\ stack' \in Seq(PageSet) /\ RebuildCover(Top, x)
    BY <1>0, PopIs DEF PopTop
  <1>2. Len(stack') = Len(stack) - 1 /\ \A i \in 1..Len(stack') : SamePage(stack'[i], stack[i])
    BY <1>0, <1>1 DEF Popped
  <1>3. StackTyped'
    BY <1>0, <1>1, <1>2, TypedKeep
  <1>4. FieldsTyped'
    BY <1>0 DEF Typed, FieldsTyped
  <1>5. Stacked'
    <2>1. Cut(Len(stack'))
      BY <1>0, <1>2 DEF Cut
    <2>2. PICK n : n = Len(stack')
      OBVIOUS
    <2> QED
      BY <1>0, <2>1, <2>2, StackedCut
  <1>6. Loading'
    BY <1>0, <1>1, LoadingPop
  <1>7. Flags'
    BY <1>0, <1>1, Zenon DEF Flags, RebuildCover
  <1> QED
    BY <1>1, <1>3, <1>4, <1>5, <1>6, <1>7, TypedIsNext

\* A failed explanation closes a page, or one inside the profile.
LEMMA ExplainFailedStep ==
    ASSUME IInv, NEW k \in 1..MaxFetch, ExplainFailed(k) PROVE IInv'
  <1>0. Typed /\ Chosen
    BY DEF IInv
  <1>1. /\ CoverMounted
        /\ UNCHANGED <<isLoading, fetch, userData, fetched, outputDataFuture, session, threw>>
    BY DEF ExplainFailed
  <1>2. explain' \in [1..MaxFetch -> {"none", "pending", "ok", "short", "error"}]
    BY <1>0 DEF ExplainFailed, Typed
  <1>3. CASE PopTop(NoTheme) /\ chosen' = IF OnTop(HomePages) THEN NoTheme ELSE chosen
    <2>1. stack # <<>> /\ chosen' \in Themes \union {NoTheme}
      BY <1>0, <1>1, <1>3 DEF CoverMounted, Typed
    <2>2. Typed' /\ Flags' /\ Stacked' /\ Loading' /\ Popped(NoTheme)
      BY <1>1, <1>2, <1>3, <2>1, PopKeeps
    <2>3. Chosen'
      <3>1. CASE OnTop(HomePages)
        BY <1>3, <3>1 DEF Chosen
      <3>2. CASE ~OnTop(HomePages)
        BY <1>0, <1>3, <2>1, <2>2, <3>2, ChosenPopNull DEF OnTop
      <3> QED
        BY <3>1, <3>2
    <2> QED
      BY <2>2, <2>3 DEF IInv
  <1>4. CASE UNCHANGED <<stack, spinner, lost, chosen>>
    <2>1. userData' \in {"sent", "done"} /\ session' \in {"in", "ending", "out"}
      BY <1>0, <1>1 DEF Typed
    <2> QED
      BY <1>1, <1>2, <1>4, <2>1, QuietStep
  <1> QED
    BY <1>3, <1>4 DEF ExplainFailed

\* Opening a page that lies on the page it was opened from.
LEMMA OpenStep ==
    ASSUME IInv, NEW s \in Seq(PageSet), Len(s) = Len(stack), stack # <<>>,
           \A i \in 1..Len(stack) : SamePage(s[i], stack[i]) /\ s[i].theme = stack[i].theme,
           NEW p \in PageSet, Push(s, p), ~Broken(Top), p.opener = Len(stack),
           p.fut <= fetched, p.name # "Verse", p.name # "Cover", Top.name \in HomePages,
           p.name \in DOMAIN Before => Top.name = Before[p.name],
           p.name \in HomePages => p.theme = Top.theme /\ Top.name # "Cover"
    PROVE  IInv'
  <1> DEFINE n == Len(stack)
  <1>0. /\ Typed /\ Flags /\ Stacked /\ Chosen /\ Loading
        /\ n \in Nat \ {0} /\ fetched \in Nat /\ n \in 1..n
    BY DEF IInv, Typed
  <1>1. Pushed(p) /\ stack' \in Seq(PageSet)
    BY PushIs DEF Push
  <1>2. UNCHANGED <<isLoading, spinner, fetch, userData, fetched, outputDataFuture, explain,
                    session, threw, lost, chosen>>
    BY DEF Push, cover
  <1>3. p.fut \in 0..fetched'
    BY <1>0, <1>2 DEF PageSet
  <1>4. StackTyped'
    BY <1>0, <1>1, <1>2, <1>3, TypedPush
  <1>5. FieldsTyped'
    BY <1>0, <1>2 DEF Typed, FieldsTyped
  <1>6. \A i \in 1..n : ~Broken(stack[i])
    BY <1>0 DEF Stacked, Top
  <1>7. /\ stack'[n + 1] = p /\ Len(stack') = n + 1
        /\ \A i \in 1..n : stack'[i].name = stack[i].name
    BY <1>1 DEF Pushed, SamePage
  <1>8. PageOK(stack', n + 1)
    <2>1. stack'[n].name = Top.name
      BY <1>0, <1>7 DEF Top
    <2>2. (n + 1) - 1 = n /\ n + 1 > 1
      BY <1>0
    <2>3. p.name \in HomePages => \E j \in 1..(n + 1) : stack'[j].name = "Verse"
      <3> SUFFICES ASSUME p.name \in HomePages PROVE \E j \in 1..n : stack'[j].name = "Verse"
        BY <1>0
      <3>1. PageOK(stack, n) /\ stack[n].name \in HomePages /\ stack[n].name # "Cover"
        BY <1>0 DEF Stacked, Top
      <3>2. stack[n].name = "Verse" \/ stack[n].name \in DOMAIN Before
        BY <3>1 DEF HomePages, Before
      <3>3. n > 1
        BY <3>1, <3>2 DEF PageOK
      <3>4. PICK j \in 1..n : stack[j].name = "Verse"
        BY <3>1, <3>3 DEF PageOK
      <3> QED
        BY <1>7, <3>4
    <2> QED
      BY <1>7, <2>1, <2>2, <2>3 DEF PageOK
  <1>9. Stacked'
    <2>1. ~Broken(p)
      BY DEF Broken
    <2> QED
      BY <1>0, <1>1, <1>2, <1>6, <1>8, <2>1, StackedPush
  <1>10. Chosen'
    <2>1. OnTop(HomePages)
      BY DEF OnTop
    <2>2. chosen # NoTheme => Top.theme = chosen
      BY <1>0, <2>1, TopCurrent
    <2> QED
      BY <1>0, <1>1, <1>2, <2>2, ChosenPush
  <1>11. Loading'
    BY <1>0, <1>1, <1>2, LoadingPush
  <1>12. Flags'
    BY <1>0, <1>2, Zenon DEF Flags
  <1> QED
    BY <1>4, <1>5, <1>9, <1>10, <1>11, <1>12, TypedIsNext DEF IInv

\* The page on top and the stack, dragged or not.
LEMMA TopIs ==
    ASSUME IInv, stack # <<>>
    PROVE  /\ stack \in Seq(PageSet) /\ Top \in PageSet /\ Top.fut <= fetched /\ Len(stack) \in Nat
           /\ \A i \in 1..Len(stack) : SamePage(stack[i], stack[i])
  <1>1. Typed /\ stack \in Seq(PageSet) /\ Len(stack) \in 1..Len(stack) /\ Len(stack) \in Nat
    BY DEF IInv, Typed
  <1>2. Top \in PageSet /\ Top.fut <= fetched
    BY <1>1 DEF Typed, Top
  <1> QED
    BY <1>1, <1>2 DEF SamePage

\* From the Verse, the explanation and the guidance to the next page.
LEMMA OpenReadingStep ==
    ASSUME IInv, NEW d \in BOOLEAN, OpenExplain(d) \/ OpenGuidance(d) \/ OpenQuery(d)
    PROVE  IInv'
  <1>0. stack # <<>>
    BY DEF OpenExplain, OpenGuidance, OpenQuery, VerseArrow, ExplainArrow, GuidanceArrow, OnTop
  <1>1. /\ Top \in PageSet /\ Top.fut <= fetched /\ Len(stack) \in Nat
    BY <1>0, TopIs
  <1>2. /\ Moved(d) \in Seq(PageSet) /\ Len(Moved(d)) = Len(stack)
        /\ \A i \in 1..Len(stack) : /\ SamePage(Moved(d)[i], stack[i])
                                    /\ Moved(d)[i].theme = stack[i].theme
    BY <1>0, MovedIs DEF IInv
  <1>3. CASE OpenExplain(d)
    <2> DEFINE p == ExplainationPage(Top, Len(stack))
    <2>1. /\ p \in PageSet /\ p.name = "Explain" /\ p.opener = Len(stack) /\ p.fut = Top.fut
          /\ p.theme = Top.theme
      BY <1>1 DEF ExplainationPage, Page, PageSet, PageNames, HomePages
    <2>2. Push(Moved(d), p) /\ ~Broken(Top) /\ Top.name = "Verse"
      BY <1>3 DEF OpenExplain, VerseArrow, OnTop
    <2> HIDE DEF p
    <2>3. /\ p.name # "Verse" /\ p.name # "Cover" /\ Top.name \in HomePages
          /\ Top.name # "Cover" /\ Top.name = Before[p.name]
      BY <2>1, <2>2 DEF Before, HomePages
    <2>4. p.fut <= fetched
      BY <1>1, <2>1
    <2> QED
      BY <1>0, <1>1, <1>2, <2>1, <2>2, <2>3, <2>4, OpenStep
  <1>4. CASE OpenGuidance(d)
    <2> DEFINE p == GuidancePage(Top, Len(stack))
    <2>1. /\ p \in PageSet /\ p.name = "Guidance" /\ p.opener = Len(stack) /\ p.fut = Top.fut
          /\ p.theme = Top.theme
      BY <1>1 DEF GuidancePage, Page, PageSet, PageNames, HomePages
    <2>2. Push(Moved(d), p) /\ ~Broken(Top) /\ Top.name = "Explain"
      BY <1>4 DEF OpenGuidance, ExplainArrow, OnTop, Broken
    <2> HIDE DEF p
    <2>3. /\ p.name # "Verse" /\ p.name # "Cover" /\ Top.name \in HomePages
          /\ Top.name # "Cover" /\ Top.name = Before[p.name]
      BY <2>1, <2>2 DEF Before, HomePages
    <2>4. p.fut <= fetched
      BY <1>1, <2>1
    <2> QED
      BY <1>0, <1>1, <1>2, <2>1, <2>2, <2>3, <2>4, OpenStep
  <1>5. CASE OpenQuery(d)
    <2> DEFINE p == QueryPage(Top, Len(stack))
    <2>1. /\ p \in PageSet /\ p.name = "Query" /\ p.opener = Len(stack) /\ p.fut = Top.fut
          /\ p.theme = Top.theme
      BY <1>1 DEF QueryPage, Page, PageSet, PageNames, HomePages
    <2>2. Push(Moved(d), p) /\ ~Broken(Top) /\ Top.name = "Guidance"
      BY <1>5 DEF OpenQuery, GuidanceArrow, OnTop, Broken
    <2> HIDE DEF p
    <2>3. /\ p.name # "Verse" /\ p.name # "Cover" /\ Top.name \in HomePages
          /\ Top.name # "Cover" /\ Top.name = Before[p.name]
      BY <2>1, <2>2 DEF Before, HomePages
    <2>4. p.fut <= fetched
      BY <1>1, <2>1
    <2> QED
      BY <1>0, <1>1, <1>2, <2>1, <2>2, <2>3, <2>4, OpenStep
  <1> QED
    BY <1>3, <1>4, <1>5

\* From the question to the chat.
LEMMA OpenChatStep == ASSUME IInv, OpenChat PROVE IInv'
  <1>0. stack # <<>> /\ Top.name = "Query" /\ Push(stack, ChatPage(Top, Len(stack)))
    BY DEF OpenChat, OnTop
  <1>1. /\ stack \in Seq(PageSet) /\ Top \in PageSet /\ Top.fut <= fetched /\ Len(stack) \in Nat
        /\ \A i \in 1..Len(stack) : SamePage(stack[i], stack[i])
    BY <1>0, TopIs
  <1> DEFINE p == ChatPage(Top, Len(stack))
  <1>2. /\ p \in PageSet /\ p.name = "Chat" /\ p.opener = Len(stack) /\ p.fut = Top.fut
        /\ p.theme = Top.theme
    BY <1>1 DEF ChatPage, Page, PageSet, PageNames, HomePages
  <1>3. Push(stack, p) /\ ~Broken(Top)
    BY <1>0 DEF Broken
  <1> HIDE DEF p
  <1>4. /\ p.name # "Verse" /\ p.name # "Cover" /\ Top.name \in HomePages
        /\ Top.name # "Cover" /\ Top.name = Before[p.name]
    BY <1>0, <1>2 DEF Before, HomePages
  <1>5. p.fut <= fetched
    BY <1>1, <1>2
  <1> QED
    BY <1>0, <1>1, <1>2, <1>3, <1>4, <1>5, OpenStep

\* From a home page to the profile or to Auth.
LEMMA OpenMenuStep == ASSUME IInv, OpenMenu PROVE IInv'
  <1>0. /\ stack # <<>> /\ Top.name \in HomePages /\ ~Broken(Top)
        /\ Push(stack, ProfileNav(Len(stack)))
    BY DEF OpenMenu, OnTop
  <1>1. /\ stack \in Seq(PageSet) /\ Len(stack) \in Nat
        /\ \A i \in 1..Len(stack) : SamePage(stack[i], stack[i])
    BY <1>0, TopIs
  <1> DEFINE p == ProfileNav(Len(stack))
  <1>2. /\ p \in PageSet /\ p.name \in {"Profile", "Auth"} /\ p.opener = Len(stack) /\ p.fut = 0
    BY <1>1 DEF ProfileNav, Page, PageSet, PageNames, HomePages, Shown
  <1>3. Push(stack, p) /\ fetched \in Nat
    BY <1>0 DEF IInv, Typed
  <1> HIDE DEF p
  <1>4. p.name \notin HomePages /\ p.name \notin DOMAIN Before
    BY <1>2 DEF HomePages, Before
  <1> QED
    BY <1>0, <1>1, <1>2, <1>3, <1>4, OpenStep DEF HomePages

\* The back button.
LEMMA BackStep == ASSUME IInv, Back PROVE IInv'
  <1>0. Typed /\ Stacked /\ Chosen
    BY DEF IInv
  <1>1. UNCHANGED <<isLoading, fetch, userData, fetched, outputDataFuture, explain, session,
                    threw, chosen>>
    BY DEF Back
  <1>2. /\ explain' \in [1..MaxFetch -> {"none", "pending", "ok", "short", "error"}]
        /\ chosen' \in Themes \union {NoTheme}
    BY <1>0, <1>1 DEF Typed
  <1>3. ASSUME OnTop(HomePages \ {"Cover"}), ~Broken(Top), PopTop(Top.theme) PROVE IInv'
    <2>1. stack # <<>> /\ OnTop(HomePages) /\ Top.name \in HomePages \ {"Cover"}
      BY <1>3 DEF OnTop
    <2>2. Top.theme \in Shown
      BY <2>1, TopIs DEF PageSet
    <2>3. Top.theme # NoTheme
      BY <2>2, ThemeAssumption DEF Shown
    <2>4. Typed' /\ Flags' /\ Stacked' /\ Loading' /\ Popped(Top.theme)
      BY <1>1, <1>2, <1>3, <2>1, <2>2, PopKeeps
    <2>5. chosen' = Top.theme \/ chosen' = NoTheme
      BY <1>0, <1>1, <2>1, TopCurrent
    <2>6. Chosen'
      BY <1>0, <1>3, <2>1, <2>3, <2>4, <2>5, ChosenPop
    <2> QED
      BY <2>4, <2>6 DEF IInv
  <1>4. ASSUME stack # <<>>, Top.name \in HomePages => Broken(Top), PopTop(NoTheme) PROVE IInv'
    <2>1. Typed' /\ Flags' /\ Stacked' /\ Loading' /\ Popped(NoTheme)
      BY <1>1, <1>2, <1>4, PopKeeps
    <2>2. Chosen'
      BY <1>0, <1>1, <1>4, <2>1, ChosenPopNull
    <2> QED
      BY <2>1, <2>2 DEF IInv
  <1>5. CASE OnTop(HomePages \ {"Cover"}) /\ PopTop(IF Broken(Top) THEN NoTheme ELSE Top.theme)
    BY <1>3, <1>4, <1>5 DEF OnTop
  <1>6. CASE OnTop({"Auth"}) /\ PopTop(NoTheme)
    BY <1>4, <1>6 DEF OnTop, HomePages
  <1> QED
    BY <1>5, <1>6 DEF Back

\* Back from the profile with a theme.
LEMMA CloseProfileStep ==
    ASSUME IInv, NEW t \in Themes, CloseProfile(t) PROVE IInv'
  <1>0. Typed /\ Stacked
    BY DEF IInv
  <1>1. /\ stack # <<>> /\ Top.name = "Profile" /\ PopTop(t) /\ chosen' = t
        /\ UNCHANGED <<isLoading, fetch, userData, fetched, outputDataFuture, explain, session,
                       threw>>
    BY DEF CloseProfile, OnTop
  <1>2. explain' \in [1..MaxFetch -> {"none", "pending", "ok", "short", "error"}]
    BY <1>0, <1>1 DEF Typed
  <1>3. t # NoTheme /\ t \in Shown /\ ~Broken(Top)
    BY <1>1, ThemeAssumption DEF Shown, Broken
  <1>4. Typed' /\ Flags' /\ Stacked' /\ Loading' /\ Popped(t)
    BY <1>1, <1>2, <1>3, PopKeeps
  <1>5. Chosen'
    BY <1>0, <1>1, <1>3, <1>4, ChosenPop
  <1> QED
    BY <1>4, <1>5 DEF IInv

\* The answer to a theme update closes a page with its theme, or one inside the profile.
LEMMA ThemeAnsweredStep ==
    ASSUME IInv, NEW v \in Themes, ThemeAnswered(v) PROVE IInv'
  <1>0. Typed /\ Stacked
    BY DEF IInv
  <1>1. UNCHANGED <<isLoading, fetch, userData, fetched, outputDataFuture, explain, session,
                    threw>>
    BY DEF ThemeAnswered
  <1>2. /\ explain' \in [1..MaxFetch -> {"none", "pending", "ok", "short", "error"}]
        /\ userData' \in {"sent", "done"} /\ session' \in {"in", "ending", "out"}
    BY <1>0, <1>1 DEF Typed
  <1>3. CASE stack # <<>> /\ PopTop(v) /\ chosen' = IF OnTop({"Profile"}) THEN v ELSE NoTheme
    <2>1. v # NoTheme /\ v \in Shown /\ chosen' \in Themes \union {NoTheme}
      BY <1>3, ThemeAssumption DEF Shown
    <2>2. Typed' /\ Flags' /\ Stacked' /\ Loading' /\ Popped(v)
      BY <1>1, <1>2, <1>3, <2>1, PopKeeps
    <2>3. Chosen'
      <3>1. CASE OnTop({"Profile"})
        <4>1. Top.name = "Profile" /\ ~Broken(Top) /\ chosen' = v
          BY <1>3, <3>1 DEF OnTop, Broken
        <4> QED
          BY <1>0, <1>3, <2>1, <2>2, <4>1, ChosenPop
      <3>2. CASE ~OnTop({"Profile"})
        BY <1>3, <3>2 DEF Chosen
      <3> QED
        BY <3>1, <3>2
    <2> QED
      BY <2>2, <2>3 DEF IInv
  <1>4. CASE UNCHANGED <<stack, spinner, lost, chosen>>
    BY <1>1, <1>2, <1>4, QuietStep
  <1> QED
    BY <1>3, <1>4 DEF ThemeAnswered

\* Confirm, and an update that closes nothing.
LEMMA ThemeQuietStep == ASSUME IInv, ConfirmTheme \/ ThemeUnanswered PROVE IInv'
  <1>0. Typed
    BY DEF IInv
  <1>1. UNCHANGED <<stack, isLoading, fetch, userData, fetched, outputDataFuture, explain,
                    session, threw, chosen, spinner, lost>>
    BY DEF ConfirmTheme, ThemeUnanswered, cover
  <1>2. /\ userData' \in {"sent", "done"} /\ session' \in {"in", "ending", "out"}
        /\ explain' \in [1..MaxFetch -> {"none", "pending", "ok", "short", "error"}]
    BY <1>0, <1>1 DEF Typed
  <1> QED
    BY <1>1, <1>2, QuietStep

\* Log out: the profile and the page below it give way to Auth.
LEMMA LogOutIs ==
    ASSUME IInv, LogOut
    PROVE  /\ stack \in Seq(PageSet) /\ Len(stack) \in Nat /\ Len(stack) > 1 /\ stack # <<>>
           /\ stack[Len(stack)].name = "Profile"
           /\ Front(stack)[Len(Front(stack))] = stack[Len(stack) - 1]
           /\ stack' \in Seq(PageSet) /\ Len(stack') = Len(stack) - 1
           /\ stack'[Len(stack) - 1] = Page("Auth", Default, 0, FALSE, 0)
           /\ \A i \in 1..(Len(stack) - 2) : stack'[i] = stack[i]
  <1> DEFINE n == Len(stack)
             rest == Front(stack)
             a == Page("Auth", Default, 0, FALSE, 0)
  <1>0. Typed /\ Stacked /\ stack \in Seq(PageSet) /\ n \in Nat
    BY DEF IInv, Typed
  <1>1. stack # <<>> /\ stack[n].name = "Profile" /\ stack' = Append(Front(rest), a)
    BY Zenon DEF LogOut, OnTop, Top
  <1>2. n > 1
    <2>1. n \in 1..n
      BY <1>0, <1>1
    <2> QED
      BY <1>1, <2>1, <1>0 DEF Stacked, PageOK
  <1>3. /\ rest \in Seq(PageSet) /\ Len(rest) = n - 1 /\ rest # <<>>
        /\ \A i \in 1..(n - 1) : rest[i] = stack[i]
    BY <1>0, <1>1, <1>2, FrontIs
  <1>4. /\ Front(rest) \in Seq(PageSet) /\ Len(Front(rest)) = n - 2
        /\ \A i \in 1..(n - 2) : Front(rest)[i] = stack[i]
    <2> HIDE DEF rest
    <2>1. /\ Front(rest) \in Seq(PageSet) /\ Len(Front(rest)) = Len(rest) - 1
          /\ \A i \in 1..(Len(rest) - 1) : Front(rest)[i] = rest[i]
      BY <1>3, FrontIs
    <2> QED
      BY <1>0, <1>2, <1>3, <2>1
  <1>5. rest[Len(rest)] = stack[n - 1]
    BY <1>2, <1>3, <1>0
  <1>6. a \in PageSet
    BY DEF Page, PageSet, PageNames, HomePages, Shown
  <1> HIDE DEF a, rest
  <1>7. /\ stack' \in Seq(PageSet) /\ Len(stack') = n - 1 /\ stack'[n - 1] = a
        /\ \A i \in 1..(n - 2) : stack'[i] = stack[i]
    <2>1. /\ stack' \in Seq(PageSet) /\ Len(stack') = Len(Front(rest)) + 1
          /\ stack'[Len(Front(rest)) + 1] = a
          /\ \A i \in 1..Len(Front(rest)) : stack'[i] = Front(rest)[i]
      BY <1>1, <1>4, <1>6, AppendIs
    <2>2. Len(Front(rest)) + 1 = n - 1
      BY <1>0, <1>4
    <2> QED
      BY <1>4, <2>1, <2>2
  <1> QED
    BY <1>0, <1>1, <1>2, <1>5, <1>7 DEF a, rest

\* Log out keeps the invariant.
LEMMA LogOutStep == ASSUME IInv, LogOut PROVE IInv'
  <1> DEFINE n == Len(stack)
             rest == Front(stack)
             gone == rest[Len(rest)]
             a == Page("Auth", Default, 0, FALSE, 0)
  <1>0. /\ Typed /\ Flags /\ Stacked /\ Loading
        /\ stack \in Seq(PageSet) /\ n \in Nat
    BY DEF IInv, Typed
  <1>1. /\ stack # <<>> /\ stack[n].name = "Profile" /\ chosen' = NoTheme
        /\ lost' = (lost \/ (gone.opener = 1 /\ gone.name = "Verse"))
        /\ session' = IF session = "in" THEN "ending" ELSE session
        /\ UNCHANGED <<isLoading, spinner, fetch, userData, fetched, outputDataFuture, explain,
                       threw>>
    BY Zenon DEF LogOut, OnTop, Top, cover
  <1>2. n > 1
    BY LogOutIs
  <1>5. gone = stack[n - 1]
    BY LogOutIs
  <1>6. a \in PageSet /\ a.name = "Auth" /\ a.opener = 0 /\ a.fut = 0
    BY DEF Page, PageSet, PageNames, HomePages, Shown
  <1>7. /\ stack' \in Seq(PageSet) /\ Len(stack') = n - 1 /\ stack'[n - 1] = a
        /\ \A i \in 1..(n - 2) : stack'[i] = stack[i]
    BY LogOutIs
  <1> HIDE DEF a, rest, gone
  <1>8. StackTyped'
    <2> SUFFICES ASSUME NEW i \in 1..(n - 1)
                 PROVE  stack'[i].opener < i /\ stack'[i].fut <= fetched
      BY <1>1, <1>7 DEF StackTyped
    <2>1. CASE i = n - 1
      BY <1>0, <1>2, <1>6, <1>7, <2>1 DEF Typed
    <2>2. CASE i # n - 1
      <3>1. i \in 1..(n - 2) /\ i \in 1..n
        BY <1>0, <2>2
      <3> QED
        BY <1>0, <1>7, <3>1 DEF Typed
    <2> QED
      BY <2>1, <2>2
  <1>9. FieldsTyped'
    BY <1>0, <1>1 DEF Typed, FieldsTyped
  <1>10. Stacked'
    <2>1. PICK m : m = n - 2
      OBVIOUS
    <2>2. Cut(m)
      BY <1>0, <1>2, <1>6, <1>7, <2>1 DEF Cut, SamePage
    <2> QED
      BY <1>0, <1>1, <2>2, StackedCut
  <1>11. Chosen'
    BY <1>1 DEF Chosen
  <1>12. Flags'
    BY <1>0, <1>1, Zenon DEF Flags
  <1>13. Loading'
    <2>0. Known /\ (Stuck => HasVerse)
      BY <1>0, LoadingIs
    <2>1. Known'
      BY <1>1, <2>0, Zenon DEF Known
    <2>2. ASSUME Stuck' PROVE HasVerse'
      <3>1. /\ CoverMounted' /\ ~threw /\ ~lost /\ fetch = "idle" /\ spinner
            /\ ~(gone.opener = 1 /\ gone.name = "Verse")
        BY <1>1, <2>2, Zenon DEF Stuck
      <3>2. stack'[1].name = "Cover"
        BY <3>1 DEF CoverMounted
      <3>3. n - 2 >= 1
        <4>1. n - 1 # 1
          BY <1>6, <1>7, <3>2
        <4>2. n \in Nat
          BY <1>0
        <4> HIDE DEF n
        <4> QED
          BY <1>2, <4>1, <4>2
      <3>4. CoverMounted
        BY <1>0, <1>1, <1>7, <3>2, <3>3 DEF CoverMounted
      <3>5. PICK i \in 1..n : stack[i].name = "Verse"
        BY <2>0, <3>1, <3>4 DEF Stuck, HasVerse
      <3>6. stack[i].opener = 1
        BY <1>0, <3>5 DEF Stacked, PageOK
      <3>7. i # n /\ i # n - 1
        BY <1>1, <1>5, <3>1, <3>5, <3>6
      <3>8. i \in 1..(n - 2) /\ i \in 1..Len(stack')
        BY <1>0, <1>7, <3>7
      <3> QED
        BY <1>7, <3>5, <3>8 DEF HasVerse
    <2> QED
      BY <2>1, <2>2, LoadingIsNext
  <1> QED
    BY <1>8, <1>9, <1>10, <1>11, <1>12, <1>13, TypedIsNext DEF IInv

\* Every step of the reading flow keeps the invariant.
LEMMA HomeStep == ASSUME IInv, [Next]_vars PROVE IInv'
  <1>1. CASE UNCHANGED vars
    <2>0. Typed
      BY DEF IInv
    <2>1. UNCHANGED <<stack, isLoading, fetch, userData, fetched, outputDataFuture, explain,
                      session, threw, chosen, spinner, lost>>
      BY <1>1 DEF vars, cover
    <2>2. /\ userData' \in {"sent", "done"} /\ session' \in {"in", "ending", "out"}
          /\ explain' \in [1..MaxFetch -> {"none", "pending", "ok", "short", "error"}]
      BY <2>0, <2>1 DEF Typed
    <2> QED
      BY <2>1, <2>2, QuietStep
  <1>2. CASE Next
    BY <1>2, OpenBibleStep, FetchOkStep, FetchFailedStep, FetchThrewStep, UserDataStep,
       ExplainOkStep, ExplainFailedStep, ExplainThrewStep, OpenReadingStep, OpenChatStep,
       OpenMenuStep, BackStep, CloseProfileStep, LogOutStep, SignedOutStep,
       ThemeAnsweredStep, ThemeQuietStep DEF Next
  <1> QED
    BY <1>1, <1>2

\* The app starts with the Cover.
LEMMA InitIInv == ASSUME Init PROVE IInv
  <1>1. /\ stack = <<CoverPage>> /\ fetch = "idle" /\ userData = "sent" /\ fetched = 0
        /\ outputDataFuture = 0 /\ explain = [k \in 1..MaxFetch |-> "none"]
        /\ session = "in" /\ chosen = NoTheme
    BY DEF Init
  <1>2. /\ CoverPage \in PageSet /\ CoverPage.name = "Cover" /\ CoverPage.opener = 0
        /\ CoverPage.fut = 0
    BY DEF CoverPage, Page, PageSet, PageNames, HomePages, Shown
  <1>3. stack \in Seq(PageSet) /\ Len(stack) = 1 /\ stack[1] = CoverPage
    BY <1>1, <1>2
  <1>4. Typed
    BY <1>1, <1>2, <1>3, FetchAssumption DEF Typed
  <1>5. Stacked
    BY <1>1, <1>2, <1>3 DEF Stacked, PageOK, Broken, Before
  <1>6. Chosen
    BY <1>1 DEF Chosen
  <1>7. Flags
    BY Zenon DEF Init, Flags
  <1>8. Loading
    BY <1>1 DEF Init, Loading
  <1> QED
    BY <1>4, <1>5, <1>6, <1>7, <1>8 DEF IInv

-----------------------------------------------------------------------------
(* What follows *)

\* The invariant holds in every state.
THEOREM Inductive == Spec => []IInv
  BY InitIInv, HomeStep, PTL DEF Spec

\* Theme updates under way.
PutsTyped == themePuts \in 0..MaxPuts

\* An update is counted from Confirm to its end.
LEMMA PutsStep == ASSUME PutsTyped, [Next]_vars PROVE PutsTyped'
  <1> USE DEF PutsTyped
  <1>0. MaxPuts \in Nat /\ themePuts \in Nat /\ themePuts <= MaxPuts
    BY PutsAssumption
  <1>1. CASE ConfirmTheme \/ ThemeUnanswered \/ (\E v \in Themes : ThemeAnswered(v))
    BY <1>0, <1>1 DEF ConfirmTheme, ThemeUnanswered, ThemeAnswered
  <1>2. CASE themePuts' = themePuts
    BY <1>2
  <1>3. CASE \/ OpenBible \/ FetchOk \/ FetchFailed \/ FetchThrew \/ OpenChat \/ OpenMenu
             \/ Back \/ LogOut \/ SignedOut \/ UNCHANGED vars
    BY <1>2, <1>3 DEF OpenBible, FetchOk, FetchFailed, FetchThrew, OpenChat, OpenMenu, Push,
                      Back, LogOut, SignedOut, vars
  <1>4. ASSUME NEW d \in BOOLEAN, OpenExplain(d) \/ OpenGuidance(d) \/ OpenQuery(d)
        PROVE  PutsTyped'
    BY <1>2, <1>4 DEF OpenExplain, OpenGuidance, OpenQuery, Push
  <1>5. ASSUME NEW k \in 1..MaxFetch,
               \/ \E p \in {"ok", "short"} : ExplainOk(k, p)
               \/ ExplainFailed(k) \/ ExplainThrew(k)
        PROVE  PutsTyped'
    BY <1>2, <1>5 DEF ExplainOk, ExplainFailed, ExplainThrew
  <1>6. ASSUME NEW t \in Themes \union {NoTheme}, UserDataArrives(t) PROVE PutsTyped'
    BY <1>2, <1>6 DEF UserDataArrives
  <1>7. ASSUME NEW t \in Themes, CloseProfile(t) PROVE PutsTyped'
    BY <1>2, <1>7 DEF CloseProfile
  <1> QED
    BY <1>1, <1>3, <1>4, <1>5, <1>6, <1>7 DEF Next

\* The pages and the Cover's fields have their types, through every pop and resumption.
LEMMA TypeOKHolds == ASSUME IInv, PutsTyped PROVE TypeOK
  <1>0. Typed /\ Flags
    BY DEF IInv
  <1>1. ASSUME NEW i \in DOMAIN stack
        PROVE  /\ stack[i].name \in PageNames /\ stack[i].theme \in Shown
               /\ stack[i].opener \in 0..(i - 1) /\ stack[i].fut \in 0..fetched
    <2>1. /\ i \in 1..Len(stack) /\ i \in Nat /\ fetched \in Nat
          /\ stack[i] \in PageSet /\ stack[i].opener < i /\ stack[i].fut <= fetched
      BY <1>0 DEF Typed
    <2>2. /\ stack[i].name \in PageNames /\ stack[i].theme \in Shown
          /\ stack[i].opener \in Nat /\ stack[i].fut \in Nat
      BY <2>1 DEF PageSet
    <2> QED
      BY <2>1, <2>2
  <1>2. isLoading \in BOOLEAN /\ spinner \in BOOLEAN
    BY <1>0, Zenon DEF Flags
  <1>3. /\ fetch \in {"idle", "sent"} /\ userData \in {"sent", "done"}
        /\ fetched \in 0..MaxFetch /\ outputDataFuture \in 0..fetched
        /\ explain \in [1..MaxFetch -> {"none", "pending", "ok", "short", "error"}]
        /\ session \in {"in", "ending", "out"}
        /\ chosen \in Themes \union {NoTheme}
    BY <1>0, FetchAssumption DEF Typed
  <1> QED
    BY <1>1, <1>2, <1>3 DEF TypeOK, PutsTyped

\* Types of the reading flow, for every number of verses.
THEOREM TypeCorrect == Spec => []TypeOK
  <1>1. Init => PutsTyped
    BY PutsAssumption DEF Init, PutsTyped
  <1>2. PutsTyped /\ [Next]_vars => PutsTyped'
    BY PutsStep
  <1>3. IInv /\ PutsTyped => TypeOK
    BY TypeOKHolds
  <1> QED
    BY Inductive, <1>1, <1>2, <1>3, PTL DEF Spec

\* A late verse, which handleGesture pushes over any page, never doubles the reading pages.
THEOREM ReadingIsOne == Spec => []OneReading
  <1>1. ASSUME IInv PROVE OneReading
    <2> DEFINE verses == {i \in DOMAIN stack : stack[i].name = "Verse"}
    <2>0. /\ Typed /\ Stacked /\ DOMAIN stack = 1..Len(stack) /\ Len(stack) \in Nat
      BY <1>1 DEF IInv, Typed
    <2>1. ASSUME NEW i \in verses, NEW j \in verses PROVE i = j
      <3>1. ASSUME NEW v \in verses
            PROVE  /\ v > 1 /\ v \in Nat /\ stack[v].name \in HomePages
                   /\ \A m \in 2..(v - 1) : stack[m].name \notin HomePages
        <4>1. v \in 1..Len(stack) /\ stack[v].name = "Verse"
          BY <2>0
        <4>2. PageOK(stack, v)
          BY <2>0, <4>1 DEF Stacked
        <4> QED
          BY <4>1, <4>2 DEF PageOK, HomePages
      <3> HIDE DEF verses
      <3>2. i \notin 2..(j - 1) /\ j \notin 2..(i - 1)
        BY <3>1
      <3>3. i > 1 /\ i \in Nat /\ j > 1 /\ j \in Nat
        BY <3>1
      <3> QED
        BY <3>2, <3>3
    <2>2. fetch = "sent" => verses = {}
      BY <2>0 DEF Stacked
    <2>3. Cardinality(verses) <= (IF fetch = "sent" THEN 0 ELSE 1)
      <3>1. CASE verses = {}
        BY <3>1, FS_EmptySet
      <3>2. CASE verses # {}
        <4>1. PICK v : v \in verses
          BY <3>2
        <4>2. verses = {v}
          BY <2>1, <4>1
        <4>3. Cardinality({v}) = 1
          BY FS_Singleton
        <4> QED
          BY <2>2, <3>2, <4>2, <4>3
      <3> QED
        BY <3>1, <3>2
    <2>4. \A i \in DOMAIN stack : stack[i].name \in DOMAIN Before =>
             i > 1 /\ stack[i - 1].name = Before[stack[i].name]
      BY <2>0 DEF Stacked, PageOK
    <2> HIDE DEF verses
    <2> QED
      BY <2>3, <2>4 DEF OneReading, Before, verses
  <1> QED
    BY Inductive, <1>1, PTL

\* The theme the user came back with from the profile is the theme of the home page on top.
THEOREM ThemeStays == Spec => []ThemeSticks
  <1>1. ASSUME IInv PROVE ThemeSticks
    BY <1>1, TopCurrent DEF IInv, ThemeSticks
  <1> QED
    BY Inductive, <1>1, PTL

\* The Bible can be tapped again whenever the Cover is back on top and nothing failed.
THEOREM CoverIsUsable == Spec => []CoverUsable
  <1>1. ASSUME IInv PROVE CoverUsable
    <2> SUFFICES ASSUME OnTop({"Cover"}), fetch = "idle", ~threw, ~lost, spinner PROVE FALSE
      BY Zenon DEF CoverUsable
    <2>0. Typed /\ Stacked /\ (Stuck => HasVerse) /\ Len(stack) \in Nat
      BY <1>1, LoadingIs DEF IInv, Typed
    <2>1. Len(stack) \in 1..Len(stack) /\ stack[Len(stack)].name = "Cover"
      BY <2>0 DEF OnTop, Top, Typed
    <2>2. Len(stack) = 1
      BY <2>0, <2>1 DEF Stacked, PageOK
    <2>3. CoverMounted
      BY <2>1, <2>2 DEF CoverMounted, OnTop
    <2>4. HasVerse
      BY <2>0, <2>3 DEF Stuck
    <2> QED
      BY <2>1, <2>2, <2>4 DEF HasVerse
  <1> QED
    BY Inductive, <1>1, PTL

\* Flutter's error page appears before the first verse only.
THEOREM BrokenFirst == Spec => []BrokenOnlyFirst
  <1>1. ASSUME IInv PROVE BrokenOnlyFirst
    BY <1>1 DEF IInv, Typed, Stacked, BrokenOnlyFirst
  <1> QED
    BY Inductive, <1>1, PTL

\* No page but the Cover is the last one: the others return to a page below them.
LEMMA NotLast ==
    ASSUME IInv, stack # <<>>, Top.name \in (HomePages \ {"Cover"}) \union {"Profile"}
    PROVE  Len(stack) > 1
  <1>1. Len(stack) \in 1..Len(stack) /\ Stacked
    BY DEF IInv, Typed
  <1>2. PageOK(stack, Len(stack))
    BY <1>1 DEF Stacked
  <1>3. Top.name \in {"Verse", "Profile"} \/ Top.name \in DOMAIN Before
    BY DEF HomePages, Before
  <1> QED
    BY <1>2, <1>3 DEF PageOK, Top

\* What may close the last page.
LEMMA EmptiedStep ==
    ASSUME IInv, Next, stack # <<>>, stack' = <<>>
    PROVE  \/ \E k \in 1..MaxFetch : explain[k] = "pending" /\ explain'[k] = "short"
           \/ \E v \in Themes : ThemeAnswered(v)
  <1>0. Typed /\ stack \in Seq(PageSet) /\ Len(stack) \in Nat \ {0}
    BY DEF IInv, Typed
  <1>a. ASSUME stack' = stack PROVE FALSE
    BY <1>a
  <1>b. ASSUME NEW s \in Seq(PageSet), NEW p, stack' = Append(s, p) PROVE FALSE
    <2>1. Len(Append(s, p)) = Len(s) + 1 /\ Len(s) \in Nat
      OBVIOUS
    <2> QED
      BY <1>b, <2>1
  <1>c. ASSUME Len(stack) > 1, NEW x \in Shown \union {NoTheme}, PopTop(x) PROVE FALSE
    <2>1. Len(stack') = Len(stack) - 1
      BY <1>0, <1>c, PopIs DEF Popped
    <2>2. Len(stack') = 0
      OBVIOUS
    <2>3. Len(stack) - 1 = 0
      BY <2>1, <2>2
    <2>4. Len(stack) \in Nat
      BY <1>0
    <2> QED
      BY <1>c, <2>3, <2>4
  <1>1. ASSUME NEW k \in 1..MaxFetch, ExplainFailed(k)
        PROVE  explain[k] = "pending" /\ explain'[k] = "short"
    BY <1>0, <1>1 DEF ExplainFailed, Typed
  <1>2. CASE FetchOk \/ FetchFailed
    BY <1>0, <1>2, <1>b DEF FetchOk, FetchFailed, PushVerse
  <1>3. ASSUME NEW d \in BOOLEAN, OpenExplain(d) \/ OpenGuidance(d) \/ OpenQuery(d) PROVE FALSE
    <2>1. Moved(d) \in Seq(PageSet)
      BY <1>0, MovedIs
    <2> QED
      BY <1>3, <1>b, <2>1 DEF OpenExplain, OpenGuidance, OpenQuery, Push
  <1>4. CASE OpenChat \/ OpenMenu
    BY <1>0, <1>4, <1>b DEF OpenChat, OpenMenu, Push
  <1>5. CASE Back
    <2>1. CASE OnTop(HomePages \ {"Cover"}) /\ PopTop(IF Broken(Top) THEN NoTheme ELSE Top.theme)
      <3>1. Len(stack) > 1
        BY <2>1, NotLast DEF OnTop
      <3>2. Top.theme \in Shown
        BY TopIs DEF PageSet
      <3> QED
        BY <1>c, <2>1, <3>1, <3>2
    <2>2. CASE Len(stack) > 1 /\ PopTop(NoTheme)
      BY <1>c, <2>2
    <2> QED
      BY <1>5, <2>1, <2>2 DEF Back
  <1>6. ASSUME NEW t \in Themes, CloseProfile(t) PROVE FALSE
    <2>1. Len(stack) > 1 /\ PopTop(t) /\ t \in Shown
      BY <1>6, NotLast DEF CloseProfile, OnTop, Shown
    <2> QED
      BY <1>c, <2>1
  <1>7. CASE LogOut
    <2>1. Len(stack) > 1
      BY <1>7, NotLast DEF LogOut, OnTop
    <2>2. Front(stack) \in Seq(PageSet) /\ Len(Front(stack)) = Len(stack) - 1
      BY <1>0, FrontIs
    <2>3. Front(stack) # <<>>
      BY <1>0, <2>1, <2>2
    <2>4. Front(Front(stack)) \in Seq(PageSet)
      BY <2>2, <2>3, FrontIs
    <2> QED
      BY <1>7, <1>b, <2>4 DEF LogOut
  <1>8. CASE \/ OpenBible \/ FetchThrew \/ SignedOut \/ ConfirmTheme \/ ThemeUnanswered
             \/ \E k \in 1..MaxFetch, p \in {"ok", "short"} : ExplainOk(k, p)
             \/ \E k \in 1..MaxFetch : ExplainThrew(k)
    BY <1>8, <1>a DEF OpenBible, FetchThrew, SignedOut, ConfirmTheme, ThemeUnanswered,
                      ExplainOk, ExplainThrew
  <1>9. ASSUME NEW t \in Themes \union {NoTheme}, UserDataArrives(t) PROVE FALSE
    <2>1. stack' = stack \/ stack' = [stack EXCEPT ![1].theme = t]
      BY <1>9 DEF UserDataArrives
    <2>2. ASSUME stack' = [stack EXCEPT ![1].theme = t] PROVE FALSE
      <3>1. DOMAIN stack' = DOMAIN stack
        BY <2>2
      <3> QED
        BY <1>0, <3>1
    <2> QED
      BY <1>a, <2>1, <2>2
  <1> QED
    BY <1>1, <1>2, <1>3, <1>4, <1>5, <1>6, <1>7, <1>8, <1>9 DEF Next

\* The pop() of a failed generateOutput and the one of confirm() are the only ones that can
\* leave the app without a page.
THEOREM OnlyBlindPopsEmpty == Spec => EmptiedByBlindPop
  <1>1. ASSUME NEW v \in Themes, PutsTyped, ThemeAnswered(v) PROVE themePuts' < themePuts
    BY <1>1, PutsAssumption DEF PutsTyped, ThemeAnswered
  <1>2. ASSUME IInv, PutsTyped, [Next]_vars
        PROVE  [stack # <<>> /\ stack' = <<>> =>
                   \/ \E k \in 1..MaxFetch : explain[k] = "pending" /\ explain'[k] = "short"
                   \/ themePuts' < themePuts]_vars
    BY <1>1, <1>2, EmptiedStep
  <1>3. Init => PutsTyped
    BY PutsAssumption DEF Init, PutsTyped
  <1>4. PutsTyped /\ [Next]_vars => PutsTyped'
    BY PutsStep
  <1> QED
    BY Inductive, <1>2, <1>3, <1>4, PTL DEF Spec, EmptiedByBlindPop
=============================================================================
