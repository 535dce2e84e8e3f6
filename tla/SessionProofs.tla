--------------------------- MODULE SessionProofs ---------------------------
(***************************************************************************)
(* Proofs about signing in and out, for any number of calls in flight and  *)
(* any depth of the stack.                                                 *)
(*                                                                         *)
(* The properties look at the page on top.  What keeps them true while no  *)
(* continuation meets a page that is not its own is the shape of the stack *)
(* (Placed): above a Cover there are pages of the profile only, so that a  *)
(* form or VerifyEmailPage on top means there is no Cover below but those  *)
(* that log-outs have left.  A call        *)
(* knows where its page is, and it is a page of its kind (Owned); a        *)
(* loading circle is directly above the page of a call that opened one     *)
(* (Circled).  An e-mail account without a record is still on              *)
(* VerifyEmailPage, a Google account without one has a call that looks     *)
(* after it, and no Cover opens before that call is done.                  *)
(***************************************************************************)
EXTENDS Session, FiniteSetTheorems, SequenceTheorems, TLAPS

CallSet == [await : Awaits \union {"none"}, page : Nat, live : BOOLEAN]

StackTyped ==
    /\ stack \in Seq(PageNames) /\ calls \in [Calls -> CallSet]
    /\ \A c \in Calls : calls[c].page <= Len(stack)

Fields == user \in {"none"} \union Accounts /\ record \subseteq Accounts /\ signOuts \in 0..2
Flags == verified \in BOOLEAN /\ registered \in BOOLEAN /\ confirmed \in BOOLEAN

Users ==
    /\ user = "none" => ~verified
    /\ user = "google" => verified
    /\ user = "email" => registered

Forms == {LoginWidget, SignUpWidget}
CoverPages == {"Starting", "Cover"}
MenuPages == {"Cover", "OldCover"}   \* the pages whose menu opens the profile
Inner == {"Profile", ForgotPasswordPage, EmailSentPage, "Dialog"}
Asks == {"signIn", "signUp", "reset"}
Looks == {"check", "createGoogle"}

Placed ==
    \A i \in 1..Len(stack) :
        /\ stack[i] \in CoverPages => \A j \in (i + 1)..Len(stack) : stack[j] \in Inner
        /\ stack[i] = "Cover" => verified
        /\ stack[i] = "Profile" => i > 1 /\ stack[i - 1] \in MenuPages
        /\ stack[i] = "Verify" => i = Len(stack) /\ user = "email"

\* The pages on which a call that awaits this was made.
PagesOf == [init |-> Forms, signIn |-> {LoginWidget}, signUp |-> {SignUpWidget},
            methods |-> {SignUpWidget}, reset |-> {ForgotPasswordPage}, google |-> Forms,
            check |-> Forms, createGoogle |-> Forms, createEmail |-> {"Verify"}]

CallOK(c) ==
    calls[c].page # 0 =>
        /\ calls[c].await \in Awaits /\ stack[calls[c].page] \in PagesOf[calls[c].await]
        /\ ByGoogle(c) \/ calls[c].live

Owned == \A c \in Calls : CallOK(c)

EmailRecorded == registered /\ ~missed /\ "email" \notin record => OnTop({"Verify"})

GoogleRecorded ==
    user = "google" /\ ~missed /\ "google" \notin record =>
        /\ \E c \in Calls : calls[c].await \in Looks
        /\ \A i \in 1..Len(stack) : stack[i] \notin CoverPages

Circled ==
    ~threw => \A i \in 1..Len(stack) : stack[i] = "Dialog" =>
                 \E c \in Calls : calls[c].await \in Asks /\ i > 1 /\ calls[c].page = i - 1

Good == Placed /\ Owned /\ EmailRecorded /\ GoogleRecorded /\ Circled

IInv == StackTyped /\ Fields /\ Flags /\ Users /\ (~raced => Good)

-----------------------------------------------------------------------------
(* The Navigator *)

\* m pages stay, and one page at most opens above them.
Shape(m) ==
    /\ m \in 0..Len(stack) /\ Len(stack') \in {m, m + 1}
    /\ \A i \in 1..m : stack'[i] = stack[i]

\* Call c goes on; its page is one of the m that stay, or has left.
Same(c, m) ==
    /\ calls'[c].await = calls[c].await
    /\ calls'[c].page = IF calls[c].page > m THEN 0 ELSE calls[c].page
    /\ calls[c].live /\ calls'[c].page # 0 => calls'[c].live \/ ByGoogle(c)

\* The pages r are those that k pops leave, with p above them unless new is empty.
IsAfter(r, k, p, new) ==
    /\ Left(k) \in 0..Len(stack) /\ Len(stack) \in Nat
    /\ r \in Seq(PageNames) /\ Len(r) \in {Left(k), Left(k) + 1}
    /\ \A i \in 1..Left(k) : r[i] = stack[i]
    /\ new = <<>> => Len(r) = Left(k)
    /\ new = <<p>> /\ Len(stack) >= k => Len(r) = Left(k) + 1 /\ r[Left(k) + 1] = p
    /\ Len(stack) < k => Len(r) = Left(k)

\* The sequences that pop() and pushReplacement make.
LEMMA AfterIs ==
    ASSUME stack \in Seq(PageNames), NEW k \in 0..2, NEW p \in PageNames,
           NEW new \in {<<>>, <<p>>}, NEW r, r = After(k, new)
    PROVE  IsAfter(r, k, p, new)
  <1>1. Len(stack) \in Nat
    OBVIOUS
  <1>2. PICK m : m = Left(k)
    OBVIOUS
  <1>3. m \in 0..Len(stack)
    BY <1>1, <1>2 DEF Left
  <1> DEFINE s == SubSeq(stack, 1, m)
             t == IF Len(stack) >= k THEN new ELSE <<>>
  <1>4. s \in Seq(PageNames) /\ Len(s) = m /\ \A i \in 1..m : s[i] = stack[i]
    <2>1. \A i \in 1..m : stack[i] \in PageNames
      BY <1>1, <1>3
    <2>2. s = [i \in 1..m |-> stack[i]]
      BY <1>1, <1>3
    <2>3. m \in Nat
      BY <1>1, <1>3
    <2>4. s \in [1..m -> PageNames] /\ \A i \in 1..m : s[i] = stack[i]
      BY <2>1, <2>2
    <2> HIDE DEF s
    <2> QED
      BY <2>3, <2>4
  <1>5. r = s \o t
    BY <1>2 DEF After
  <1>6. t \in {<<>>, <<p>>}
    OBVIOUS
  <1> HIDE DEF s
  <1>7. CASE t = <<>>
    <2>1. r = s
      BY <1>4, <1>5, <1>7
    <2>2. new = <<p>> /\ Len(stack) >= k => FALSE
      BY <1>7
    <2> QED
      BY <1>1, <1>2, <1>3, <1>4, <2>1, <2>2 DEF IsAfter
  <1>8. CASE t = <<p>>
    <2>0. <<p>> \in Seq(PageNames) /\ Len(<<p>>) = 1 /\ <<p>>[1] = p
      OBVIOUS
    <2>1. t \in Seq(PageNames) /\ Len(t) = 1 /\ t[1] = p
      BY <1>8, <2>0, Zenon
    <2>2. new = <<p>> /\ ~(Len(stack) < k)
      BY <1>1, <1>8
    <2> HIDE DEF t
    <2>3. r \in Seq(PageNames) /\ Len(r) = m + 1 /\ r[m + 1] = p /\ \A i \in 1..m : r[i] = s[i]
      <3>1. /\ r \in Seq(PageNames) /\ Len(r) = Len(s) + Len(t)
            /\ \A i \in 1..(Len(s) + Len(t)) :
                  r[i] = IF i <= Len(s) THEN s[i] ELSE t[i - Len(s)]
        <4>1. /\ s \o t \in Seq(PageNames) /\ Len(s \o t) = Len(s) + Len(t)
              /\ \A i \in 1..(Len(s) + Len(t)) :
                    (s \o t)[i] = IF i <= Len(s) THEN s[i] ELSE t[i - Len(s)]
          BY <1>4, <2>1, ConcatProperties, Zenon
        <4> QED
          BY <1>5, <4>1, Zenon
      <3>2. m \in Nat /\ Len(s) = m /\ Len(t) = 1
        BY <1>1, <1>3, <1>4, <2>1
      <3>3. r[m + 1] = t[(m + 1) - m]
        BY <3>1, <3>2
      <3>4. (m + 1) - m = 1
        BY <3>2
      <3>5. \A i \in 1..m : r[i] = s[i]
        BY <3>1, <3>2
      <3> QED
        BY <2>1, <3>1, <3>2, <3>3, <3>4, <3>5
    <2>4. new # <<>>
      BY <2>2
    <2> QED
      BY <1>1, <1>2, <1>3, <1>4, <2>2, <2>3, <2>4 DEF IsAfter
  <1> QED
    BY <1>6, <1>7, <1>8

\* The calls whose pages leave.
LEMMA KeptIs ==
    ASSUME stack \in Seq(PageNames), NEW k \in 0..2, NEW cs \in [Calls -> CallSet]
    PROVE  /\ Kept(cs, k) \in [Calls -> CallSet]
           /\ \A c \in Calls : /\ Kept(cs, k)[c].await = cs[c].await
                               /\ Kept(cs, k)[c].live = cs[c].live
                               /\ Kept(cs, k)[c].page = IF cs[c].page > Left(k) THEN 0
                                                        ELSE cs[c].page
                               /\ Kept(cs, k)[c].page <= Left(k)
  <1>1. Left(k) \in Nat
    BY DEF Left
  <1>2. ASSUME NEW c \in Calls
        PROVE  LET x == IF cs[c].page > Left(k) THEN [cs[c] EXCEPT !.page = 0] ELSE cs[c]
               IN  /\ x \in CallSet /\ x.await = cs[c].await /\ x.live = cs[c].live
                   /\ x.page = IF cs[c].page > Left(k) THEN 0 ELSE cs[c].page
                   /\ x.page <= Left(k)
    <2>1. cs[c] \in CallSet
      OBVIOUS
    <2> QED
      BY <1>1, <2>1 DEF CallSet
  <1> QED
    BY <1>2 DEF Kept

\* m pages stay, p opens unless new is empty, and the calls are cs but for the pages that left.
IsShown(cs, m, k, p, new) ==
    /\ StackTyped' /\ Shape(m) /\ Len(stack) \in Nat /\ m \in 0..Len(stack)
    /\ \A c \in Calls : /\ calls'[c].await = cs[c].await /\ calls'[c].live = cs[c].live
                        /\ calls'[c].page = IF cs[c].page > m THEN 0 ELSE cs[c].page
    /\ new = <<>> => Len(stack') = m
    /\ new = <<p>> /\ Len(stack) >= k => Len(stack') = m + 1 /\ stack'[m + 1] = p
    /\ Len(stack) < k => Len(stack') = m

\* What Show does.
LEMMA ShowIs ==
    ASSUME StackTyped, NEW k \in 0..2, NEW p \in PageNames, NEW new \in {<<>>, <<p>>},
           NEW cs \in [Calls -> CallSet], Show(cs, k, new), NEW m, m = Left(k)
    PROVE  IsShown(cs, m, k, p, new)
  <1>0. stack \in Seq(PageNames) /\ stack' = After(k, new) /\ calls' = Kept(cs, k)
    BY DEF StackTyped, Show
  <1>1. /\ Left(k) \in 0..Len(stack) /\ Len(stack) \in Nat
        /\ stack' \in Seq(PageNames) /\ Len(stack') \in {Left(k), Left(k) + 1}
        /\ \A i \in 1..Left(k) : stack'[i] = stack[i]
        /\ new = <<>> => Len(stack') = Left(k)
        /\ new = <<p>> /\ Len(stack) >= k => Len(stack') = Left(k) + 1 /\ stack'[Left(k) + 1] = p
        /\ Len(stack) < k => Len(stack') = Left(k)
    <2>1. PICK r : r = stack'
      OBVIOUS
    <2>2. r = After(k, new)
      BY <1>0, <2>1
    <2>3. IsAfter(r, k, p, new)
      BY <1>0, <2>2, AfterIs
    <2> QED
      BY <2>1, <2>3 DEF IsAfter
  <1>2. /\ calls' \in [Calls -> CallSet]
        /\ \A c \in Calls : /\ calls'[c].await = cs[c].await /\ calls'[c].live = cs[c].live
                            /\ calls'[c].page = IF cs[c].page > Left(k) THEN 0 ELSE cs[c].page
                            /\ calls'[c].page <= Left(k)
    BY <1>0, KeptIs
  <1>3. \A c \in Calls : calls'[c].page \in Nat
    BY <1>2 DEF CallSet
  <1>4. \A c \in Calls : calls'[c].page <= Len(stack')
    BY <1>1, <1>2, <1>3
  <1>5. StackTyped'
    BY <1>1, <1>2, <1>4 DEF StackTyped
  <1> QED
    BY <1>1, <1>2, <1>5 DEF Shape, IsShown

-----------------------------------------------------------------------------
(* The parts of the invariant *)

\* A page that is neither a Cover's nor the profile's has no Cover below it.
LEMMA NoCover ==
    ASSUME StackTyped, Placed, NEW j \in 1..Len(stack), stack[j] \notin Inner
    PROVE  \A i \in 1..(j - 1) : stack[i] \notin CoverPages
  <1> SUFFICES ASSUME NEW i \in 1..(j - 1), stack[i] \in CoverPages PROVE FALSE
    OBVIOUS
  <1>1. Len(stack) \in Nat
    BY DEF StackTyped
  <1>2. i \in 1..Len(stack) /\ j \in (i + 1)..Len(stack)
    BY <1>1
  <1> QED
    BY <1>2 DEF Placed

\* The pages that stay keep their places, and the new one has its own.
LEMMA PlacedStep ==
    ASSUME StackTyped, Placed, NEW m, Shape(m),
           \A i \in 1..m : stack[i] = "Cover" => verified',
           \A i \in 1..m : stack[i] = "Verify" => i = Len(stack') /\ user' = "email",
           Len(stack') = m + 1 =>
               /\ stack'[m + 1] \in Inner \/ \A i \in 1..m : stack[i] \notin CoverPages
               /\ stack'[m + 1] # "Cover"
               /\ stack'[m + 1] = "Profile" => m > 0 /\ stack[m] \in MenuPages
               /\ stack'[m + 1] = "Verify" => user' = "email"
    PROVE  Placed'
  <1>0. Len(stack) \in Nat /\ m \in Nat /\ m <= Len(stack) /\ Len(stack') \in {m, m + 1}
    BY DEF StackTyped, Shape
  <1>1. ASSUME NEW i \in 1..m
        PROVE  i \in 1..Len(stack) /\ stack'[i] = stack[i]
    BY <1>0 DEF Shape
  <1> SUFFICES ASSUME NEW i \in 1..Len(stack')
               PROVE  /\ stack'[i] \in CoverPages =>
                             \A j \in (i + 1)..Len(stack') : stack'[j] \in Inner
                      /\ stack'[i] = "Cover" => verified'
                      /\ stack'[i] = "Profile" => i > 1 /\ stack'[i - 1] \in MenuPages
                      /\ stack'[i] = "Verify" => i = Len(stack') /\ user' = "email"
    BY DEF Placed
  <1>2. CASE i \in 1..m
    <2>1. i \in 1..Len(stack) /\ stack'[i] = stack[i]
      BY <1>1, <1>2
    <2>2. ASSUME stack[i] \in CoverPages, NEW j \in (i + 1)..Len(stack') PROVE stack'[j] \in Inner
      <3>1. CASE j \in 1..m
        <4>1. stack'[j] = stack[j] /\ j \in (i + 1)..Len(stack)
          BY <1>0, <1>1, <3>1
        <4> QED
          BY <2>1, <2>2, <4>1 DEF Placed
      <3>2. CASE j = m + 1 /\ Len(stack') = m + 1
        BY <1>2, <2>2, <3>2
      <3> QED
        BY <1>0, <1>2, <3>1, <3>2
    <2>3. ASSUME stack[i] = "Profile" PROVE i > 1 /\ stack'[i - 1] \in MenuPages
      <3>1. i > 1 /\ stack[i - 1] \in MenuPages
        BY <2>1, <2>3 DEF Placed
      <3>2. i - 1 \in 1..m
        BY <1>0, <1>2, <3>1
      <3> QED
        BY <1>1, <3>1, <3>2
    <2> QED
      BY <1>2, <2>1, <2>2, <2>3
  <1>3. CASE i = m + 1 /\ Len(stack') = m + 1
    <2>1. \A j \in (i + 1)..Len(stack') : FALSE
      BY <1>0, <1>3
    <2>2. ASSUME stack'[i] = "Profile" PROVE i > 1 /\ stack'[i - 1] \in MenuPages
      <3>1. m > 0 /\ stack[m] \in MenuPages /\ i - 1 = m /\ m \in 1..m
        BY <1>0, <1>3, <2>2
      <3> QED
        BY <1>0, <1>1, <1>3, <3>1
    <2> QED
      BY <1>3, <2>1, <2>2
  <1> QED
    BY <1>0, <1>2, <1>3

\* Every call has a page of its kind, or none.
LEMMA OwnedStep ==
    ASSUME StackTyped, StackTyped', Owned, NEW m, Shape(m),
           \A c \in Calls : calls'[c].page = 0 \/ Same(c, m) \/ CallOK(c)'
    PROVE  Owned'
  <1> SUFFICES ASSUME NEW c \in Calls, Same(c, m), calls'[c].page # 0 PROVE CallOK(c)'
    BY DEF Owned, CallOK
  <1>0. /\ calls[c] \in CallSet /\ m \in Nat
        /\ calls'[c].await = calls[c].await
        /\ calls'[c].page = IF calls[c].page > m THEN 0 ELSE calls[c].page
    BY DEF StackTyped, Same, Shape
  <1>1. calls'[c].page = calls[c].page /\ calls[c].page \in 1..m
    BY <1>0 DEF CallSet
  <1>2. stack'[calls'[c].page] = stack[calls[c].page]
    BY <1>1 DEF Shape
  <1>3. /\ calls[c].await \in Awaits /\ stack[calls[c].page] \in PagesOf[calls[c].await]
        /\ ByGoogle(c) \/ calls[c].live
    BY <1>1 DEF Owned, CallOK
  <1>4. ByGoogle(c)' <=> ByGoogle(c)
    BY <1>0 DEF ByGoogle
  <1>5. ByGoogle(c)' \/ calls'[c].live
    BY <1>3, <1>4 DEF Same
  <1> QED
    BY <1>0, <1>2, <1>3, <1>5 DEF CallOK

\* A circle that stays has its call, and a new one gets it.
LEMMA CircledStep ==
    ASSUME StackTyped, Circled, NEW m, Shape(m), ~threw' => ~threw,
           \A c \in Calls : calls[c].await \in Asks => Same(c, m) \/ calls[c].page >= m \/ threw',
           Len(stack') = m + 1 /\ stack'[m + 1] = "Dialog" =>
               m > 0 /\ \E c \in Calls : calls'[c].await \in Asks /\ calls'[c].page = m
    PROVE  Circled'
  <1>0. Len(stack) \in Nat /\ m \in Nat /\ m <= Len(stack) /\ Len(stack') \in {m, m + 1}
    BY DEF StackTyped, Shape
  <1> SUFFICES ASSUME ~threw', NEW i \in 1..Len(stack'), stack'[i] = "Dialog"
               PROVE  \E c \in Calls : calls'[c].await \in Asks /\ i > 1 /\ calls'[c].page = i - 1
    BY DEF Circled
  <1>1. CASE i \in 1..m
    <2>1. i \in 1..Len(stack) /\ stack[i] = "Dialog"
      BY <1>0, <1>1 DEF Shape
    <2>2. PICK c \in Calls : calls[c].await \in Asks /\ i > 1 /\ calls[c].page = i - 1
      BY <2>1 DEF Circled
    <2>3. ~(calls[c].page >= m) /\ ~(calls[c].page > m)
      BY <1>0, <1>1, <2>2
    <2>4. Same(c, m)
      BY <2>2, <2>3
    <2>5. calls'[c].await \in Asks /\ calls'[c].page = i - 1
      BY <2>2, <2>3, <2>4 DEF Same
    <2> QED
      BY <2>2, <2>5
  <1>2. CASE i = m + 1 /\ Len(stack') = m + 1
    <2>1. m > 0 /\ \E c \in Calls : calls'[c].await \in Asks /\ calls'[c].page = m
      BY <1>2
    <2>2. i > 1 /\ m = i - 1
      BY <1>0, <1>2, <2>1
    <2> QED
      BY <2>1, <2>2
  <1> QED
    BY <1>0, <1>1, <1>2

\* The call that looks after the record stays, and no Cover opens.
LEMMA GoogleStep ==
    ASSUME StackTyped, GoogleRecorded, NEW m, Shape(m), user' = "google" => user = "google",
           ~missed' => ~missed, record \subseteq record',
           \A c \in Calls : calls[c].await \in Looks =>
                               calls'[c].await \in Looks \/ missed' \/ "google" \in record',
           Len(stack') = m + 1 /\ stack'[m + 1] \in CoverPages =>
               user' # "google" \/ missed' \/ "google" \in record'
                   \/ \A c \in Calls : calls[c].await \notin Looks
    PROVE  GoogleRecorded'
  <1> SUFFICES ASSUME user' = "google", ~missed', "google" \notin record'
               PROVE  /\ \E c \in Calls : calls'[c].await \in Looks
                      /\ \A i \in 1..Len(stack') : stack'[i] \notin CoverPages
    BY DEF GoogleRecorded
  <1>1. /\ \E c \in Calls : calls[c].await \in Looks
        /\ \A i \in 1..Len(stack) : stack[i] \notin CoverPages
    BY DEF GoogleRecorded
  <1>2. \E c \in Calls : calls'[c].await \in Looks
    BY <1>1
  <1>3. ASSUME NEW i \in 1..Len(stack') PROVE stack'[i] \notin CoverPages
    <2>1. m \in Nat /\ Len(stack') \in {m, m + 1} /\ m <= Len(stack) /\ Len(stack) \in Nat
      BY DEF Shape, StackTyped
    <2>2. CASE i \in 1..m
      BY <1>1, <2>1, <2>2 DEF Shape
    <2>3. CASE i = m + 1 /\ Len(stack') = m + 1
      BY <1>1, <2>3
    <2> QED
      BY <2>1, <2>2, <2>3
  <1> QED
    BY <1>2, <1>3

\* The user stays or becomes the one with the e-mail account, and VerifyEmailPage leaves
\* the top only once it has made its call; m pages stay.
Steady(m) ==
    /\ user' \in {user, "email"} /\ \A i \in 1..m : stack[i] = "Cover" => verified'
    /\ registered' => registered \/ OnTop({"Verify"})'
    /\ record \subseteq record' /\ (~missed' => ~missed) /\ (~threw' => ~threw)
    /\ OnTop({"Verify"}) => \/ m = Len(stack) /\ Len(stack') = m
                            \/ m < Len(stack) /\ (missed' \/ "email" \in record')

\* The page that opens above the m that stay has its place there.
Opens(m) ==
    Len(stack') = m + 1 =>
        /\ stack'[m + 1] \in Inner \/ \A i \in 1..m : stack[i] \notin CoverPages
        /\ stack'[m + 1] # "Cover"
        /\ stack'[m + 1] = "Profile" => m > 0 /\ stack[m] \in MenuPages
        /\ stack'[m + 1] = "Verify" => user' = "email"
        /\ stack'[m + 1] = "Dialog" =>
              m > 0 /\ \E c \in Calls : calls'[c].await \in Asks /\ calls'[c].page = m
        /\ stack'[m + 1] \in CoverPages =>
              user' # "google" \/ missed' \/ "google" \in record'
                  \/ \A c \in Calls : calls[c].await \notin Looks

\* A step of the Navigator.
LEMMA GoodChange ==
    ASSUME StackTyped, StackTyped', Good, NEW m, Shape(m), Steady(m), Opens(m),
           \A c \in Calls : calls'[c].page = 0 \/ Same(c, m) \/ CallOK(c)',
           \A c \in Calls : calls[c].await \in Asks => Same(c, m) \/ calls[c].page >= m \/ threw',
           \A c \in Calls : calls[c].await \in Looks =>
                               calls'[c].await \in Looks \/ missed' \/ "google" \in record'
    PROVE  Good'
  <1>0. /\ Placed /\ Owned /\ EmailRecorded /\ GoogleRecorded /\ Circled
        /\ Len(stack) \in Nat /\ m \in 0..Len(stack) /\ m \in Nat
    BY DEF Good, Shape, StackTyped
  <1>1. \A i \in 1..m : stack[i] = "Cover" => verified'
    BY DEF Steady
  <1>2. ASSUME NEW i \in 1..m, stack[i] = "Verify" PROVE i = Len(stack') /\ user' = "email"
    <2>1. i \in 1..Len(stack)
      BY <1>0
    <2>2. i = Len(stack) /\ user = "email"
      BY <1>0, <1>2, <2>1 DEF Placed
    <2>3. OnTop({"Verify"}) /\ m = Len(stack)
      BY <1>0, <1>2, <2>1, <2>2 DEF OnTop, Top
    <2>4. Len(stack') = m /\ user' = "email"
      BY <1>0, <2>2, <2>3 DEF Steady
    <2> QED
      BY <2>2, <2>3, <2>4
  <1>3. Placed'
    <2>1. Len(stack') = m + 1 =>
               /\ stack'[m + 1] \in Inner \/ \A i \in 1..m : stack[i] \notin CoverPages
               /\ stack'[m + 1] # "Cover"
               /\ stack'[m + 1] = "Profile" => m > 0 /\ stack[m] \in MenuPages
               /\ stack'[m + 1] = "Verify" => user' = "email"
      BY DEF Opens
    <2> QED
      BY <1>0, <1>1, <1>2, <2>1, PlacedStep
  <1>4. Owned'
    BY <1>0, OwnedStep
  <1>5. Circled'
    <2>1. ~threw' => ~threw
      BY DEF Steady
    <2>2. Len(stack') = m + 1 /\ stack'[m + 1] = "Dialog" =>
               m > 0 /\ \E c \in Calls : calls'[c].await \in Asks /\ calls'[c].page = m
      BY DEF Opens
    <2> QED
      BY <1>0, <2>1, <2>2, CircledStep
  <1>6. ASSUME registered', ~missed', "email" \notin record' PROVE OnTop({"Verify"})'
    <2>1. CASE OnTop({"Verify"})
      <3>1. m = Len(stack) /\ Len(stack') = m /\ m \in 1..m /\ stack[m] = "Verify"
        BY <1>0, <1>6, <2>1 DEF OnTop, Top, StackTyped, Steady
      <3>2. stack'[Len(stack')] = "Verify" /\ stack' # <<>>
        BY <3>1 DEF Shape
      <3> QED
        BY <3>2 DEF OnTop, Top
    <2>2. CASE registered
      BY <1>0, <1>6, <2>1, <2>2 DEF EmailRecorded, Steady
    <2> QED
      BY <1>6, <2>2 DEF Steady
  <1>7. EmailRecorded'
    BY <1>6 DEF EmailRecorded
  <1>8. GoogleRecorded'
    <2>1. (user' = "google" => user = "google") /\ (~missed' => ~missed) /\ record \subseteq record'
      BY DEF Steady
    <2>2. Len(stack') = m + 1 /\ stack'[m + 1] \in CoverPages =>
               user' # "google" \/ missed' \/ "google" \in record'
                   \/ \A c \in Calls : calls[c].await \notin Looks
      BY DEF Opens
    <2> QED
      BY <1>0, <2>1, <2>2, GoogleStep
  <1> QED
    BY <1>3, <1>4, <1>5, <1>7, <1>8 DEF Good

\* Steps that leave the user and the server's account alone, and VerifyEmailPage on top.
LEMMA GoodStep ==
    ASSUME StackTyped, StackTyped', Good, NEW m, Shape(m),
           user' = user, verified => verified', registered' = registered, record \subseteq record',
           ~missed' => ~missed, ~threw' => ~threw,
           (m = Len(stack) /\ Len(stack') = m) \/ ~OnTop({"Verify"}),
           Len(stack') = m + 1 =>
               /\ stack'[m + 1] \in Inner \/ \A i \in 1..m : stack[i] \notin CoverPages
               /\ stack'[m + 1] # "Cover"
               /\ stack'[m + 1] = "Profile" => m > 0 /\ stack[m] \in MenuPages
               /\ stack'[m + 1] = "Verify" => user = "email"
               /\ stack'[m + 1] = "Dialog" =>
                     m > 0 /\ \E c \in Calls : calls'[c].await \in Asks /\ calls'[c].page = m
               /\ stack'[m + 1] \in CoverPages =>
                     missed' \/ "google" \in record' \/ \A c \in Calls : calls[c].await \notin Looks,
           \A c \in Calls : calls'[c].page = 0 \/ Same(c, m) \/ CallOK(c)',
           \A c \in Calls : calls[c].await \in Asks => Same(c, m) \/ calls[c].page >= m \/ threw',
           \A c \in Calls : calls[c].await \in Looks =>
                               calls'[c].await \in Looks \/ missed' \/ "google" \in record'
    PROVE  Good'
  <1>0. /\ Placed /\ Len(stack) \in Nat /\ m \in 0..Len(stack)
    BY DEF Good, Shape, StackTyped
  <1>1. \A i \in 1..m : stack[i] = "Cover" => verified'
    BY <1>0 DEF Placed
  <1>2. Steady(m)
    BY <1>1 DEF Steady
  <1>3. Opens(m)
    BY DEF Opens
  <1> QED
    BY <1>2, <1>3, GoodChange

-----------------------------------------------------------------------------
(* Steps between pages *)

\* The user and the server are as they were.
LEMMA AuthSame ==
    ASSUME IInv, UNCHANGED <<auth, server, signOuts>>
    PROVE  /\ Fields' /\ Flags' /\ Users' /\ StackTyped
           /\ user' = user /\ (verified => verified') /\ registered' = registered
           /\ record \subseteq record'
  <1>0. StackTyped /\ Fields /\ Flags /\ Users
    BY DEF IInv
  <1>1. /\ user' = user /\ verified' = verified /\ registered' = registered
        /\ confirmed' = confirmed /\ record' = record /\ signOuts' = signOuts
    BY DEF auth, server
  <1>2. Flags'
    BY <1>0, <1>1, Zenon DEF Flags
  <1>3. Users'
    BY <1>0, <1>1, Zenon DEF Users
  <1>4. Fields'
    BY <1>0, <1>1 DEF Fields
  <1> QED
    BY <1>0, <1>1, <1>2, <1>3, <1>4

\* A call begins.
LEMMA BegunIs ==
    ASSUME StackTyped, NEW c \in Calls, NEW a \in Awaits, NEW n \in Nat, NEW cs, cs = Begun(c, a, n)
    PROVE  /\ cs \in [Calls -> CallSet] /\ cs[c] = [await |-> a, page |-> n, live |-> TRUE]
           /\ \A d \in Calls : d # c => cs[d] = calls[d]
  <1>0. calls \in [Calls -> CallSet] /\ calls[c] \in CallSet
    BY DEF StackTyped
  <1>1. [await |-> a, page |-> n, live |-> TRUE] \in CallSet
    BY <1>0 DEF CallSet
  <1>2. cs = [calls EXCEPT ![c] = [await |-> a, page |-> n, live |-> TRUE]]
    BY <1>0 DEF Begun
  <1> QED
    BY <1>0, <1>1, <1>2

\* A call goes on to its next await.
LEMMA ContinuedIs ==
    ASSUME StackTyped, NEW c \in Calls, NEW a \in Awaits, NEW cs, cs = Continued(c, a)
    PROVE  /\ cs \in [Calls -> CallSet] /\ cs[c] = [calls[c] EXCEPT !.await = a]
           /\ \A d \in Calls : d # c => cs[d] = calls[d]
  <1>0. calls \in [Calls -> CallSet] /\ calls[c] \in CallSet
    BY DEF StackTyped
  <1>1. [calls[c] EXCEPT !.await = a] \in CallSet
    BY <1>0 DEF CallSet
  <1>2. cs = [calls EXCEPT ![c] = [calls[c] EXCEPT !.await = a]]
    BY <1>0 DEF Continued
  <1> QED
    BY <1>0, <1>1, <1>2

\* A call ends.
LEMMA EndedIs ==
    ASSUME StackTyped, NEW c \in Calls, NEW cs, cs = Ended(c)
    PROVE  /\ cs \in [Calls -> CallSet] /\ cs[c] = NoCall
           /\ \A d \in Calls : d # c => cs[d] = calls[d]
  <1>0. calls \in [Calls -> CallSet] /\ calls[c] \in CallSet
    BY DEF StackTyped
  <1>1. NoCall \in CallSet
    BY <1>0 DEF CallSet, NoCall
  <1>2. cs = [calls EXCEPT ![c] = NoCall]
    BY <1>0 DEF Ended
  <1> QED
    BY <1>0, <1>1, <1>2

\* The stack stays.
LEMMA StayIs ==
    ASSUME StackTyped, stack' = stack, calls' \in [Calls -> CallSet],
           \A c \in Calls : calls'[c].page <= Len(stack)
    PROVE  StackTyped' /\ Shape(Len(stack)) /\ Len(stack) \in Nat
  BY DEF StackTyped, Shape

\* A call that is as it was, under a stack that stays.
LEMMA StaySame ==
    ASSUME StackTyped, NEW c \in Calls, calls'[c] = calls[c]
    PROVE  Same(c, Len(stack))
  <1>1. calls[c] \in CallSet /\ calls[c].page <= Len(stack) /\ Len(stack) \in Nat
    BY DEF StackTyped
  <1>2. ~(calls[c].page > Len(stack))
    BY <1>1 DEF CallSet
  <1> QED
    BY <1>2 DEF Same

\* The same for the types alone.
LEMMA ShowTyped ==
    ASSUME StackTyped, NEW k \in 0..2, NEW p \in PageNames, NEW new \in {<<>>, <<p>>},
           NEW cs \in [Calls -> CallSet], Show(cs, k, new)
    PROVE  StackTyped' /\ Len(stack) \in Nat
  <1>1. PICK m : m = Left(k)
    OBVIOUS
  <1>2. IsShown(cs, m, k, p, new)
    BY <1>1, ShowIs
  <1> QED
    BY <1>2 DEF IsShown

\* Pages open and close, and no call begins or ends.
LEMMA ShowGood ==
    ASSUME IInv, ~raced, NEW k \in 0..2, NEW p \in PageNames, NEW new \in {<<>>, <<p>>},
           Show(calls, k, new), ~OnTop({"Verify"}),
           user' = user, verified => verified', registered' = registered, record \subseteq record',
           ~missed' => ~missed, ~threw' => ~threw,
           p \notin CoverPages \union {"Dialog"}, p = "Verify" => user = "email",
           p \in Inner \/ \A i \in 1..Left(k) : stack[i] \notin CoverPages,
           p = "Profile" => Left(k) > 0 /\ stack[Left(k)] \in MenuPages
    PROVE  Good'
  <1>0. StackTyped /\ Good /\ calls \in [Calls -> CallSet]
    BY DEF IInv, StackTyped
  <1>1. PICK m : m = Left(k)
    OBVIOUS
  <1>2. /\ StackTyped' /\ Shape(m) /\ Len(stack) \in Nat /\ m \in 0..Len(stack)
        /\ \A c \in Calls : /\ calls'[c].await = calls[c].await /\ calls'[c].live = calls[c].live
                            /\ calls'[c].page = IF calls[c].page > m THEN 0 ELSE calls[c].page
        /\ new = <<>> => Len(stack') = m
        /\ new = <<p>> /\ Len(stack) >= k => Len(stack') = m + 1 /\ stack'[m + 1] = p
        /\ Len(stack) < k => Len(stack') = m
    <2>1. IsShown(calls, m, k, p, new)
      BY <1>0, <1>1, ShowIs
    <2> QED
      BY <2>1 DEF IsShown
  <1>3. \A c \in Calls : Same(c, m)
    BY <1>2 DEF Same
  <1>4. Len(stack') = m + 1 => stack'[m + 1] = p
    BY <1>2
  <1>5. Len(stack') = m + 1 =>
               /\ stack'[m + 1] \in Inner \/ \A i \in 1..m : stack[i] \notin CoverPages
               /\ stack'[m + 1] # "Cover" /\ stack'[m + 1] \notin CoverPages
               /\ stack'[m + 1] = "Profile" => m > 0 /\ stack[m] \in MenuPages
               /\ stack'[m + 1] = "Verify" => user = "email"
               /\ stack'[m + 1] # "Dialog"
    BY <1>1, <1>4 DEF CoverPages
  <1>6. \A c \in Calls : calls'[c].await = calls[c].await
    BY <1>2
  <1> QED
    BY <1>0, <1>2, <1>3, <1>5, <1>6, GoodStep

\* The menu of a Cover, which without a race is that of a verified user, or of a Cover
\* that a log-out has left, which may be anybody's.
LEMMA MenuStep == ASSUME IInv, Menu PROVE IInv'
  <1>0. /\ UNCHANGED <<auth, server, signOuts>> /\ OnTop(MenuPages)
        /\ (~raced' => ~raced) /\ (~missed' => ~missed) /\ (~threw' => ~threw)
    BY DEF Menu, history, MenuPages
  <1>1. PICK p : p = IF user = "none" THEN AuthPage ELSE IF verified THEN "Profile" ELSE "Verify"
    OBVIOUS
  <1>2. p \in PageNames /\ Show(calls, 0, <<p>>)
    BY <1>1 DEF Menu, PageNames, AuthPage
  <1>3. /\ Fields' /\ Flags' /\ Users' /\ StackTyped /\ user' = user /\ (verified => verified')
        /\ registered' = registered /\ record \subseteq record'
    BY <1>0, AuthSame
  <1>4. StackTyped' /\ Len(stack) \in Nat
    BY <1>2, <1>3, ShowTyped DEF StackTyped
  <1>5. /\ Left(0) = Len(stack) /\ Len(stack) > 0 /\ Len(stack) \in 1..Len(stack)
        /\ stack[Len(stack)] \in MenuPages
    BY <1>0, <1>3, <1>4 DEF Left, OnTop, Top, StackTyped
  <1>6. ASSUME ~raced PROVE Good'
    <2>1. Placed /\ Users /\ Fields
      BY <1>6 DEF IInv, Good
    <2>2. ~OnTop({"Verify"}) /\ p \notin CoverPages \union {"Dialog"}
      BY <1>0, <1>1 DEF OnTop, CoverPages, MenuPages, AuthPage
    <2>3. p = "Verify" => user = "email"
      BY <1>1, <2>1 DEF Users, Fields, Accounts, AuthPage
    <2>4. p = "Profile" => Left(0) > 0 /\ stack[Left(0)] \in MenuPages
      BY <1>5
    <2>5. p \in Inner \/ \A i \in 1..Left(0) : stack[i] \notin CoverPages
      <3>1. CASE stack[Len(stack)] = "Cover"
        <4>1. p = "Profile"
          BY <1>1, <1>5, <2>1, <3>1 DEF Placed, Users
        <4> QED
          BY <4>1 DEF Inner
      <3>2. CASE stack[Len(stack)] = "OldCover"
        <4>1. \A i \in 1..(Len(stack) - 1) : stack[i] \notin CoverPages
          BY <1>3, <1>5, <2>1, <3>2, NoCover DEF Inner, ForgotPasswordPage, EmailSentPage
        <4>2. stack[Len(stack)] \notin CoverPages
          BY <3>2 DEF CoverPages
        <4> QED
          BY <1>4, <1>5, <4>1, <4>2
      <3> QED
        BY <1>5, <3>1, <3>2 DEF MenuPages
    <2> QED
      BY <1>0, <1>2, <1>3, <1>6, <2>2, <2>3, <2>4, <2>5, ShowGood
  <1> QED
    BY <1>0, <1>3, <1>4, <1>6 DEF IInv

\* A log-out from a profile above a reading page leaves the Cover where it is.
LEMMA LeaveStep ==
    ASSUME IInv, OnTop({"Profile"}), stack' = LeaveCover, calls' = Kept(calls, 1),
           user' = user, registered' = registered, record' = record,
           ~missed' => ~missed, ~threw' => ~threw
    PROVE  StackTyped' /\ (~raced => Good')
  <1>0. StackTyped /\ Len(stack) \in Nat /\ stack \in Seq(PageNames)
    BY DEF IInv, StackTyped
  <1>1. PICK r : r = After(1, <<AuthPage>>)
    OBVIOUS
  <1>2. PICK n : n = Len(stack)
    OBVIOUS
  <1>3. n \in Nat /\ n > 0 /\ Left(1) = n - 1 /\ stack[n] = "Profile"
    BY <1>0, <1>2 DEF OnTop, Top, Left
  <1>4. /\ r \in Seq(PageNames) /\ Len(r) = n /\ r[n] = AuthPage
        /\ \A i \in 1..(n - 1) : r[i] = stack[i]
    <2>1. AuthPage \in PageNames /\ 1 \in 0..2
      BY DEF PageNames
    <2>2. PICK new \in {<<>>, <<AuthPage>>} : new = <<AuthPage>>
      OBVIOUS
    <2>3. r = After(1, new)
      BY <1>1, <2>2
    <2>4. IsAfter(r, 1, AuthPage, new)
      BY <1>0, <2>1, <2>3, AfterIs
    <2> QED
      BY <1>2, <1>3, <2>2, <2>4 DEF IsAfter
  <1>5. stack' = [r EXCEPT ![n - 1] = IF @ = "Cover" THEN "OldCover" ELSE @]
    BY <1>1, <1>2 DEF LeaveCover
  <1>6. /\ stack' \in Seq(PageNames) /\ Len(stack') = n /\ stack'[n] = AuthPage
        /\ \A i \in 1..(n - 2) : stack'[i] = stack[i]
        /\ n > 1 => stack'[n - 1] = IF stack[n - 1] = "Cover" THEN "OldCover" ELSE stack[n - 1]
    <2>1. "OldCover" \in PageNames
      BY DEF PageNames
    <2>2. stack' \in [1..n -> PageNames] /\ \A i \in 1..n : i # n - 1 => stack'[i] = r[i]
      <3>1. r \in [1..n -> PageNames]
        BY <1>3, <1>4
      <3>2. n - 1 \in 1..n => (IF r[n - 1] = "Cover" THEN "OldCover" ELSE r[n - 1]) \in PageNames
        BY <2>1, <3>1
      <3>3. stack' = [i \in 1..n |-> IF i = n - 1 THEN (IF r[n - 1] = "Cover" THEN "OldCover"
                                                       ELSE r[n - 1]) ELSE r[i]]
        BY <1>5, <3>1
      <3> QED
        BY <3>1, <3>2, <3>3
    <2>3. stack' \in Seq(PageNames) /\ Len(stack') = n
      BY <1>3, <2>2
    <2>4. n > 1 => stack'[n - 1] = IF r[n - 1] = "Cover" THEN "OldCover" ELSE r[n - 1]
      BY <1>3, <1>4, <1>5
    <2>5. stack'[n] = AuthPage /\ \A i \in 1..(n - 2) : stack'[i] = stack[i]
      BY <1>3, <1>4, <2>2
    <2>6. n > 1 => n - 1 \in 1..(n - 1)
      BY <1>3
    <2> QED
      BY <1>4, <2>3, <2>4, <2>5, <2>6
  <1>7. /\ calls' \in [Calls -> CallSet]
        /\ \A c \in Calls : /\ calls'[c].await = calls[c].await /\ calls'[c].live = calls[c].live
                            /\ calls'[c].page = IF calls[c].page > n - 1 THEN 0 ELSE calls[c].page
                            /\ calls'[c].page <= n - 1
    <2>1. calls \in [Calls -> CallSet] /\ 1 \in 0..2
      BY <1>0 DEF StackTyped
    <2> QED
      BY <1>0, <1>3, <2>1, KeptIs
  <1>8. \A c \in Calls : calls[c].page \in Nat /\ calls'[c].page \in Nat
    BY <1>0, <1>7 DEF CallSet, StackTyped
  <1>9. StackTyped'
    BY <1>3, <1>6, <1>7, <1>8 DEF StackTyped
  <1>10. ASSUME ~raced PROVE Good'
    <2>0. Placed /\ Owned /\ EmailRecorded /\ GoogleRecorded /\ Circled
      BY <1>10 DEF IInv, Good
    <2>1. n > 1 /\ stack[n - 1] \in MenuPages /\ stack'[n - 1] = "OldCover"
      <3>1. n \in 1..Len(stack)
        BY <1>2, <1>3
      <3>2. n > 1 /\ stack[n - 1] \in MenuPages
        BY <1>3, <2>0, <3>1 DEF Placed
      <3> QED
        BY <1>6, <3>2 DEF MenuPages
    <2>2. \A i \in 1..(n - 2) : stack[i] \notin CoverPages
      <3>1. n - 1 \in 1..Len(stack) /\ stack[n - 1] \notin Inner /\ (n - 1) - 1 = n - 2
        BY <1>2, <1>3, <2>1 DEF MenuPages, Inner, ForgotPasswordPage, EmailSentPage
      <3> QED
        BY <1>0, <2>0, <3>1, NoCover
    <2>3. \A i \in 1..n : i \in 1..(n - 2) \/ i = n - 1 \/ i = n
      BY <1>3
    <2>4. \A i \in 1..n : stack'[i] \notin CoverPages
      BY <1>6, <2>1, <2>2, <2>3 DEF CoverPages, AuthPage
    <2>5. \A i \in 1..n : stack'[i] = "Profile" => i > 1 /\ stack'[i - 1] \in MenuPages
      <3> SUFFICES ASSUME NEW i \in 1..n, stack'[i] = "Profile"
                   PROVE  i > 1 /\ stack'[i - 1] \in MenuPages
        OBVIOUS
      <3>1. i \in 1..(n - 2)
        BY <1>6, <2>1, <2>3 DEF AuthPage
      <3>2. i \in 1..Len(stack) /\ stack[i] = "Profile"
        BY <1>2, <1>3, <1>6, <3>1
      <3>3. i > 1 /\ stack[i - 1] \in MenuPages
        BY <2>0, <3>2 DEF Placed
      <3>4. i - 1 \in 1..(n - 2)
        BY <1>3, <3>1, <3>3
      <3> QED
        BY <1>6, <3>3, <3>4
    <2>6. \A i \in 1..n : stack'[i] # "Verify"
      <3> SUFFICES ASSUME NEW i \in 1..n, stack'[i] = "Verify" PROVE FALSE
        OBVIOUS
      <3>1. i \in 1..(n - 2)
        BY <1>6, <2>1, <2>3 DEF AuthPage
      <3>2. i \in 1..Len(stack) /\ stack[i] = "Verify" /\ i # Len(stack)
        BY <1>2, <1>3, <1>6, <3>1
      <3> QED
        BY <2>0, <3>2 DEF Placed
    <2>7. Placed'
      BY <1>6, <2>4, <2>5, <2>6 DEF Placed, CoverPages
    <2>8. Owned'
      <3> SUFFICES ASSUME NEW c \in Calls, calls'[c].page # 0 PROVE CallOK(c)'
        BY DEF Owned, CallOK
      <3>1. calls'[c].page = calls[c].page /\ calls[c].page \in 1..(n - 1)
        BY <1>3, <1>7, <1>8
      <3>2. /\ calls[c].await \in Awaits /\ stack[calls[c].page] \in PagesOf[calls[c].await]
            /\ ByGoogle(c) \/ calls[c].live
        BY <2>0, <3>1 DEF Owned, CallOK
      <3>3. stack[calls[c].page] \notin MenuPages
        BY <3>2 DEF PagesOf, Awaits, MenuPages, Forms, LoginWidget, SignUpWidget, ForgotPasswordPage
      <3>4. calls[c].page \in 1..(n - 2)
        BY <1>3, <2>1, <3>1, <3>3
      <3>5. stack'[calls'[c].page] = stack[calls[c].page]
        BY <1>6, <3>1, <3>4
      <3>6. calls'[c].await = calls[c].await /\ calls'[c].live = calls[c].live
        BY <1>7
      <3>7. ByGoogle(c)' \/ calls'[c].live
        BY <3>2, <3>6 DEF ByGoogle
      <3> QED
        BY <3>2, <3>5, <3>6, <3>7 DEF CallOK
    <2>9. EmailRecorded'
      <3>1. ~OnTop({"Verify"})
        BY DEF OnTop
      <3> QED
        BY <2>0, <3>1 DEF EmailRecorded
    <2>10. GoogleRecorded'
      BY <1>6, <1>7, <2>0, <2>4 DEF GoogleRecorded
    <2>11. Circled'
      <3> SUFFICES ASSUME ~threw', NEW i \in 1..n, stack'[i] = "Dialog"
                   PROVE  \E c \in Calls : calls'[c].await \in Asks /\ i > 1 /\ calls'[c].page = i - 1
        BY <1>6 DEF Circled
      <3>1. i \in 1..(n - 2)
        BY <1>6, <2>1, <2>3 DEF AuthPage
      <3>2. i \in 1..Len(stack) /\ stack[i] = "Dialog"
        BY <1>2, <1>3, <1>6, <3>1
      <3>3. PICK c \in Calls : calls[c].await \in Asks /\ i > 1 /\ calls[c].page = i - 1
        BY <2>0, <3>2 DEF Circled
      <3>4. ~(calls[c].page > n - 1)
        BY <1>3, <3>1, <3>3
      <3> QED
        BY <1>7, <3>3, <3>4
    <2> QED
      BY <2>7, <2>8, <2>9, <2>10, <2>11 DEF Good
  <1> QED
    BY <1>9, <1>10

\* Log out: the profile and the Cover below it give way to Auth, or the Cover is left.
LEMMA LogOutStep == ASSUME IInv, NEW deep \in BOOLEAN, LogOut(deep) PROVE IInv'
  <1>0. /\ UNCHANGED <<auth, server>> /\ OnTop({"Profile"}) /\ signOuts' = 2
        /\ (~missed' => ~missed) /\ (~threw' => ~threw) /\ raced' = raced
    BY DEF LogOut, history
  <1>3. StackTyped /\ Fields /\ Flags /\ Users
    BY DEF IInv
  <1>4. user' = user /\ verified' = verified /\ registered' = registered
        /\ confirmed' = confirmed /\ record' = record
    BY <1>0 DEF auth, server
  <1>5. Fields' /\ Flags' /\ Users'
    <2>1. Flags' /\ Users'
      BY <1>3, <1>4, Zenon DEF Flags, Users
    <2> QED
      BY <1>0, <1>3, <1>4, <2>1 DEF Fields
  <1>6. AuthPage \in PageNames /\ 2 \in 0..2
    BY DEF PageNames
  <1>7. StackTyped' /\ (~raced => Good')
    <2>1. CASE deep
      <3>1. stack' = LeaveCover /\ calls' = Kept(calls, 1)
        BY <2>1 DEF LogOut
      <3> QED
        BY <1>0, <1>4, <3>1, LeaveStep
    <2>2. CASE ~deep
      <3>1. Show(calls, 2, <<AuthPage>>)
        BY <2>2 DEF LogOut, Show
      <3>2. StackTyped' /\ Len(stack) \in Nat
        BY <1>3, <1>6, <3>1, ShowTyped DEF StackTyped
      <3>3. ASSUME ~raced PROVE Good'
        <4>1. Placed
          BY <3>3 DEF IInv, Good
        <4>2. Len(stack) \in 1..Len(stack) /\ stack[Len(stack)] = "Profile"
          BY <1>0, <1>3 DEF OnTop, Top, StackTyped
        <4>3. Len(stack) > 1 /\ stack[Len(stack) - 1] \in MenuPages
          BY <4>1, <4>2 DEF Placed
        <4>4. Left(2) = Len(stack) - 2 /\ Len(stack) - 1 \in 1..Len(stack)
          BY <3>2, <4>3 DEF Left
        <4>5. \A i \in 1..Left(2) : stack[i] \notin CoverPages
          <5>1. stack[Len(stack) - 1] \notin Inner
            BY <4>3 DEF MenuPages, Inner, ForgotPasswordPage, EmailSentPage
          <5>2. \A i \in 1..((Len(stack) - 1) - 1) : stack[i] \notin CoverPages
            BY <1>3, <4>1, <4>4, <5>1, NoCover
          <5> QED
            BY <3>2, <4>4, <5>2
        <4>6. ~OnTop({"Verify"}) /\ AuthPage \notin CoverPages \union {"Dialog"}
              /\ AuthPage # "Profile" /\ AuthPage # "Verify"
          BY <1>0 DEF OnTop, CoverPages, AuthPage
        <4>7. verified => verified'
          BY <1>4
        <4> QED
          BY <1>0, <1>4, <1>6, <3>1, <3>3, <4>5, <4>6, <4>7, ShowGood
      <3> QED
        BY <3>2, <3>3
    <2> QED
      BY <2>1, <2>2
  <1> QED
    BY <1>0, <1>5, <1>7 DEF IInv

\* The page that resets a password.
LEMMA OpenForgotStep == ASSUME IInv, OpenForgot PROVE IInv'
  <1>0. /\ UNCHANGED <<auth, server, signOuts>> /\ OnTop({LoginWidget, "Profile"})
        /\ (~raced' => ~raced) /\ (~missed' => ~missed) /\ (~threw' => ~threw)
        /\ Show(calls, 0, <<ForgotPasswordPage>>)
    BY DEF OpenForgot, history
  <1>1. ForgotPasswordPage \in PageNames
    BY DEF PageNames
  <1>2. /\ Fields' /\ Flags' /\ Users' /\ StackTyped /\ user' = user /\ (verified => verified')
        /\ registered' = registered /\ record \subseteq record'
    BY <1>0, AuthSame
  <1>3. StackTyped'
    BY <1>0, <1>1, <1>2, ShowTyped DEF StackTyped
  <1>4. ~OnTop({"Verify"}) /\ ForgotPasswordPage \notin CoverPages \union {"Dialog", "Verify"}
        /\ ForgotPasswordPage \in Inner /\ ForgotPasswordPage # "Profile"
    BY <1>0 DEF OnTop, CoverPages, Inner, ForgotPasswordPage, LoginWidget
  <1>5. ~raced => Good'
    BY <1>0, <1>1, <1>2, <1>4, ShowGood
  <1> QED
    BY <1>0, <1>2, <1>3, <1>5 DEF IInv

\* The back button.
LEMMA BackStep == ASSUME IInv, Back PROVE IInv'
  <1>0. /\ UNCHANGED <<auth, server, signOuts>> /\ ~OnTop({"Verify"})
        /\ (~raced' => ~raced) /\ (~missed' => ~missed) /\ (~threw' => ~threw)
        /\ Show(calls, 1, <<>>)
    BY DEF Back, history, OnTop, AuthPage, LoginWidget, SignUpWidget, ForgotPasswordPage,
           EmailSentPage
  <1>1. PICK p \in PageNames : p = ForgotPasswordPage
    BY DEF PageNames
  <1>a. PICK new \in {<<>>, <<p>>} : new = <<>>
    OBVIOUS
  <1>b. Show(calls, 1, new)
    BY <1>0, <1>a
  <1>2. /\ Fields' /\ Flags' /\ Users' /\ StackTyped /\ user' = user /\ (verified => verified')
        /\ registered' = registered /\ record \subseteq record'
    BY <1>0, AuthSame
  <1>3. StackTyped'
    <2>1. 1 \in 0..2 /\ calls \in [Calls -> CallSet] /\ new \in {<<>>, <<p>>}
      BY <1>2 DEF StackTyped
    <2> QED
      BY <1>b, <1>2, <2>1, ShowTyped, Zenon
  <1>4. p \notin CoverPages \union {"Dialog", "Verify"} /\ p \in Inner /\ p # "Profile"
    BY <1>1 DEF CoverPages, Inner, ForgotPasswordPage
  <1>5. ~raced => Good'
    <2>1. 1 \in 0..2 /\ new \in {<<>>, <<p>>}
      OBVIOUS
    <2> QED
      BY <1>0, <1>b, <1>2, <1>4, <2>1, ShowGood, Zenon
  <1> QED
    BY <1>0, <1>2, <1>3, <1>5 DEF IInv

-----------------------------------------------------------------------------
(* Steps that leave the pages alone *)

\* No page opens or closes, and calls begin, go on or end as their pages allow.
LEMMA StayGood ==
    ASSUME IInv, ~raced, stack' = stack, StackTyped',
           user' = user, verified => verified', registered' = registered, record \subseteq record',
           ~missed' => ~missed, ~threw' => ~threw,
           \A c \in Calls : calls'[c] # calls[c] =>
               /\ calls'[c].page = 0 \/ Same(c, Len(stack)) \/ CallOK(c)'
               /\ calls[c].await \in Asks => Same(c, Len(stack)) \/ threw'
               /\ calls[c].await \in Looks =>
                      calls'[c].await \in Looks \/ missed' \/ "google" \in record'
    PROVE  Good'
  <1>0. StackTyped /\ Good
    BY DEF IInv
  <1>1. PICK m : m = Len(stack)
    OBVIOUS
  <1>2. Shape(m) /\ m = Len(stack) /\ Len(stack') = m /\ ~(Len(stack') = m + 1)
    BY <1>0, <1>1 DEF StackTyped, Shape
  <1>3. ASSUME NEW c \in Calls
        PROVE  /\ calls'[c].page = 0 \/ Same(c, m) \/ CallOK(c)'
               /\ calls[c].await \in Asks => Same(c, m) \/ threw'
               /\ calls[c].await \in Looks =>
                      calls'[c].await \in Looks \/ missed' \/ "google" \in record'
    <2>1. CASE calls'[c] = calls[c]
      <3>1. Same(c, m)
        BY <1>0, <1>1, <2>1, StaySame
      <3> QED
        BY <2>1, <3>1
    <2>2. CASE calls'[c] # calls[c]
      BY <1>1, <2>2
    <2> QED
      BY <2>1, <2>2
  <1> QED
    BY <1>0, <1>2, <1>3, GoodStep

\* The link is followed.
LEMMA ClickLinkStep == ASSUME IInv, ClickLink PROVE IInv'
  <1>0. StackTyped /\ Fields /\ Flags /\ Users
    BY DEF IInv
  <1>1. /\ stack' = stack /\ calls' = calls /\ user' = user /\ verified' = verified
        /\ registered' = registered /\ confirmed' = TRUE /\ record' = record
        /\ signOuts' = signOuts
        /\ (~raced' => ~raced) /\ (~missed' => ~missed) /\ (~threw' => ~threw)
    BY DEF ClickLink, auth, history
  <1>2. Flags' /\ Users'
    BY <1>0, <1>1, Zenon DEF Flags, Users
  <1>3. StackTyped' /\ Fields'
    BY <1>0, <1>1 DEF StackTyped, Fields
  <1>4. verified => verified'
    BY <1>1
  <1>5. ~raced => Good'
    BY <1>1, <1>3, <1>4, StayGood
  <1> QED
    BY <1>1, <1>2, <1>3, <1>5 DEF IInv

\* A page that left is unmounted.
LEMMA ContextGoneStep == ASSUME IInv, NEW c \in Calls, ContextGone(c) PROVE IInv'
  <1>0. /\ UNCHANGED <<auth, server, signOuts>> /\ stack' = stack
        /\ (~raced' => ~raced) /\ (~missed' => ~missed) /\ (~threw' => ~threw)
        /\ calls' = [calls EXCEPT ![c].live = FALSE] /\ calls[c].page = 0
    BY DEF ContextGone, history
  <1>1. /\ Fields' /\ Flags' /\ Users' /\ StackTyped /\ user' = user /\ (verified => verified')
        /\ registered' = registered /\ record \subseteq record'
    BY <1>0, AuthSame
  <1>2. calls \in [Calls -> CallSet] /\ calls[c] \in CallSet
    BY <1>1 DEF StackTyped
  <1> DEFINE x == [calls[c] EXCEPT !.live = FALSE]
  <1>3. x \in CallSet /\ x.await = calls[c].await /\ x.page = 0
    BY <1>0, <1>2 DEF CallSet
  <1>4. calls' = [calls EXCEPT ![c] = x]
    BY <1>0, <1>2
  <1> HIDE DEF x
  <1>5. /\ calls' \in [Calls -> CallSet] /\ calls'[c] = x
        /\ \A d \in Calls : d # c => calls'[d] = calls[d]
    BY <1>2, <1>3, <1>4
  <1>6. StackTyped'
    BY <1>0, <1>1, <1>3, <1>5, StayIs DEF StackTyped
  <1>7. Same(c, Len(stack))
    BY <1>0, <1>1, <1>3, <1>5 DEF Same, StackTyped
  <1>8. \A d \in Calls : calls'[d] # calls[d] =>
           calls'[d].page = 0 /\ Same(d, Len(stack)) /\ calls'[d].await = calls[d].await
    BY <1>3, <1>5, <1>7
  <1>9. ~raced => Good'
    BY <1>0, <1>1, <1>6, <1>8, StayGood
  <1> QED
    BY <1>0, <1>1, <1>6, <1>9 DEF IInv

\* A form is built again.
LEMMA RebuildStep ==
    ASSUME IInv, NEW i \in DOMAIN stack, NEW c \in Calls, Rebuild(i, c) PROVE IInv'
  <1>0. /\ UNCHANGED <<auth, server, signOuts>> /\ stack' = stack /\ Free(c) /\ stack[i] \in Forms
        /\ (~raced' => ~raced) /\ (~missed' => ~missed) /\ (~threw' => ~threw)
        /\ calls' = [d \in Calls |->
                       IF d = c THEN [await |-> "init", page |-> i, live |-> TRUE]
                       ELSE IF ByGoogle(d) /\ calls[d].page = i
                            THEN [calls[d] EXCEPT !.live = FALSE] ELSE calls[d]]
    BY DEF Rebuild, history, Forms
  <1>1. /\ Fields' /\ Flags' /\ Users' /\ StackTyped /\ user' = user /\ (verified => verified')
        /\ registered' = registered /\ record \subseteq record'
    BY <1>0, AuthSame
  <1>2. /\ calls \in [Calls -> CallSet] /\ i \in 1..Len(stack) /\ i \in Nat /\ Len(stack) \in Nat
        /\ \A d \in Calls : calls[d] \in CallSet /\ calls[d].page <= Len(stack)
    BY <1>1 DEF StackTyped
  <1>3. /\ calls'[c] \in CallSet /\ calls'[c].await = "init" /\ calls'[c].page = i
        /\ calls'[c].live
    <2>1. calls'[c] = [await |-> "init", page |-> i, live |-> TRUE]
      BY <1>0
    <2> QED
      BY <1>2, <2>1 DEF CallSet, Awaits
  <1>4. ASSUME NEW d \in Calls, d # c
        PROVE  /\ calls'[d] \in CallSet /\ calls'[d].await = calls[d].await
               /\ calls'[d].page = calls[d].page /\ (calls[d].live => calls'[d].live \/ ByGoogle(d))
    <2>1. CASE ByGoogle(d) /\ calls[d].page = i
      <3>1. calls'[d] = [calls[d] EXCEPT !.live = FALSE] /\ calls[d] \in CallSet
        BY <1>0, <1>2, <1>4, <2>1
      <3> QED
        BY <2>1, <3>1 DEF CallSet
    <2>2. CASE ~(ByGoogle(d) /\ calls[d].page = i)
      <3>1. calls'[d] = calls[d]
        BY <1>0, <1>4, <2>2
      <3> QED
        BY <1>2, <3>1
    <2> QED
      BY <2>1, <2>2
  <1>5. calls' \in [Calls -> CallSet] /\ \A d \in Calls : calls'[d].page <= Len(stack)
    <2>1. \A d \in Calls : calls'[d] \in CallSet /\ calls'[d].page <= Len(stack)
      BY <1>2, <1>3, <1>4
    <2>2. DOMAIN calls' = Calls /\ calls' = [d \in Calls |-> calls'[d]]
      BY <1>0
    <2> QED
      BY <2>1, <2>2
  <1>6. StackTyped'
    BY <1>0, <1>1, <1>5, StayIs
  <1>7. ASSUME NEW d \in Calls, d # c PROVE Same(d, Len(stack)) /\ calls'[d].await = calls[d].await
    <2>1. ~(calls[d].page > Len(stack))
      BY <1>2 DEF CallSet
    <2> QED
      BY <1>4, <1>7, <2>1 DEF Same
  <1>8. CallOK(c)'
    BY <1>0, <1>3 DEF CallOK, PagesOf, Awaits
  <1>9. calls[c].await \notin Asks /\ calls[c].await \notin Looks
    BY <1>0 DEF Free, Asks, Looks
  <1>10. ~raced => Good'
    BY <1>0, <1>1, <1>6, <1>7, <1>8, <1>9, StayGood
  <1> QED
    BY <1>0, <1>1, <1>6, <1>10 DEF IInv

\* A call begins on a page that stays.
LEMMA BegunStep ==
    ASSUME IInv, NEW c \in Calls, Free(c), NEW a \in Awaits, NEW i \in 1..Len(stack),
           calls' = Begun(c, a, i), stack' = stack, ~raced => stack[i] \in PagesOf[a],
           user' = user, verified => verified', registered' = registered, record \subseteq record',
           ~missed' => ~missed, ~threw' => ~threw
    PROVE  StackTyped' /\ (~raced => Good')
  <1>0. StackTyped /\ i \in Nat /\ Len(stack) \in Nat
    BY DEF IInv, StackTyped
  <1>1. /\ calls' \in [Calls -> CallSet] /\ calls'[c] = [await |-> a, page |-> i, live |-> TRUE]
        /\ \A d \in Calls : d # c => calls'[d] = calls[d]
    BY <1>0, BegunIs
  <1>2. StackTyped'
    <2>1. \A d \in Calls : calls'[d].page <= Len(stack)
      BY <1>0, <1>1 DEF StackTyped
    <2> QED
      BY <1>0, <1>1, <2>1, StayIs
  <1>3. ASSUME ~raced PROVE Good'
    <2>1. CallOK(c)'
      BY <1>1, <1>3 DEF CallOK
    <2>2. calls[c].await \notin Asks /\ calls[c].await \notin Looks
      BY DEF Free, Asks, Looks
    <2>3. \A d \in Calls : calls'[d] # calls[d] => d = c
      BY <1>1
    <2> QED
      BY <1>2, <1>3, <2>1, <2>2, <2>3, StayGood
  <1> QED
    BY <1>2, <1>3

\* The Google button is pressed.
LEMMA PressGoogleStep == ASSUME IInv, NEW c \in Calls, PressGoogle(c) PROVE IInv'
  <1>0. /\ UNCHANGED <<auth, server, signOuts>> /\ stack' = stack /\ Free(c)
        /\ OnTop({LoginWidget, SignUpWidget}) /\ calls' = Begun(c, "google", Len(stack))
        /\ (~raced' => ~raced) /\ (~missed' => ~missed) /\ (~threw' => ~threw)
    BY DEF PressGoogle, history
  <1>1. /\ Fields' /\ Flags' /\ Users' /\ StackTyped /\ user' = user /\ (verified => verified')
        /\ registered' = registered /\ record \subseteq record'
    BY <1>0, AuthSame
  <1>2. Len(stack) \in 1..Len(stack) /\ stack[Len(stack)] \in PagesOf["google"] /\ "google" \in Awaits
    BY <1>0, <1>1 DEF OnTop, Top, StackTyped, PagesOf, Forms, Awaits
  <1>3. StackTyped' /\ (~raced => Good')
    BY <1>0, <1>1, <1>2, BegunStep
  <1> QED
    BY <1>0, <1>1, <1>3 DEF IInv

\* checkEmailVerified calls createUser for the user it found.
LEMMA VerifyReloadedStep ==
    ASSUME IInv, NEW i \in DOMAIN stack, NEW c \in Calls, VerifyReloaded(i, c) PROVE IInv'
  <1>0. StackTyped /\ Fields /\ Flags /\ Users
    BY DEF IInv
  <1>1. /\ stack' = stack /\ user' = user /\ verified' = TRUE /\ Free(c) /\ user # "none"
        /\ registered' = registered /\ confirmed' = confirmed /\ record' = record
        /\ signOuts' = signOuts /\ stack[i] = "Verify" /\ calls' = Begun(c, Creating[user], i)
        /\ (~raced' => ~raced) /\ (~missed' => ~missed) /\ (~threw' => ~threw)
    BY DEF VerifyReloaded, server, history
  <1>2. Flags' /\ Users'
    BY <1>0, <1>1, Zenon DEF Flags, Users
  <1>3. Fields' /\ record \subseteq record' /\ (verified => verified')
    BY <1>0, <1>1 DEF Fields
  <1>4. PICK a \in Awaits : a = Creating[user]
    BY <1>0, <1>1 DEF Fields, Accounts, Creating, Awaits
  <1>5. i \in 1..Len(stack)
    BY <1>0 DEF StackTyped
  <1>6. ASSUME ~raced PROVE stack[i] \in PagesOf[a]
    <2>1. user = "email"
      BY <1>1, <1>5, <1>6 DEF IInv, Good, Placed
    <2> QED
      BY <1>1, <1>4, <2>1 DEF Creating, PagesOf
  <1>7. StackTyped' /\ (~raced => Good')
    BY <1>1, <1>3, <1>4, <1>5, <1>6, BegunStep
  <1> QED
    BY <1>1, <1>2, <1>3, <1>7 DEF IInv

-----------------------------------------------------------------------------
(* What a call finds, and what it leaves *)

\* Without a race, the circle on top of its page is that of the call, and the page is there.
LEMMA DialogIs ==
    ASSUME IInv, ~raced, NEW c \in Calls, MyDialog(c), calls[c].await \in Asks
    PROVE  /\ Len(stack) \in Nat /\ Len(stack) > 1 /\ calls[c].page = Len(stack) - 1
           /\ calls[c].page \in 1..Len(stack) /\ calls[c].live
           /\ stack[calls[c].page] \in PagesOf[calls[c].await]
           /\ ~OnTop({"Verify"})
           /\ Left(0) = Len(stack) /\ Left(1) = Len(stack) - 1 /\ Left(2) = Len(stack) - 2
  <1>1. Len(stack) \in Nat /\ Len(stack) > 1 /\ calls[c].page = Len(stack) - 1
    BY DEF IInv, StackTyped, MyDialog
  <1>2. calls[c].page \in 1..Len(stack) /\ calls[c].page # 0
    <2>1. \A n \in Nat : n > 1 => n - 1 \in 1..n /\ n - 1 # 0
      OBVIOUS
    <2> QED
      BY <1>1, <2>1
  <1>3. stack[calls[c].page] \in PagesOf[calls[c].await] /\ (ByGoogle(c) \/ calls[c].live)
    BY <1>2 DEF IInv, Good, Owned, CallOK
  <1>4. ~ByGoogle(c)
    BY DEF ByGoogle, Asks
  <1>5. ~OnTop({"Verify"})
    BY DEF MyDialog, OnTop
  <1>6. Left(0) = Len(stack) /\ Left(1) = Len(stack) - 1 /\ Left(2) = Len(stack) - 2
    BY <1>1 DEF Left
  <1> QED
    BY <1>1, <1>2, <1>3, <1>4, <1>5, <1>6

\* Without a race, the page on top is that of the call.
LEMMA PageIs ==
    ASSUME IInv, ~raced, NEW c \in Calls, MyPage(c)
    PROVE  /\ Len(stack) \in Nat /\ Len(stack) > 0 /\ calls[c].page = Len(stack)
           /\ calls[c].page \in 1..Len(stack)
           /\ calls[c].await \in Awaits /\ stack[Len(stack)] \in PagesOf[calls[c].await]
           /\ ByGoogle(c) \/ calls[c].live
           /\ Left(0) = Len(stack) /\ Left(1) = Len(stack) - 1
  <1>1. Len(stack) \in Nat /\ Len(stack) > 0 /\ calls[c].page = Len(stack)
    BY DEF IInv, StackTyped, MyPage
  <1>2. calls[c].page \in 1..Len(stack) /\ calls[c].page # 0
    BY <1>1
  <1>3. /\ calls[c].await \in Awaits /\ stack[calls[c].page] \in PagesOf[calls[c].await]
        /\ ByGoogle(c) \/ calls[c].live
    BY <1>2 DEF IInv, Good, Owned, CallOK
  <1>4. Left(0) = Len(stack) /\ Left(1) = Len(stack) - 1
    BY <1>1 DEF Left
  <1> QED
    BY <1>1, <1>2, <1>3, <1>4

\* Pages open and close, and one call begins, goes on or ends.
LEMMA AnswerGood ==
    ASSUME IInv, ~raced, NEW c \in Calls, NEW k \in 0..2, NEW p \in PageNames,
           NEW new \in {<<>>, <<p>>}, NEW cs \in [Calls -> CallSet],
           \A d \in Calls : d # c => cs[d] = calls[d],
           NEW m, IsShown(cs, m, k, p, new), Steady(m), Opens(m),
           cs[c].page = 0 \/ CallOK(c)',
           calls[c].await \in Asks => calls[c].page >= m,
           calls[c].await \in Looks => cs[c].await \in Looks \/ missed' \/ "google" \in record'
    PROVE  Good'
  <1>0. StackTyped /\ Good /\ \A d \in Calls : calls[d] \in CallSet
    BY DEF IInv, StackTyped
  <1>1. /\ StackTyped' /\ Shape(m) /\ Len(stack) \in Nat /\ m \in 0..Len(stack)
        /\ \A d \in Calls : /\ calls'[d].await = cs[d].await /\ calls'[d].live = cs[d].live
                            /\ calls'[d].page = IF cs[d].page > m THEN 0 ELSE cs[d].page
    BY DEF IsShown
  <1>2. ASSUME NEW d \in Calls, d # c PROVE Same(d, m) /\ calls'[d].await = calls[d].await
    <2>1. cs[d] = calls[d]
      BY <1>2
    <2> QED
      BY <1>1, <2>1 DEF Same
  <1>3. calls'[c].page = 0 \/ CallOK(c)'
    BY <1>1
  <1>4. calls'[c].await = cs[c].await
    BY <1>1
  <1>5. \A d \in Calls : calls'[d].page = 0 \/ Same(d, m) \/ CallOK(d)'
    BY <1>2, <1>3
  <1>6. \A d \in Calls : calls[d].await \in Asks => Same(d, m) \/ calls[d].page >= m
    BY <1>2
  <1>7. \A d \in Calls : calls[d].await \in Looks =>
                            calls'[d].await \in Looks \/ missed' \/ "google" \in record'
    BY <1>2, <1>4
  <1> QED
    BY <1>0, <1>1, <1>5, <1>6, <1>7, GoodChange

\* The type of what a call that ends leaves on the screen.
LEMMA EndedTyped ==
    ASSUME StackTyped, NEW c \in Calls, calls' = Ended(c), stack' = stack
    PROVE  StackTyped'
  <1>1. /\ calls' \in [Calls -> CallSet] /\ calls'[c] = NoCall
        /\ \A d \in Calls : d # c => calls'[d] = calls[d]
    BY EndedIs
  <1>2. Len(stack) \in Nat /\ NoCall.page = 0
    BY DEF StackTyped, NoCall
  <1>3. \A d \in Calls : calls'[d].page <= Len(stack)
    BY <1>1, <1>2 DEF StackTyped
  <1> QED
    BY <1>1, <1>3, StayIs

\* The same for the answers of signIn, signUp and resetPassword.
LEMMA ThenTyped ==
    ASSUME StackTyped, NEW c \in Calls, NEW k \in 0..2, NEW p \in PageNames,
           NEW new \in {<<>>, <<p>>}, Then(c, k, new)
    PROVE  StackTyped' /\ (~raced' => ~raced /\ MyDialog(c))
  <1>1. ~raced' => ~raced /\ MyDialog(c)
    BY Zenon DEF Then
  <1>2. CASE calls[c].live
    <2>1. PICK cs : cs = Ended(c)
      OBVIOUS
    <2>2. cs \in [Calls -> CallSet] /\ Show(cs, k, new)
      BY <1>2, <2>1, EndedIs DEF Then
    <2>3. StackTyped'
      BY <2>2, ShowTyped
    <2> QED
      BY <1>1, <2>3
  <1>3. CASE ~calls[c].live
    <2>1. calls' = Ended(c) /\ stack' = stack
      BY <1>3 DEF Then
    <2>2. StackTyped'
      BY <2>1, EndedTyped
    <2> QED
      BY <1>1, <2>2
  <1> QED
    BY <1>2, <1>3

\* Their answers, on the circle of their own.
LEMMA ThenGood ==
    ASSUME IInv, ~raced, NEW c \in Calls, MyDialog(c), calls[c].await \in Asks,
           NEW k \in 1..2, NEW p \in PageNames, NEW new \in {<<>>, <<p>>}, Then(c, k, new),
           user' \in {user, "email"}, record \subseteq record', ~missed' => ~missed, ~threw' => ~threw,
           registered' => registered \/ (new = <<p>> /\ p = "Verify"),
           \A i \in 1..Left(k) : stack[i] = "Cover" => verified',
           p \notin {"Cover", "Profile", "Dialog"},
           p \in Inner \/ \A i \in 1..Left(k) : stack[i] \notin CoverPages,
           p = "Verify" => user' = "email",
           p \in CoverPages => user' # "google"
    PROVE  Good'
  <1>0. /\ StackTyped /\ Len(stack) \in Nat /\ Len(stack) > 1 /\ calls[c].page = Len(stack) - 1
        /\ ~OnTop({"Verify"}) /\ calls[c].live
        /\ Left(1) = Len(stack) - 1 /\ Left(2) = Len(stack) - 2
    BY DialogIs DEF IInv
  <1>1. PICK m : m = Left(k)
    OBVIOUS
  <1>2. PICK cs : cs = Ended(c)
    OBVIOUS
  <1>3. cs \in [Calls -> CallSet] /\ cs[c] = NoCall /\ \A d \in Calls : d # c => cs[d] = calls[d]
    BY <1>0, <1>2, EndedIs
  <1>4. k \in 0..2 /\ Show(cs, k, new)
    BY <1>0, <1>2 DEF Then
  <1>5. IsShown(cs, m, k, p, new)
    BY <1>0, <1>1, <1>3, <1>4, ShowIs
  <1>6. m \in Nat /\ m < Len(stack) /\ m <= Len(stack) - 1 /\ Len(stack) >= k
    BY <1>0, <1>1
  <1>7. Len(stack') = m + 1 => new = <<p>> /\ stack'[m + 1] = p
    BY <1>5, <1>6 DEF IsShown
  <1>8. new = <<p>> => Len(stack') = m + 1 /\ stack'[m + 1] = p
    BY <1>5, <1>6 DEF IsShown
  <1>9. ASSUME new = <<p>>, p = "Verify" PROVE OnTop({"Verify"})'
    <2>1. Len(stack') = m + 1 /\ stack'[Len(stack')] = "Verify"
      BY <1>8, <1>9
    <2>2. stack' # <<>>
      BY <1>6, <2>1
    <2> QED
      BY <2>1, <2>2 DEF OnTop, Top
  <1>10. Steady(m)
    BY <1>0, <1>1, <1>9 DEF Steady
  <1>11. Opens(m)
    BY <1>1, <1>7 DEF Opens
  <1>12. cs[c].page = 0 /\ calls[c].page >= m /\ calls[c].await \notin Looks
    BY <1>0, <1>3, <1>6 DEF NoCall, Asks, Looks
  <1> QED
    BY <1>3, <1>4, <1>5, <1>10, <1>11, <1>12, AnswerGood

\* A refused signIn or resetPassword, a failed signUp: the circle is closed.
LEMMA RefusedStep ==
    ASSUME IInv, NEW c \in Calls, calls[c].await \in Asks, Then(c, 1, <<>>),
           UNCHANGED <<auth, server, signOuts, threw, missed>>
    PROVE  IInv'
  <1>0. UNCHANGED <<auth, server, signOuts>> /\ (~missed' => ~missed) /\ (~threw' => ~threw)
    OBVIOUS
  <1>1. PICK p \in PageNames : p = ForgotPasswordPage
    BY DEF PageNames
  <1>2. PICK new \in {<<>>, <<p>>} : new = <<>>
    OBVIOUS
  <1>3. Then(c, 1, new) /\ 1 \in 0..2 /\ 1 \in 1..2
    BY <1>2
  <1>4. /\ Fields' /\ Flags' /\ Users' /\ StackTyped /\ user' = user /\ (verified => verified')
        /\ registered' = registered /\ record \subseteq record'
    BY <1>0, AuthSame
  <1>5. StackTyped' /\ (~raced' => ~raced /\ MyDialog(c))
    BY <1>3, <1>4, ThenTyped, Zenon
  <1>6. ASSUME ~raced, MyDialog(c) PROVE Good'
    <2>1. /\ p \notin {"Cover", "Profile", "Dialog"} /\ p \in Inner /\ p # "Verify"
          /\ p \notin CoverPages
      BY <1>1 DEF CoverPages, Inner, ForgotPasswordPage
    <2>2. \A i \in 1..Left(1) : stack[i] = "Cover" => verified'
      <3>1. Left(1) = Len(stack) - 1 /\ Len(stack) \in Nat
        BY <1>6, DialogIs
      <3>2. \A i \in 1..Left(1) : i \in 1..Len(stack)
        BY <3>1
      <3>3. Placed
        BY <1>6 DEF IInv, Good
      <3> QED
        BY <1>4, <3>2, <3>3 DEF Placed
    <2>3. user' \in {user, "email"}
      BY <1>4
    <2>4. registered' => registered
      BY <1>4
    <2> QED
      BY <1>0, <1>3, <1>4, <1>6, <2>1, <2>2, <2>3, <2>4, ThenGood, Zenon
  <1> QED
    BY <1>4, <1>5, <1>6 DEF IInv

\* signIn is answered: circle and form give way to a Cover.
LEMMA SignInOkStep == ASSUME IInv, NEW c \in Calls, SignInOk(c) PROVE IInv'
  <1>0. /\ calls[c].await = "signIn" /\ registered /\ user' = "email" /\ verified' = confirmed
        /\ Then(c, 2, <<"Starting">>) /\ registered' = registered /\ confirmed' = confirmed
        /\ record' = record /\ signOuts' = signOuts /\ (~missed' => ~missed) /\ (~threw' => ~threw)
    BY DEF SignInOk, Awaiting, server
  <1>1. StackTyped /\ Fields /\ Flags /\ Users
    BY DEF IInv
  <1>2. Flags' /\ Users'
    <2>1. user' # "none" /\ user' # "google" /\ registered'
      BY <1>0
    <2> QED
      BY <1>0, <1>1, <2>1, Zenon DEF Flags, Users
  <1>3. Fields' /\ record \subseteq record'
    BY <1>0, <1>1 DEF Fields, Accounts
  <1>4. PICK p \in PageNames : p = "Starting"
    BY DEF PageNames
  <1>5. Then(c, 2, <<p>>)
    BY <1>0, <1>4
  <1>6. StackTyped' /\ (~raced' => ~raced /\ MyDialog(c))
    BY <1>1, <1>5, ThenTyped
  <1>7. ASSUME ~raced, MyDialog(c) PROVE Good'
    <2>1. calls[c].await \in Asks
      BY <1>0 DEF Asks
    <2>2. /\ Len(stack) \in Nat /\ calls[c].page = Len(stack) - 1 /\ calls[c].page \in 1..Len(stack)
          /\ stack[calls[c].page] \in PagesOf["signIn"] /\ Left(2) = Len(stack) - 2
      BY <1>0, <1>7, <2>1, DialogIs
    <2>3. stack[calls[c].page] \notin Inner
      BY <2>2 DEF PagesOf, LoginWidget, Inner, ForgotPasswordPage, EmailSentPage
    <2>4. \A i \in 1..Left(2) : stack[i] \notin CoverPages
      <3>1. \A i \in 1..(calls[c].page - 1) : stack[i] \notin CoverPages
        BY <1>1, <1>7, <2>2, <2>3, NoCover DEF IInv, Good
      <3> QED
        BY <2>2, <3>1
    <2>5. /\ p \notin {"Cover", "Profile", "Dialog"} /\ p # "Verify" /\ user' \in {user, "email"}
          /\ user' # "google" /\ \A i \in 1..Left(2) : stack[i] = "Cover" => verified'
      BY <1>0, <1>4, <2>4 DEF CoverPages
    <2>6. registered' => registered
      BY <1>0
    <2> QED
      BY <1>0, <1>3, <1>5, <1>7, <2>1, <2>4, <2>5, <2>6, ThenGood
  <1> QED
    BY <1>2, <1>3, <1>6, <1>7 DEF IInv

\* signUp is answered: VerifyEmailPage takes the place of the circle.
LEMMA SignUpOkStep == ASSUME IInv, NEW c \in Calls, SignUpOk(c) PROVE IInv'
  <1>0. /\ calls[c].await = "signUp" /\ user' = "email" /\ verified' = FALSE
        /\ Then(c, 1, <<"Verify">>) /\ registered' = TRUE /\ confirmed' = confirmed
        /\ record' = record /\ signOuts' = signOuts /\ (~missed' => ~missed) /\ (~threw' => ~threw)
    BY DEF SignUpOk, Awaiting
  <1>1. StackTyped /\ Fields /\ Flags /\ Users
    BY DEF IInv
  <1>2. Flags' /\ Users'
    <2>1. user' # "none" /\ user' # "google"
      BY <1>0
    <2> QED
      BY <1>0, <1>1, <2>1, Zenon DEF Flags, Users
  <1>3. Fields' /\ record \subseteq record'
    BY <1>0, <1>1 DEF Fields, Accounts
  <1>4. PICK p \in PageNames : p = "Verify"
    BY DEF PageNames
  <1>5. Then(c, 1, <<p>>)
    BY <1>0, <1>4
  <1>6. StackTyped' /\ (~raced' => ~raced /\ MyDialog(c))
    BY <1>1, <1>5, ThenTyped
  <1>7. ASSUME ~raced, MyDialog(c) PROVE Good'
    <2>1. calls[c].await \in Asks
      BY <1>0 DEF Asks
    <2>2. /\ Len(stack) \in Nat /\ calls[c].page = Len(stack) - 1 /\ calls[c].page \in 1..Len(stack)
          /\ stack[calls[c].page] \in PagesOf["signUp"] /\ Left(1) = Len(stack) - 1
      BY <1>0, <1>7, <2>1, DialogIs
    <2>3. stack[calls[c].page] \notin Inner /\ stack[calls[c].page] \notin CoverPages
      BY <2>2 DEF PagesOf, SignUpWidget, Inner, ForgotPasswordPage, EmailSentPage, CoverPages
    <2>4. \A i \in 1..Left(1) : stack[i] \notin CoverPages
      <3>1. \A i \in 1..(calls[c].page - 1) : stack[i] \notin CoverPages
        BY <1>1, <1>7, <2>2, <2>3, NoCover DEF IInv, Good
      <3> QED
        BY <2>2, <2>3, <3>1
    <2>5. /\ p \notin {"Cover", "Profile", "Dialog"} /\ user' \in {user, "email"} /\ p \notin CoverPages
          /\ user' # "google" /\ \A i \in 1..Left(1) : stack[i] = "Cover" => verified'
      BY <1>0, <1>4, <2>4 DEF CoverPages
    <2> QED
      BY <1>0, <1>3, <1>4, <1>5, <1>7, <2>1, <2>4, <2>5, ThenGood
  <1> QED
    BY <1>2, <1>3, <1>6, <1>7 DEF IInv

\* resetPassword is answered: EmailSentPage takes the place of the circle.
LEMMA ResetOkStep == ASSUME IInv, NEW c \in Calls, ResetOk(c) PROVE IInv'
  <1>0. /\ calls[c].await = "reset" /\ UNCHANGED <<auth, server, signOuts>>
        /\ Then(c, 1, <<EmailSentPage>>) /\ (~missed' => ~missed) /\ (~threw' => ~threw)
    BY DEF ResetOk, Awaiting
  <1>1. /\ Fields' /\ Flags' /\ Users' /\ StackTyped /\ user' = user /\ (verified => verified')
        /\ registered' = registered /\ record \subseteq record'
    BY <1>0, AuthSame
  <1>2. PICK p \in PageNames : p = EmailSentPage
    BY DEF PageNames
  <1>3. Then(c, 1, <<p>>)
    BY <1>0, <1>2
  <1>4. StackTyped' /\ (~raced' => ~raced /\ MyDialog(c))
    BY <1>1, <1>3, ThenTyped
  <1>5. ASSUME ~raced, MyDialog(c) PROVE Good'
    <2>1. calls[c].await \in Asks
      BY <1>0 DEF Asks
    <2>2. Len(stack) \in Nat /\ Left(1) = Len(stack) - 1
      BY <1>5, <2>1, DialogIs
    <2>3. \A i \in 1..Left(1) : stack[i] = "Cover" => verified'
      <3>1. \A i \in 1..Left(1) : i \in 1..Len(stack)
        BY <2>2
      <3>2. Placed
        BY <1>5 DEF IInv, Good
      <3> QED
        BY <1>1, <3>1, <3>2 DEF Placed
    <2>4. /\ p \notin {"Cover", "Profile", "Dialog"} /\ p \notin CoverPages /\ p \in Inner
          /\ p # "Verify" /\ user' \in {user, "email"}
      BY <1>1, <1>2 DEF CoverPages, Inner, EmailSentPage
    <2>5. registered' => registered
      BY <1>1
    <2> QED
      BY <1>0, <1>1, <1>3, <1>5, <2>1, <2>3, <2>4, <2>5, ThenGood
  <1> QED
    BY <1>1, <1>4, <1>5 DEF IInv

\* An exception that leaves the circle: the history records it.
LEMMA ThrewStep ==
    ASSUME IInv, NEW c \in Calls, calls[c].await \in Asks, calls' = Ended(c), threw' = TRUE,
           UNCHANGED <<stack, auth, server, signOuts, raced, missed>>
    PROVE  IInv'
  <1>0. /\ UNCHANGED <<auth, server, signOuts>> /\ stack' = stack /\ (~raced' => ~raced)
        /\ (~missed' => ~missed) /\ (~threw' => ~threw)
    OBVIOUS
  <1>1. /\ Fields' /\ Flags' /\ Users' /\ StackTyped /\ user' = user /\ (verified => verified')
        /\ registered' = registered /\ record \subseteq record'
    BY <1>0, AuthSame
  <1>2. StackTyped' /\ calls'[c] = NoCall /\ \A d \in Calls : d # c => calls'[d] = calls[d]
    BY <1>0, <1>1, EndedTyped, EndedIs
  <1>3. calls'[c].page = 0 /\ calls[c].await \notin Looks
    BY <1>2 DEF NoCall, Asks, Looks
  <1>4. ~raced => Good'
    BY <1>0, <1>1, <1>2, <1>3, StayGood
  <1> QED
    BY <1>0, <1>1, <1>2, <1>4 DEF IInv

\* email-already-in-use: the circle is closed and the call asks for the methods.
LEMMA SignUpInUseStep == ASSUME IInv, NEW c \in Calls, SignUpInUse(c) PROVE IInv'
  <1>0. /\ calls[c].await = "signUp" /\ UNCHANGED <<auth, server, signOuts>>
        /\ (~missed' => ~missed) /\ (~threw' => ~threw)
    BY DEF SignUpInUse, Awaiting
  <1>1. ~raced' => ~raced /\ MyDialog(c)
    BY Zenon DEF SignUpInUse
  <1>2. /\ Fields' /\ Flags' /\ Users' /\ StackTyped /\ user' = user /\ (verified => verified')
        /\ registered' = registered /\ record \subseteq record'
    BY <1>0, AuthSame
  <1>3. PICK p \in PageNames : p = ForgotPasswordPage
    BY DEF PageNames
  <1>4. PICK new \in {<<>>, <<p>>} : new = <<>>
    OBVIOUS
  <1>5. PICK cs : cs = Continued(c, "methods")
    OBVIOUS
  <1>6. /\ cs \in [Calls -> CallSet] /\ cs[c] = [calls[c] EXCEPT !.await = "methods"]
        /\ \A d \in Calls : d # c => cs[d] = calls[d]
    <2>1. "methods" \in Awaits
      BY DEF Awaits
    <2> QED
      BY <1>2, <1>5, <2>1, ContinuedIs
  <1>7. 1 \in 0..2 /\ (calls[c].live => Show(cs, 1, new))
    BY <1>4, <1>5 DEF SignUpInUse
  <1>8. StackTyped'
    <2>1. CASE calls[c].live
      BY <1>2, <1>6, <1>7, <2>1, ShowTyped, Zenon
    <2>2. CASE ~calls[c].live
      BY <1>2, <2>2, EndedTyped DEF SignUpInUse
    <2> QED
      BY <2>1, <2>2
  <1>9. ASSUME ~raced, MyDialog(c) PROVE Good'
    <2>1. calls[c].await \in Asks /\ calls[c].await \notin Looks /\ calls[c] \in CallSet
      BY <1>0, <1>2 DEF Asks, Looks, StackTyped
    <2>2. /\ Len(stack) \in Nat /\ Len(stack) > 1 /\ calls[c].page = Len(stack) - 1 /\ calls[c].live
          /\ stack[calls[c].page] \in PagesOf["signUp"] /\ Left(1) = Len(stack) - 1
          /\ ~OnTop({"Verify"})
      BY <1>0, <1>9, <2>1, DialogIs
    <2>3. PICK m : m = Left(1)
      OBVIOUS
    <2>4. IsShown(cs, m, 1, p, new)
      BY <1>2, <1>6, <1>7, <2>2, <2>3, ShowIs, Zenon
    <2>5. m \in Nat /\ m \in 1..m /\ calls[c].page = m
      BY <2>2, <2>3
    <2>6. cs[c].await = "methods" /\ cs[c].page = m /\ cs[c].live
      BY <1>6, <2>1, <2>2, <2>5 DEF CallSet
    <2>7. /\ Len(stack') = m /\ stack'[m] = stack[m]
          /\ calls'[c].await = "methods" /\ calls'[c].page = m /\ calls'[c].live
      BY <1>4, <2>4, <2>5, <2>6 DEF IsShown, Shape
    <2>8. CallOK(c)'
      BY <2>2, <2>5, <2>7 DEF CallOK, PagesOf, Awaits
    <2>9. Steady(m)
      <3>1. Placed /\ \A i \in 1..m : i \in 1..Len(stack)
        BY <1>9, <2>2, <2>5 DEF IInv, Good
      <3> QED
        BY <1>0, <1>2, <2>2, <3>1 DEF Steady, Placed
    <2>10. Opens(m) /\ calls[c].page >= m
      BY <2>5, <2>7 DEF Opens
    <2>11. /\ cs[c].page = 0 \/ CallOK(c)'
           /\ calls[c].await \in Asks => calls[c].page >= m
           /\ calls[c].await \in Looks => cs[c].await \in Looks \/ missed' \/ "google" \in record'
      BY <2>1, <2>8, <2>10
    <2>12. 1 \in 0..2 /\ new \in {<<>>, <<p>>}
      OBVIOUS
    <2> QED
      BY <1>6, <1>9, <2>4, <2>9, <2>10, <2>11, <2>12, AnswerGood, ZenonT(30)
  <1> QED
    BY <1>1, <1>2, <1>8, <1>9 DEF IInv

\* signIn, signUp and resetPassword open their circle and begin.
LEMMA AskStep ==
    ASSUME IInv, NEW c \in Calls, NEW page, NEW a \in Asks, page \in PagesOf[a], page # "Verify",
           Ask(c, page, a)
    PROVE  IInv'
  <1>0. /\ UNCHANGED <<auth, server, signOuts>> /\ OnTop({page}) /\ Free(c)
        /\ Show(Begun(c, a, Len(stack)), 0, <<"Dialog">>)
        /\ (~raced' => ~raced) /\ (~missed' => ~missed) /\ (~threw' => ~threw)
    BY DEF Ask, history
  <1>1. /\ Fields' /\ Flags' /\ Users' /\ StackTyped /\ user' = user /\ (verified => verified')
        /\ registered' = registered /\ record \subseteq record'
    BY <1>0, AuthSame
  <1>2. /\ Len(stack) \in Nat /\ Len(stack) \in 1..Len(stack) /\ stack[Len(stack)] = page
        /\ ~OnTop({"Verify"})
    BY <1>0, <1>1 DEF StackTyped, OnTop, Top
  <1>3. a \in Awaits
    BY DEF Asks, Awaits
  <1>4. PICK cs : cs = Begun(c, a, Len(stack))
    OBVIOUS
  <1>5. /\ cs \in [Calls -> CallSet] /\ cs[c] = [await |-> a, page |-> Len(stack), live |-> TRUE]
        /\ \A d \in Calls : d # c => cs[d] = calls[d]
    BY <1>1, <1>2, <1>3, <1>4, BegunIs
  <1>6. PICK p \in PageNames : p = "Dialog"
    BY DEF PageNames
  <1>7. PICK m : m = Left(0)
    OBVIOUS
  <1>8. Show(cs, 0, <<p>>) /\ 0 \in 0..2 /\ m = Len(stack) /\ Len(stack) >= 0
    BY <1>0, <1>2, <1>4, <1>6, <1>7 DEF Left
  <1>9. IsShown(cs, m, 0, p, <<p>>)
    BY <1>1, <1>5, <1>7, <1>8, ShowIs
  <1>10. /\ StackTyped' /\ Len(stack') = m + 1 /\ stack'[m + 1] = "Dialog" /\ stack'[m] = stack[m]
         /\ calls'[c].await = a /\ calls'[c].page = m /\ calls'[c].live
    BY <1>2, <1>5, <1>6, <1>8, <1>9 DEF IsShown, Shape
  <1>11. ASSUME ~raced PROVE Good'
    <2>1. CallOK(c)'
      BY <1>2, <1>3, <1>8, <1>10 DEF CallOK
    <2>2. Steady(m)
      <3>1. Placed
        BY <1>11 DEF IInv, Good
      <3> QED
        BY <1>0, <1>1, <1>2, <1>8, <3>1 DEF Steady, Placed
    <2>3. Opens(m)
      BY <1>2, <1>8, <1>10 DEF Opens, Inner, CoverPages
    <2>4. calls[c].await \notin Asks /\ calls[c].await \notin Looks
      BY <1>0 DEF Free, Asks, Looks
    <2> QED
      BY <1>5, <1>8, <1>9, <1>11, <2>1, <2>2, <2>3, <2>4, AnswerGood
  <1> QED
    BY <1>0, <1>1, <1>10, <1>11 DEF IInv

\* A Cover takes the place of the page of a call that ends.
LEMMA CoverGood ==
    ASSUME IInv, ~raced, NEW c \in Calls, MyPage(c), Show(Ended(c), 1, <<"Starting">>),
           user' = user, verified => verified', registered' = registered, record \subseteq record',
           ~missed' => ~missed, ~threw' => ~threw,
           calls[c].await \in {"init", "check", "createGoogle", "createEmail"},
           calls[c].await \in Looks => missed' \/ "google" \in record',
           calls[c].await = "createEmail" => missed' \/ "email" \in record',
           calls[c].await = "init" => \A d \in Calls : calls[d].await \notin Looks
    PROVE  Good'
  <1>0. /\ StackTyped /\ Placed /\ Len(stack) \in Nat /\ Len(stack) > 0
        /\ Len(stack) \in 1..Len(stack) /\ stack[Len(stack)] \in PagesOf[calls[c].await]
        /\ Left(1) = Len(stack) - 1
    BY PageIs DEF IInv, Good
  <1>1. PICK m : m = Left(1)
    OBVIOUS
  <1>2. PICK cs : cs = Ended(c)
    OBVIOUS
  <1>3. PICK p \in PageNames : p = "Starting"
    BY DEF PageNames
  <1>4. /\ cs \in [Calls -> CallSet] /\ cs[c] = NoCall /\ \A d \in Calls : d # c => cs[d] = calls[d]
    BY <1>0, <1>2, EndedIs
  <1>5. 1 \in 0..2 /\ Show(cs, 1, <<p>>)
    BY <1>2, <1>3
  <1>6. IsShown(cs, m, 1, p, <<p>>)
    BY <1>0, <1>1, <1>4, <1>5, ShowIs
  <1>7. m \in Nat /\ m = Len(stack) - 1 /\ m < Len(stack) /\ Len(stack) >= 1
    BY <1>0, <1>1
  <1>8. Len(stack') = m + 1 /\ stack'[m + 1] = "Starting"
    BY <1>3, <1>6, <1>7 DEF IsShown
  <1>9. \A i \in 1..m : stack[i] \notin CoverPages
    <2>1. stack[Len(stack)] \notin Inner
      BY <1>0 DEF PagesOf, Forms, Inner, LoginWidget, SignUpWidget, ForgotPasswordPage, EmailSentPage
    <2> QED
      BY <1>0, <1>7, <2>1, NoCover
  <1>10. ASSUME OnTop({"Verify"}) PROVE calls[c].await = "createEmail" /\ user = "email"
    <2>1. stack[Len(stack)] = "Verify"
      BY <1>10 DEF OnTop, Top
    <2> QED
      BY <1>0, <2>1 DEF PagesOf, Forms, LoginWidget, SignUpWidget, Placed
  <1>11. Steady(m)
    BY <1>7, <1>9, <1>10 DEF Steady, CoverPages
  <1>12. calls[c].await = "createEmail" => user' # "google"
    <2>1. ASSUME calls[c].await = "createEmail" PROVE stack[Len(stack)] = "Verify"
      BY <1>0, <2>1 DEF PagesOf
    <2> QED
      BY <1>0, <2>1 DEF Placed
  <1>13. user' # "google" \/ missed' \/ "google" \in record'
           \/ \A d \in Calls : calls[d].await \notin Looks
    BY <1>12 DEF Looks
  <1>14. Opens(m)
    BY <1>8, <1>9, <1>13 DEF Opens
  <1>15. cs[c].page = 0 /\ calls[c].await \notin Asks
    BY <1>4 DEF NoCall, Asks
  <1> QED
    BY <1>4, <1>5, <1>6, <1>11, <1>14, <1>15, AnswerGood

\* checkIfFirstTimeLogin and createUser end.
LEMMA ToCoverStep ==
    ASSUME IInv, NEW c \in Calls, ToCover(c),
           user' = user, verified => verified', registered' = registered, record \subseteq record',
           ~missed' => ~missed, ~threw' => ~threw,
           calls[c].await \in {"check", "createGoogle", "createEmail"},
           calls[c].await \in Looks => missed' \/ "google" \in record',
           calls[c].await = "createEmail" => missed' \/ "email" \in record'
    PROVE  StackTyped' /\ (~raced' => Good')
  <1>0. StackTyped
    BY DEF IInv
  <1>1. ~raced' => ~raced /\ MyPage(c)
    BY Zenon DEF ToCover
  <1>2. CASE calls[c].live
    <2>1. Show(Ended(c), 1, <<"Starting">>)
      BY <1>2 DEF ToCover
    <2>2. StackTyped'
      <3>1. PICK cs : cs = Ended(c)
        OBVIOUS
      <3>2. PICK p \in PageNames : p = "Starting"
        BY DEF PageNames
      <3>3. cs \in [Calls -> CallSet] /\ Show(cs, 1, <<p>>)
        BY <1>0, <2>1, <3>1, <3>2, EndedIs
      <3> QED
        BY <1>0, <3>3, ShowTyped
    <2>3. ASSUME ~raced, MyPage(c) PROVE Good'
      <3>1. /\ calls[c].await \in {"init", "check", "createGoogle", "createEmail"}
            /\ calls[c].await # "init"
        OBVIOUS
      <3> QED
        BY <2>1, <2>3, <3>1, CoverGood
    <2> QED
      BY <1>1, <2>2, <2>3
  <1>3. CASE ~calls[c].live
    <2>1. calls' = Ended(c) /\ stack' = stack
      BY <1>3 DEF ToCover
    <2>2. /\ StackTyped' /\ calls'[c] = NoCall
          /\ \A d \in Calls : d # c => calls'[d] = calls[d]
      BY <1>0, <2>1, EndedTyped, EndedIs
    <2>3. calls'[c].page = 0 /\ calls[c].await \notin Asks
      BY <2>2 DEF NoCall, Asks
    <2>4. ASSUME ~raced PROVE Good'
      BY <2>1, <2>2, <2>3, <2>4, StayGood
    <2> QED
      BY <1>1, <2>2, <2>4
  <1> QED
    BY <1>2, <1>3

\* checkIfFirstTimeLogin is answered.
LEMMA CheckDoneStep == ASSUME IInv, NEW c \in Calls, NEW error \in BOOLEAN, CheckDone(c, error) PROVE IInv'
  <1>0. calls[c].await = "check" /\ UNCHANGED <<auth, server, signOuts>> /\ (~threw' => ~threw)
    BY DEF CheckDone, Awaiting
  <1>1. (~missed' => ~missed) /\ (error => missed')
    BY Zenon DEF CheckDone
  <1>2. /\ Fields' /\ Flags' /\ Users' /\ StackTyped /\ user' = user /\ (verified => verified')
        /\ registered' = registered /\ record \subseteq record'
    BY <1>0, AuthSame
  <1>3. CASE "google" \notin record /\ ~error
    <2>1. calls' = Continued(c, "createGoogle") /\ stack' = stack /\ (~raced' => ~raced)
      BY <1>3 DEF CheckDone, Creating
    <2>2. "createGoogle" \in Awaits
      BY DEF Awaits
    <2>3. /\ calls' \in [Calls -> CallSet] /\ calls'[c] = [calls[c] EXCEPT !.await = "createGoogle"]
          /\ \A d \in Calls : d # c => calls'[d] = calls[d]
      BY <1>2, <2>1, <2>2, ContinuedIs
    <2>4. /\ calls'[c].await = "createGoogle" /\ calls'[c].page = calls[c].page
          /\ calls'[c].live = calls[c].live
      BY <1>2, <2>3 DEF StackTyped, CallSet
    <2>5. \A d \in Calls : calls'[d].page <= Len(stack)
      BY <1>2, <2>3, <2>4 DEF StackTyped
    <2>6. StackTyped'
      BY <1>2, <2>1, <2>3, <2>5, StayIs
    <2>7. ASSUME ~raced PROVE Good'
      <3>1. CallOK(c)
        BY <2>7 DEF IInv, Good, Owned
      <3>2. CallOK(c)'
        BY <1>0, <2>1, <2>2, <2>4, <3>1 DEF CallOK, PagesOf, ByGoogle
      <3>3. calls[c].await \notin Asks /\ calls'[c].await \in Looks
        BY <1>0, <2>4 DEF Asks, Looks
      <3> QED
        BY <1>0, <1>1, <1>2, <2>1, <2>3, <2>6, <2>7, <3>2, <3>3, StayGood
    <2> QED
      BY <1>2, <2>1, <2>6, <2>7 DEF IInv
  <1>4. CASE ~("google" \notin record /\ ~error)
    <2>1. ToCover(c)
      BY <1>4 DEF CheckDone
    <2>2. missed' \/ "google" \in record'
      BY <1>1, <1>2, <1>4
    <2>3. calls[c].await \in {"check", "createGoogle", "createEmail"} /\ calls[c].await # "createEmail"
      BY <1>0
    <2>4. StackTyped' /\ (~raced' => Good')
      BY <1>0, <1>1, <1>2, <2>1, <2>2, <2>3, ToCoverStep
    <2> QED
      BY <1>2, <2>4 DEF IInv
  <1> QED
    BY <1>3, <1>4

\* createUser is answered.
LEMMA CreateDoneStep == ASSUME IInv, NEW c \in Calls, NEW error \in BOOLEAN, CreateDone(c, error) PROVE IInv'
  <1>0. /\ user' = user /\ verified' = verified /\ registered' = registered
        /\ confirmed' = confirmed /\ signOuts' = signOuts /\ (~threw' => ~threw) /\ ToCover(c)
    BY DEF CreateDone, auth
  <1>1. (~missed' => ~missed) /\ (error => missed')
    BY Zenon DEF CreateDone
  <1>2. PICK account \in Accounts :
           /\ calls[c].await = Creating[account]
           /\ record' = IF error THEN record ELSE record \union {account}
    BY DEF CreateDone, Awaiting
  <1>3. StackTyped /\ Fields /\ Flags /\ Users
    BY DEF IInv
  <1>4. Flags' /\ Users'
    BY <1>0, <1>3, Zenon DEF Flags, Users
  <1>5. /\ Fields' /\ record \subseteq record' /\ (verified => verified')
        /\ missed' \/ account \in record'
    BY <1>0, <1>1, <1>2, <1>3 DEF Fields
  <1>6. /\ calls[c].await \in {"check", "createGoogle", "createEmail"}
        /\ calls[c].await \in Looks => account = "google"
        /\ calls[c].await = "createEmail" => account = "email"
    BY <1>2 DEF Accounts, Creating, Looks
  <1>7. StackTyped' /\ (~raced' => Good')
    BY <1>0, <1>1, <1>5, <1>6, ToCoverStep
  <1> QED
    BY <1>4, <1>5, <1>7 DEF IInv

\* A call that neither holds a circle nor looks after a record ends.
LEMMA EndedStep ==
    ASSUME IInv, NEW c \in Calls, calls[c].await \notin Asks, calls[c].await \notin Looks,
           calls' = Ended(c), stack' = stack, ~raced' => ~raced,
           UNCHANGED <<auth, server, signOuts, threw, missed>>
    PROVE  IInv'
  <1>0. UNCHANGED <<auth, server, signOuts>> /\ (~missed' => ~missed) /\ (~threw' => ~threw)
    OBVIOUS
  <1>1. /\ Fields' /\ Flags' /\ Users' /\ StackTyped /\ user' = user /\ (verified => verified')
        /\ registered' = registered /\ record \subseteq record'
    BY <1>0, AuthSame
  <1>2. StackTyped' /\ calls'[c] = NoCall /\ \A d \in Calls : d # c => calls'[d] = calls[d]
    BY <1>1, EndedTyped, EndedIs
  <1>3. calls'[c].page = 0
    BY <1>2 DEF NoCall
  <1>4. ~raced => Good'
    BY <1>0, <1>1, <1>2, <1>3, StayGood
  <1> QED
    BY <1>1, <1>2, <1>4 DEF IInv

\* Google is cancelled or refused.
LEMMA GoogleFailedStep == ASSUME IInv, NEW c \in Calls, GoogleFailed(c) PROVE IInv'
  <1>1. /\ calls[c].await = "google" /\ calls' = Ended(c) /\ stack' = stack
        /\ UNCHANGED <<auth, server, signOuts, threw, missed>> /\ (~raced' => ~raced)
    BY DEF GoogleFailed, Awaiting, history
  <1>2. calls[c].await \notin Asks /\ calls[c].await \notin Looks
    BY <1>1 DEF Asks, Looks
  <1> QED
    BY <1>1, <1>2, EndedStep

\* initializeFirebase is done.
LEMMA InitDoneStep == ASSUME IInv, NEW c \in Calls, InitDone(c) PROVE IInv'
  <1>0. /\ calls[c].await = "init" /\ UNCHANGED <<auth, server, signOuts>>
        /\ (~missed' => ~missed) /\ (~threw' => ~threw)
        /\ UNCHANGED <<auth, server, signOuts, threw, missed>>
    BY DEF InitDone, Awaiting
  <1>1. calls[c].await \notin Asks /\ calls[c].await \notin Looks
    BY <1>0 DEF Asks, Looks
  <1>2. /\ Fields' /\ Flags' /\ Users' /\ StackTyped /\ user' = user /\ (verified => verified')
        /\ registered' = registered /\ record \subseteq record'
    BY <1>0, AuthSame
  <1>3. CASE user # "none" /\ verified /\ calls[c].live
    <2>1. Show(Ended(c), 1, <<"Starting">>)
      BY <1>3 DEF InitDone
    <2>2. ~raced' => ~raced /\ MyPage(c) /\ \A d \in Calls : ~ByGoogle(d)
      <3>1. raced' = (raced \/ ~MyPage(c) \/ \E d \in Calls : ByGoogle(d))
        BY <1>3 DEF InitDone
      <3> QED
        BY <3>1, Zenon
    <2>3. StackTyped'
      <3>1. PICK cs : cs = Ended(c)
        OBVIOUS
      <3>2. PICK p \in PageNames : p = "Starting"
        BY DEF PageNames
      <3>3. cs \in [Calls -> CallSet] /\ Show(cs, 1, <<p>>)
        BY <1>2, <2>1, <3>1, <3>2, EndedIs
      <3> QED
        BY <1>2, <3>3, ShowTyped
    <2>4. ASSUME ~raced, MyPage(c), \A d \in Calls : ~ByGoogle(d) PROVE Good'
      <3>1. \A d \in Calls : calls[d].await \notin Looks
        BY <2>4 DEF ByGoogle, Looks
      <3>2. calls[c].await \in {"init", "check", "createGoogle", "createEmail"}
            /\ calls[c].await # "createEmail"
        BY <1>0
      <3> QED
        BY <1>0, <1>1, <1>2, <2>1, <2>4, <3>1, <3>2, CoverGood
    <2> QED
      BY <1>2, <2>2, <2>3, <2>4 DEF IInv
  <1>4. CASE ~(user # "none" /\ verified /\ calls[c].live)
    <2>1. calls' = Ended(c) /\ stack' = stack /\ (~raced' => ~raced)
      BY <1>4 DEF InitDone
    <2> QED
      BY <1>0, <1>1, <2>1, EndedStep
  <1> QED
    BY <1>3, <1>4

\* fetchSignInMethodsForEmail is answered: VerifyEmailPage for whoever is signed in, or nothing.
LEMMA MethodsDoneStep ==
    ASSUME IInv, NEW c \in Calls, NEW empty \in BOOLEAN, MethodsDone(c, empty) PROVE IInv'
  <1>0. /\ calls[c].await = "methods" /\ UNCHANGED <<auth, server, signOuts>>
        /\ (~missed' => ~missed) /\ (~threw' => ~threw)
    BY DEF MethodsDone, Awaiting
  <1>1. ~raced' => ~raced /\ (empty => MyPage(c))
    BY Zenon DEF MethodsDone
  <1>2. /\ Fields' /\ Flags' /\ Users' /\ StackTyped /\ user' = user /\ (verified => verified')
        /\ registered' = registered /\ record \subseteq record' /\ Len(stack) \in Nat
    BY <1>0, AuthSame DEF StackTyped
  <1>3. PICK p \in PageNames : p = VerifyPage(user, verified)
    BY DEF PageNames, VerifyPage
  <1>4. PICK new \in {<<>>, <<p>>} : new = IF empty /\ calls[c].live THEN <<p>> ELSE <<>>
    OBVIOUS
  <1>5. PICK cs : cs = Ended(c)
    OBVIOUS
  <1>6. cs \in [Calls -> CallSet] /\ cs[c] = NoCall /\ \A d \in Calls : d # c => cs[d] = calls[d]
    BY <1>2, <1>5, EndedIs
  <1>7. 0 \in 0..2 /\ Show(cs, 0, new) /\ new \in {<<>>, <<p>>}
    BY <1>3, <1>4, <1>5 DEF MethodsDone
  <1>8. PICK m : m = Left(0)
    OBVIOUS
  <1>9. IsShown(cs, m, 0, p, new) /\ m = Len(stack)
    <2>1. IsShown(cs, m, 0, p, new)
      BY <1>2, <1>6, <1>7, <1>8, ShowIs, Zenon
    <2> QED
      BY <1>2, <1>8, <2>1 DEF Left
  <1>10. StackTyped'
    BY <1>9 DEF IsShown
  <1>11. ASSUME ~raced, empty => MyPage(c) PROVE Good'
    <2>1. Placed /\ Users /\ cs[c].page = 0 /\ calls[c].await \notin Asks \union Looks
      BY <1>0, <1>6, <1>11 DEF IInv, Good, NoCall, Asks, Looks
    <2>2. /\ Len(stack') = m + 1 => stack'[m + 1] = p /\ MyPage(c)
          /\ Len(stack') = m \/ MyPage(c)
      BY <1>2, <1>4, <1>9, <1>11 DEF IsShown
    <2>3. ASSUME MyPage(c)
          PROVE  ~OnTop({"Verify"}) /\ \A i \in 1..m : stack[i] \notin CoverPages
      <3>1. Len(stack) \in 1..Len(stack) /\ stack[Len(stack)] \in PagesOf["methods"]
        BY <1>0, <1>2, <1>11, <2>3, PageIs
      <3>2. stack[Len(stack)] = SignUpWidget
        BY <3>1 DEF PagesOf
      <3>3. stack[Len(stack)] \notin Inner /\ stack[Len(stack)] \notin CoverPages
            /\ stack[Len(stack)] # "Verify"
        BY <3>2 DEF SignUpWidget, Inner, CoverPages, ForgotPasswordPage, EmailSentPage
      <3>4. \A i \in 1..(Len(stack) - 1) : stack[i] \notin CoverPages
        BY <1>2, <2>1, <3>1, <3>3, NoCover
      <3>5. \A i \in 1..m : i = Len(stack) \/ i \in 1..(Len(stack) - 1)
        BY <1>2, <1>9
      <3>6. ~OnTop({"Verify"})
        BY <3>3 DEF OnTop, Top
      <3> QED
        BY <3>3, <3>4, <3>5, <3>6
    <2>4. Steady(m)
      <3>1. \A i \in 1..m : stack[i] = "Cover" => verified'
        BY <1>2, <1>9, <2>1 DEF Placed
      <3> QED
        BY <1>0, <1>2, <1>9, <2>2, <2>3, <3>1 DEF Steady
    <2>5. p \in {"Error", "VerifyIdle", "Verify"} /\ (p = "Verify" => user = "email")
      <3>1. user \in {"none", "email", "google"}
        BY DEF IInv, Fields, Accounts
      <3> QED
        BY <1>3, <2>1, <3>1 DEF VerifyPage, Users
    <2>6. Opens(m)
      BY <1>2, <2>2, <2>3, <2>5 DEF Opens, CoverPages
    <2>7. /\ cs[c].page = 0 \/ CallOK(c)'
          /\ calls[c].await \in Asks => calls[c].page >= m
          /\ calls[c].await \in Looks => cs[c].await \in Looks \/ missed' \/ "google" \in record'
      BY <2>1
    <2> QED
      BY <1>6, <1>7, <1>9, <1>11, <2>4, <2>6, <2>7, AnswerGood, ZenonT(30)
  <1> QED
    BY <1>1, <1>2, <1>10, <1>11 DEF IInv

\* Google's answer: the user is signed in, and the call looks for the record.
LEMMA GoogleOkStep == ASSUME IInv, NEW c \in Calls, GoogleOk(c) PROVE IInv'
  <1>0. /\ calls[c].await = "google" /\ calls' = Continued(c, "check") /\ user' = "google"
        /\ verified' = TRUE /\ stack' = stack /\ registered' = registered /\ confirmed' = confirmed
        /\ record' = record /\ signOuts' = signOuts /\ missed' = missed /\ threw' = threw
    BY DEF GoogleOk, Awaiting, server
  <1>1. ~raced' => ~raced /\ MyPage(c) /\ calls[c].live
    BY Zenon DEF GoogleOk
  <1>2. StackTyped /\ Fields /\ Flags /\ Users
    BY DEF IInv
  <1>3. Flags' /\ Users'
    <2>1. user' # "none" /\ user' # "email"
      BY <1>0
    <2> QED
      BY <1>0, <1>2, <2>1, Zenon DEF Flags, Users
  <1>4. Fields'
    BY <1>0, <1>2 DEF Fields, Accounts
  <1>5. "check" \in Awaits
    BY DEF Awaits
  <1>6. /\ calls' \in [Calls -> CallSet] /\ calls'[c] = [calls[c] EXCEPT !.await = "check"]
        /\ \A d \in Calls : d # c => calls'[d] = calls[d]
    BY <1>0, <1>2, <1>5, ContinuedIs
  <1>7. /\ calls'[c].await = "check" /\ calls'[c].page = calls[c].page
        /\ calls'[c].live = calls[c].live
    BY <1>2, <1>6 DEF StackTyped, CallSet
  <1>8. StackTyped' /\ Shape(Len(stack)) /\ Len(stack) \in Nat
    <2>1. \A d \in Calls : calls'[d].page <= Len(stack)
      BY <1>2, <1>6, <1>7 DEF StackTyped
    <2> QED
      BY <1>0, <1>2, <1>6, <2>1, StayIs
  <1>9. ASSUME ~raced, MyPage(c), calls[c].live PROVE Good'
    <2>0. Placed /\ Owned /\ EmailRecorded /\ GoogleRecorded /\ Circled
      BY <1>9 DEF IInv, Good
    <2>1. PICK m : m = Len(stack)
      OBVIOUS
    <2>2. Len(stack) \in 1..Len(stack) /\ stack[Len(stack)] \in PagesOf["google"]
      BY <1>0, <1>9, PageIs
    <2>3. /\ stack[Len(stack)] \notin Inner /\ stack[Len(stack)] \notin CoverPages
          /\ stack[Len(stack)] # "Verify"
      BY <2>2 DEF PagesOf, Forms, LoginWidget, SignUpWidget, Inner, CoverPages,
                  ForgotPasswordPage, EmailSentPage
    <2>4. \A i \in 1..Len(stack) : stack[i] \notin CoverPages
      <3>1. \A i \in 1..(Len(stack) - 1) : stack[i] \notin CoverPages
        BY <1>2, <2>0, <2>2, <2>3, NoCover
      <3>2. \A i \in 1..Len(stack) : i = Len(stack) \/ i \in 1..(Len(stack) - 1)
        BY <1>8
      <3> QED
        BY <2>3, <3>1, <3>2
    <2>5. \A i \in 1..Len(stack) : stack[i] # "Verify"
      BY <2>0, <2>3 DEF Placed
    <2>6. Shape(m) /\ ~(Len(stack') = m + 1)
      BY <1>0, <1>8, <2>1
    <2>7. Placed'
      BY <1>2, <2>0, <2>1, <2>4, <2>5, <2>6, PlacedStep DEF CoverPages
    <2>8. ASSUME NEW d \in Calls
          PROVE  (d # c => Same(d, m)) /\ (Same(d, m) \/ CallOK(d)')
      <3>1. CASE d # c
        BY <1>2, <1>6, <2>1, <3>1, StaySame
      <3>2. CASE d = c
        <4>1. CallOK(c)
          BY <2>0 DEF Owned
        <4>2. CallOK(c)'
          BY <1>0, <1>5, <1>7, <4>1 DEF CallOK, PagesOf, ByGoogle
        <4> QED
          BY <3>2, <4>2
      <3> QED
        BY <3>1, <3>2
    <2>9. Owned'
      BY <1>2, <1>8, <2>0, <2>6, <2>8, OwnedStep
    <2>10. Circled'
      <3>1. \A d \in Calls : calls[d].await \in Asks => Same(d, m)
        BY <1>0, <2>8 DEF Asks
      <3>2. ~threw' => ~threw
        BY <1>0
      <3> QED
        BY <1>2, <2>0, <2>6, <3>1, <3>2, CircledStep
    <2>11. EmailRecorded'
      <3>1. OnTop({"Verify"})' <=> OnTop({"Verify"})
        BY <1>0 DEF OnTop, Top
      <3> QED
        BY <1>0, <2>0, <3>1 DEF EmailRecorded
    <2>12. GoogleRecorded'
      BY <1>0, <1>7, <2>4 DEF GoogleRecorded, Looks
    <2> QED
      BY <2>7, <2>9, <2>10, <2>11, <2>12 DEF Good
  <1> QED
    BY <1>1, <1>3, <1>4, <1>8, <1>9 DEF IInv

\* signOut takes effect: without a race the user is on Auth, and there is no Cover below.
LEMMA SignedOutStep == ASSUME IInv, SignedOut PROVE IInv'
  <1>0. /\ signOuts > 0 /\ signOuts' = signOuts - 1 /\ user' = "none" /\ verified' = FALSE
        /\ stack' = stack /\ calls' = calls /\ registered' = registered /\ confirmed' = confirmed
        /\ record' = record /\ missed' = missed /\ threw' = threw
    BY DEF SignedOut, server
  <1>1. ~raced' => ~raced /\ OnTop({AuthPage})
    BY Zenon DEF SignedOut
  <1>2. StackTyped /\ Fields /\ Flags /\ Users
    BY DEF IInv
  <1>3. Flags' /\ Users'
    <2>1. user' # "google" /\ user' # "email"
      BY <1>0
    <2> QED
      BY <1>0, <1>2, <2>1, Zenon DEF Flags, Users
  <1>4. Fields' /\ StackTyped' /\ Len(stack) \in Nat
    BY <1>0, <1>2 DEF Fields, StackTyped
  <1>5. ASSUME ~raced, OnTop({AuthPage}) PROVE Good'
    <2>0. Placed /\ Owned /\ EmailRecorded /\ GoogleRecorded /\ Circled
      BY <1>5 DEF IInv, Good
    <2>1. Len(stack) \in 1..Len(stack) /\ stack[Len(stack)] = AuthPage
      BY <1>2, <1>4, <1>5 DEF OnTop, Top, StackTyped
    <2>2. /\ stack[Len(stack)] \notin Inner /\ stack[Len(stack)] \notin CoverPages
          /\ stack[Len(stack)] # "Verify"
      BY <2>1 DEF AuthPage, Inner, CoverPages, ForgotPasswordPage, EmailSentPage
    <2>3. \A i \in 1..Len(stack) : stack[i] \notin CoverPages
      <3>1. \A i \in 1..(Len(stack) - 1) : stack[i] \notin CoverPages
        BY <1>2, <2>0, <2>1, <2>2, NoCover
      <3>2. \A i \in 1..Len(stack) : i = Len(stack) \/ i \in 1..(Len(stack) - 1)
        BY <1>4
      <3> QED
        BY <2>2, <3>1, <3>2
    <2>4. \A i \in 1..Len(stack) : stack[i] # "Verify"
      BY <2>0, <2>2 DEF Placed
    <2>5. PICK m : m = Len(stack)
      OBVIOUS
    <2>6. Shape(m) /\ ~(Len(stack') = m + 1)
      BY <1>0, <1>4, <2>5 DEF Shape
    <2>7. Placed'
      BY <1>2, <2>0, <2>3, <2>4, <2>5, <2>6, PlacedStep DEF CoverPages
    <2>8. Owned'
      BY <1>0, <2>0 DEF Owned, CallOK, ByGoogle
    <2>9. Circled'
      BY <1>0, <2>0 DEF Circled
    <2>10. EmailRecorded'
      <3>1. OnTop({"Verify"})' <=> OnTop({"Verify"})
        BY <1>0 DEF OnTop, Top
      <3> QED
        BY <1>0, <2>0, <3>1 DEF EmailRecorded
    <2>11. GoogleRecorded'
      BY <1>0 DEF GoogleRecorded
    <2> QED
      BY <2>7, <2>8, <2>9, <2>10, <2>11 DEF Good
  <1> QED
    BY <1>1, <1>3, <1>4, <1>5 DEF IInv

\* A form opens, and with it a call of initializeFirebase.
LEMMA OpenFormStep ==
    ASSUME IInv, NEW c \in Calls, NEW k \in {0, 1}, NEW form \in Forms, NEW page,
           OnTop({page}), page \in {AuthPage, LoginWidget, SignUpWidget}, OpenForm(c, k, form)
    PROVE  IInv'
  <1>0. /\ UNCHANGED <<auth, server, signOuts>> /\ Free(c) /\ stack' = After(k, <<form>>)
        /\ calls' = [Kept(calls, k) EXCEPT
                       ![c] = [await |-> "init", page |-> Left(k) + 1, live |-> TRUE]]
        /\ (~raced' => ~raced) /\ (~missed' => ~missed) /\ (~threw' => ~threw)
    BY DEF OpenForm, history
  <1>1. /\ Fields' /\ Flags' /\ Users' /\ StackTyped /\ user' = user /\ (verified => verified')
        /\ registered' = registered /\ record \subseteq record'
    BY <1>0, AuthSame
  <1>2. /\ stack \in Seq(PageNames) /\ calls \in [Calls -> CallSet] /\ Len(stack) \in Nat
        /\ Len(stack) \in 1..Len(stack) /\ stack[Len(stack)] = page
    BY <1>1 DEF StackTyped, OnTop, Top
  <1>3. form \in PageNames /\ k \in 0..2
    BY DEF Forms, PageNames
  <1>4. PICK m : m = Left(k)
    OBVIOUS
  <1>5. m \in Nat /\ m + 1 \in Nat /\ m \in 0..Len(stack) /\ m <= Len(stack) /\ Len(stack) >= k
    BY <1>2, <1>4 DEF Left
  <1>6. /\ stack' \in Seq(PageNames) /\ Len(stack') = m + 1 /\ stack'[m + 1] = form
        /\ \A i \in 1..m : stack'[i] = stack[i]
    <2>1. PICK r : r = stack'
      OBVIOUS
    <2>2. r = After(k, <<form>>) /\ <<form>> \in {<<>>, <<form>>}
      BY <1>0, <2>1
    <2>3. IsAfter(r, k, form, <<form>>)
      BY <1>2, <1>3, <2>2, AfterIs
    <2> QED
      BY <1>4, <1>5, <2>1, <2>3 DEF IsAfter
  <1>7. PICK ks : ks = Kept(calls, k)
    OBVIOUS
  <1>8. /\ ks \in [Calls -> CallSet]
        /\ \A d \in Calls : /\ ks[d].await = calls[d].await /\ ks[d].live = calls[d].live
                            /\ ks[d].page = IF calls[d].page > m THEN 0 ELSE calls[d].page
                            /\ ks[d].page <= m
    BY <1>2, <1>3, <1>4, <1>7, KeptIs
  <1>9. PICK x : x = [await |-> "init", page |-> m + 1, live |-> TRUE]
    OBVIOUS
  <1>10. x \in CallSet /\ x.await = "init" /\ x.page = m + 1 /\ x.live
    BY <1>5, <1>9 DEF CallSet, Awaits
  <1>11. /\ calls' \in [Calls -> CallSet] /\ calls'[c] = x
         /\ \A d \in Calls : d # c => calls'[d] = ks[d]
    <2>1. calls' = [ks EXCEPT ![c] = x]
      BY <1>0, <1>4, <1>7, <1>9
    <2> QED
      BY <1>8, <1>10, <2>1
  <1>12. StackTyped' /\ Shape(m)
    <2>1. ASSUME NEW d \in Calls PROVE calls'[d].page <= Len(stack')
      <3>1. CASE d = c
        BY <1>5, <1>6, <1>10, <1>11, <3>1
      <3>2. CASE d # c
        <4>1. calls'[d].page <= m /\ calls'[d].page \in Nat
          BY <1>8, <1>11, <3>2 DEF CallSet
        <4> QED
          BY <1>5, <1>6, <4>1
      <3> QED
        BY <3>1, <3>2
    <2> QED
      BY <1>5, <1>6, <1>11, <2>1 DEF StackTyped, Shape
  <1>13. ASSUME ~raced PROVE Good'
    <2>1. Placed /\ Good
      BY <1>13 DEF IInv, Good
    <2>2. page \notin Inner /\ page \notin CoverPages /\ page # "Verify"
      BY DEF Inner, CoverPages, AuthPage, LoginWidget, SignUpWidget, ForgotPasswordPage,
             EmailSentPage
    <2>3. \A i \in 1..m : stack[i] \notin CoverPages
      <3>1. \A i \in 1..(Len(stack) - 1) : stack[i] \notin CoverPages
        BY <1>1, <1>2, <2>1, <2>2, NoCover
      <3>2. \A i \in 1..m : i = Len(stack) \/ i \in 1..(Len(stack) - 1)
        BY <1>2, <1>5
      <3> QED
        BY <1>2, <2>2, <3>1, <3>2
    <2>4. ~OnTop({"Verify"})
      BY <1>2, <2>2 DEF OnTop, Top
    <2>5. Steady(m)
      BY <1>0, <1>1, <2>3, <2>4 DEF Steady, CoverPages
    <2>6. form \notin {"Cover", "Profile", "Verify", "Dialog"} /\ form \notin CoverPages
      BY DEF Forms, LoginWidget, SignUpWidget, CoverPages
    <2>7. Opens(m)
      BY <1>6, <2>3, <2>6 DEF Opens
    <2>8. CallOK(c)'
      BY <1>6, <1>10, <1>11 DEF CallOK, PagesOf, Awaits
    <2>9. ASSUME NEW d \in Calls, d # c PROVE Same(d, m) /\ calls'[d].await = calls[d].await
      <3>1. calls'[d] = ks[d]
        BY <1>11, <2>9
      <3> QED
        BY <1>8, <3>1 DEF Same
    <2>10. calls[c].await \notin Asks /\ calls[c].await \notin Looks
      BY <1>0 DEF Free, Asks, Looks
    <2>11. /\ \A d \in Calls : calls'[d].page = 0 \/ Same(d, m) \/ CallOK(d)'
           /\ \A d \in Calls : calls[d].await \in Asks => Same(d, m)
           /\ \A d \in Calls : calls[d].await \in Looks => calls'[d].await \in Looks
      BY <2>8, <2>9, <2>10
    <2> QED
      BY <1>1, <1>12, <2>1, <2>5, <2>7, <2>11, GoodChange
  <1> QED
    BY <1>0, <1>1, <1>12, <1>13 DEF IInv

\* The first frame of a Cover.
LEMMA CoverBuiltStep == ASSUME IInv, NEW i \in DOMAIN stack, CoverBuilt(i) PROVE IInv'
  <1>0. /\ UNCHANGED <<auth, server, signOuts>> /\ stack[i] = "Starting"
        /\ missed' = missed /\ threw' = threw
    BY DEF CoverBuilt
  <1>1. /\ Fields' /\ Flags' /\ Users' /\ StackTyped /\ user' = user /\ (verified => verified')
        /\ registered' = registered /\ record \subseteq record' /\ record' = record
    BY <1>0, AuthSame DEF server
  <1>2. /\ stack \in Seq(PageNames) /\ calls \in [Calls -> CallSet] /\ Len(stack) \in Nat
        /\ i \in 1..Len(stack)
    BY <1>1 DEF StackTyped
  <1>3. CASE verified
    <2>1. stack' = [stack EXCEPT ![i] = "Cover"] /\ calls' = calls /\ (~raced' => ~raced)
      BY <1>3 DEF CoverBuilt
    <2>2. /\ stack' \in Seq(PageNames) /\ Len(stack') = Len(stack) /\ stack'[i] = "Cover"
          /\ \A j \in 1..Len(stack) : j # i => stack'[j] = stack[j]
      BY <1>2, <2>1 DEF PageNames
    <2>3. StackTyped'
      BY <1>1, <2>1, <2>2 DEF StackTyped
    <2>4. ASSUME ~raced PROVE Good'
      <3>0. Placed /\ Owned /\ EmailRecorded /\ GoogleRecorded /\ Circled
        BY <2>4 DEF IInv, Good
      <3>1. "Cover" \in CoverPages /\ "Starting" \in CoverPages /\ "Starting" \notin Inner
        BY DEF CoverPages, Inner, ForgotPasswordPage, EmailSentPage
      <3>2. ASSUME NEW j \in 1..Len(stack)
            PROVE  /\ stack'[j] \in CoverPages => \A n \in (j + 1)..Len(stack') : stack'[n] \in Inner
                   /\ stack'[j] = "Profile" => j > 1 /\ stack'[j - 1] \in MenuPages
                   /\ stack'[j] = "Verify" => j = Len(stack') /\ user' = "email"
        <4>1. ASSUME stack'[j] \in CoverPages, NEW n \in (j + 1)..Len(stack') PROVE stack'[n] \in Inner
          <5>1. stack[j] \in CoverPages
            BY <1>0, <2>2, <3>1, <4>1
          <5>2. n \in (j + 1)..Len(stack) /\ n \in 1..Len(stack)
            BY <1>2, <2>2
          <5>3. stack[n] \in Inner
            BY <3>0, <5>1, <5>2 DEF Placed
          <5>4. n # i
            BY <1>0, <3>1, <5>3
          <5> QED
            BY <2>2, <5>2, <5>3, <5>4
        <4>2. ASSUME stack'[j] = "Profile" PROVE j > 1 /\ stack'[j - 1] \in MenuPages
          <5>1. stack[j] = "Profile"
            BY <2>2, <4>2
          <5>2. j > 1 /\ stack[j - 1] \in MenuPages
            BY <3>0, <5>1 DEF Placed
          <5>3. j - 1 \in 1..Len(stack) /\ j - 1 # i
            BY <1>0, <1>2, <5>2 DEF MenuPages
          <5> QED
            BY <2>2, <5>2, <5>3
        <4>3. ASSUME stack'[j] = "Verify" PROVE j = Len(stack') /\ user' = "email"
          BY <1>1, <2>2, <3>0, <4>3 DEF Placed
        <4> QED
          BY <4>1, <4>2, <4>3
      <3>3. Placed'
        BY <1>1, <1>3, <2>2, <3>2 DEF Placed
      <3>4. Owned'
        <4>1. ASSUME NEW d \in Calls, calls[d].page # 0 PROVE CallOK(d)'
          <5>1. CallOK(d)
            BY <3>0 DEF Owned
          <5>2. calls[d].page \in 1..Len(stack)
            <6>1. calls[d].page \in Nat /\ calls[d].page <= Len(stack)
              BY <1>1 DEF StackTyped, CallSet
            <6> QED
              BY <1>2, <4>1, <6>1
          <5>3. calls[d].page # i
            BY <1>0, <4>1, <5>1 DEF CallOK, PagesOf, Awaits, Forms, LoginWidget, SignUpWidget,
                                    ForgotPasswordPage
          <5>4. stack'[calls'[d].page] = stack[calls[d].page]
            BY <2>1, <2>2, <5>2, <5>3
          <5> QED
            BY <2>1, <5>1, <5>4 DEF CallOK, ByGoogle
        <4> QED
          BY <2>1, <4>1 DEF Owned, CallOK
      <3>5. EmailRecorded'
        <4>1. ASSUME OnTop({"Verify"}) PROVE OnTop({"Verify"})'
          <5>1. Len(stack) \in 1..Len(stack) /\ stack[Len(stack)] = "Verify"
            BY <1>2, <4>1 DEF OnTop, Top
          <5>2. stack'[Len(stack')] = "Verify" /\ stack' # <<>>
            BY <1>0, <1>2, <2>2, <5>1
          <5> QED
            BY <5>2 DEF OnTop, Top
        <4> QED
          BY <1>0, <1>1, <3>0, <4>1 DEF EmailRecorded
      <3>6. GoogleRecorded'
        BY <1>0, <1>1, <1>2, <3>0, <3>1 DEF GoogleRecorded
      <3>7. Circled'
        BY <1>0, <2>1, <2>2, <3>0 DEF Circled
      <3> QED
        BY <3>3, <3>4, <3>5, <3>6, <3>7 DEF Good
    <2> QED
      BY <1>1, <2>1, <2>3, <2>4 DEF IInv
  <1>4. CASE ~verified
    <2>1. /\ stack' = [After(1, <<AuthPage>>) EXCEPT ![i] = IF i = Len(stack) THEN @ ELSE "Cover"]
          /\ calls' = Kept(calls, 1) /\ raced' = (raced \/ i # Len(stack))
      BY <1>4 DEF CoverBuilt
    <2>2. PICK r : r = After(1, <<AuthPage>>)
      OBVIOUS
    <2>3. AuthPage \in PageNames /\ "Cover" \in PageNames /\ 1 \in 0..2
      BY DEF PageNames
    <2>4. Left(1) = Len(stack) - 1 /\ Len(stack) >= 1
      BY <1>2 DEF Left
    <2>5. r \in Seq(PageNames) /\ Len(r) = Len(stack)
      <3>1. IsAfter(r, 1, AuthPage, <<AuthPage>>)
        BY <1>2, <2>2, <2>3, AfterIs
      <3> QED
        BY <1>2, <2>4, <3>1 DEF IsAfter
    <2>6. PICK q : q = IF i = Len(stack) THEN r[i] ELSE "Cover"
      OBVIOUS
    <2>7. stack' = [r EXCEPT ![i] = q] /\ q \in PageNames
      BY <1>2, <2>1, <2>2, <2>3, <2>5, <2>6
    <2>8. stack' \in Seq(PageNames) /\ Len(stack') = Len(stack)
      BY <1>2, <2>5, <2>7
    <2>9. StackTyped'
      <3>1. calls' \in [Calls -> CallSet] /\ \A d \in Calls : calls'[d].page <= Len(stack) - 1
        BY <1>2, <2>1, <2>3, <2>4, KeptIs
      <3>2. \A d \in Calls : calls'[d].page \in Nat
        BY <3>1 DEF CallSet
      <3>3. \A d \in Calls : calls'[d].page <= Len(stack')
        BY <1>2, <2>8, <3>1, <3>2
      <3> QED
        BY <2>8, <3>1, <3>3 DEF StackTyped
    <2>10. ASSUME ~raced, i = Len(stack) PROVE Good'
      <3>1. stack' = r
        BY <1>2, <2>5, <2>6, <2>7, <2>10
      <3>2. Show(calls, 1, <<AuthPage>>)
        BY <2>1, <2>2, <3>1 DEF Show
      <3>3. Placed /\ stack[i] \notin Inner
        BY <1>0, <2>10 DEF IInv, Good, Inner, ForgotPasswordPage, EmailSentPage
      <3>4. \A j \in 1..Left(1) : stack[j] \notin CoverPages
        BY <1>1, <1>2, <2>4, <2>10, <3>3, NoCover
      <3>5. ~OnTop({"Verify"}) /\ AuthPage \notin CoverPages \union {"Dialog", "Verify"}
            /\ AuthPage # "Profile"
        BY <1>0, <2>10 DEF OnTop, Top, CoverPages, AuthPage
      <3>6. (~missed' => ~missed) /\ (~threw' => ~threw)
        BY <1>0
      <3> QED
        BY <1>1, <2>3, <2>10, <3>2, <3>4, <3>5, <3>6, ShowGood
    <2>11. ~raced' => ~raced /\ i = Len(stack)
      BY <2>1, Zenon
    <2> QED
      BY <1>1, <2>9, <2>10, <2>11 DEF IInv
  <1> QED
    BY <1>3, <1>4

\* The app is closed and started again.
LEMMA RestartStep == ASSUME IInv, Restart PROVE IInv'
  <1>0. /\ stack' = <<"Starting">> /\ calls' = [c \in Calls |-> NoCall] /\ signOuts' = 0
        /\ user' = user /\ verified' = verified /\ confirmed' = confirmed /\ threw' = threw
        /\ raced' = raced
    BY DEF Restart, auth
  <1>1. StackTyped /\ Fields /\ Flags /\ Users
    BY DEF IInv
  <1>2. /\ registered' \in {registered, registered \/ \E c \in Calls : Awaiting(c, "signUp")}
        /\ record' \in {record, record \union {a \in Accounts :
                                                \E c \in Calls : Awaiting(c, Creating[a])}}
        /\ missed' = (missed \/ "Verify" \in Range(stack) \/ (\E c \in Calls : Awaiting(c, "signUp"))
                             \/ (\E c \in Calls : Awaiting(c, "createEmail"))
                             \/ \E c \in Calls : ByGoogle(c))
    BY DEF Restart
  <1>3. /\ registered' \in BOOLEAN
        /\ registered => registered'
        /\ registered' => registered \/ \E c \in Calls : Awaiting(c, "signUp")
    <2>0. registered \in BOOLEAN
      BY <1>1 DEF Flags
    <2>1. CASE registered' = registered
      BY <2>0, <2>1, Zenon
    <2>2. CASE registered' = (registered \/ \E c \in Calls : Awaiting(c, "signUp"))
      BY <2>0, <2>2, Zenon
    <2> QED
      BY <1>2, <2>1, <2>2
  <1>4. record \subseteq record' /\ record' \subseteq Accounts
    BY <1>1, <1>2 DEF Fields
  <1>5. ~missed' => /\ ~missed /\ "Verify" \notin Range(stack)
                    /\ \A c \in Calls : ~Awaiting(c, "signUp") /\ ~ByGoogle(c)
    BY <1>2, Zenon
  <1>6. Flags'
    BY <1>0, <1>1, <1>3, Zenon DEF Flags
  <1>7. Users'
    BY <1>0, <1>1, <1>3, Zenon DEF Users
  <1>8. Fields'
    BY <1>0, <1>1, <1>4 DEF Fields
  <1>9. /\ stack' \in Seq(PageNames) /\ Len(stack') = 1 /\ stack'[1] = "Starting"
        /\ \A c \in Calls : calls'[c] = NoCall /\ calls'[c].page = 0
    <2>1. "Starting" \in PageNames
      BY DEF PageNames
    <2>2. /\ <<"Starting">> \in Seq(PageNames) /\ Len(<<"Starting">>) = 1
          /\ <<"Starting">>[1] = "Starting"
      BY <2>1
    <2>3. \A c \in Calls : calls'[c] = NoCall /\ calls'[c].page = 0
      BY <1>0 DEF NoCall
    <2> QED
      BY <1>0, <2>2, <2>3, Zenon
  <1>10. StackTyped'
    <2>1. NoCall \in CallSet
      BY DEF NoCall, CallSet
    <2>2. calls' \in [Calls -> CallSet]
      BY <1>0, <2>1
    <2> QED
      BY <1>9, <2>2 DEF StackTyped
  <1>11. ASSUME ~raced PROVE Good'
    <2>0. EmailRecorded /\ GoogleRecorded
      BY <1>11 DEF IInv, Good
    <2>1. \A i \in 1..Len(stack') : i = 1 /\ i = Len(stack') /\ stack'[i] = "Starting"
      BY <1>9
    <2>2. Placed'
      <3>1. \A i \in 1..Len(stack') : \A j \in (i + 1)..Len(stack') : FALSE
        BY <1>9
      <3> QED
        BY <2>1, <3>1 DEF Placed
    <2>3. Owned'
      BY <1>9 DEF Owned, CallOK
    <2>4. Circled'
      BY <2>1 DEF Circled
    <2>5. ASSUME OnTop({"Verify"}) PROVE "Verify" \in Range(stack)
      <3>1. Len(stack) \in DOMAIN stack /\ stack[Len(stack)] = "Verify"
        BY <1>1, <2>5 DEF OnTop, Top, StackTyped
      <3> QED
        BY <3>1 DEF Range
    <2>6. ASSUME registered', ~missed', "email" \notin record' PROVE FALSE
      <3>1. registered /\ ~missed /\ "email" \notin record
        BY <1>3, <1>4, <1>5, <2>6
      <3> QED
        BY <1>5, <2>0, <2>5, <2>6, <3>1 DEF EmailRecorded
    <2>7. ASSUME user' = "google", ~missed', "google" \notin record' PROVE FALSE
      <3>1. \E c \in Calls : calls[c].await \in Looks
        BY <1>0, <1>4, <1>5, <2>0, <2>7 DEF GoogleRecorded
      <3>2. \E c \in Calls : ByGoogle(c)
        BY <3>1 DEF Looks, ByGoogle
      <3> QED
        BY <1>5, <2>7, <3>2
    <2> QED
      BY <2>2, <2>3, <2>4, <2>6, <2>7 DEF Good, EmailRecorded, GoogleRecorded
  <1> QED
    BY <1>0, <1>6, <1>7, <1>8, <1>10, <1>11 DEF IInv

-----------------------------------------------------------------------------
(* The inductive invariant *)

\* The app as it starts.
LEMMA InitIInv == Init => IInv
  <1> SUFFICES ASSUME Init PROVE IInv
    OBVIOUS
  <1>0. /\ stack = <<"Starting">> /\ calls = [c \in Calls |-> NoCall] /\ signOuts = 0
        /\ user \in {"none"} \union Accounts /\ registered \in BOOLEAN /\ confirmed \in BOOLEAN
        /\ user = "email" => registered
        /\ confirmed => registered
        /\ verified = CASE user = "none" -> FALSE [] user = "email" -> confirmed [] OTHER -> TRUE
        /\ record = (IF user = "google" THEN {"google"} ELSE {})
                       \union (IF confirmed THEN {"email"} ELSE {})
        /\ missed = (registered /\ ~confirmed)
    BY DEF Init
  <1>1. user \in {"none", "email", "google"}
    BY <1>0 DEF Accounts
  <1>2. /\ user = "none" => verified = FALSE
        /\ user = "email" => verified = confirmed
        /\ user = "google" => verified = TRUE
    BY <1>0, <1>1
  <1>3. verified \in BOOLEAN
    BY <1>0, <1>1, <1>2
  <1>4. Flags /\ Users
    BY <1>0, <1>2, <1>3, Zenon DEF Flags, Users
  <1>5. Fields
    BY <1>0, <1>1 DEF Fields, Accounts
  <1>6. /\ stack \in Seq(PageNames) /\ Len(stack) = 1 /\ stack[1] = "Starting"
        /\ \A c \in Calls : calls[c] = NoCall /\ calls[c].page = 0
    <2>1. "Starting" \in PageNames
      BY DEF PageNames
    <2>2. /\ <<"Starting">> \in Seq(PageNames) /\ Len(<<"Starting">>) = 1
          /\ <<"Starting">>[1] = "Starting"
      BY <2>1
    <2>3. \A c \in Calls : calls[c] = NoCall /\ calls[c].page = 0
      BY <1>0 DEF NoCall
    <2> QED
      BY <1>0, <2>2, <2>3, Zenon
  <1>7. StackTyped
    <2>1. NoCall \in CallSet
      BY DEF NoCall, CallSet
    <2>2. calls \in [Calls -> CallSet]
      BY <1>0, <2>1
    <2> QED
      BY <1>6, <2>2 DEF StackTyped
  <1>8. \A i \in 1..Len(stack) : i = 1 /\ i = Len(stack) /\ stack[i] = "Starting"
    BY <1>6
  <1>9. Placed
    <2>1. \A i \in 1..Len(stack) : \A j \in (i + 1)..Len(stack) : FALSE
      BY <1>6
    <2> QED
      BY <1>8, <2>1 DEF Placed
  <1>10. Owned
    BY <1>6 DEF Owned, CallOK
  <1>11. Circled
    BY <1>8 DEF Circled
  <1>12. EmailRecorded
    <2>1. ASSUME registered, ~missed PROVE "email" \in record
      <3>1. confirmed
        BY <1>0, <2>1, Zenon
      <3> QED
        BY <1>0, <3>1
    <2> QED
      BY <2>1 DEF EmailRecorded
  <1>13. GoogleRecorded
    BY <1>0 DEF GoogleRecorded
  <1> QED
    BY <1>4, <1>5, <1>7, <1>9, <1>10, <1>11, <1>12, <1>13 DEF IInv, Good

\* A call is answered.
LEMMA AnswerStep == ASSUME IInv, NEW c \in Calls, Answer(c) PROVE IInv'
  <1>1. CASE InitDone(c)
    BY <1>1, InitDoneStep
  <1>2. CASE SignInOk(c)
    BY <1>2, SignInOkStep
  <1>3. CASE SignInRefused(c) \/ SignUpFailed(c) \/ ResetRefused(c)
    BY <1>3, RefusedStep DEF SignInRefused, SignUpFailed, ResetRefused, Awaiting, Asks
  <1>4. CASE SignInThrew(c) \/ ResetThrew(c)
    BY <1>4, ThrewStep DEF SignInThrew, ResetThrew, Awaiting, Asks
  <1>5. CASE SignUpOk(c)
    BY <1>5, SignUpOkStep
  <1>6. CASE SignUpInUse(c)
    BY <1>6, SignUpInUseStep
  <1>7. CASE \E e \in BOOLEAN : MethodsDone(c, e)
    BY <1>7, MethodsDoneStep
  <1>8. CASE ResetOk(c)
    BY <1>8, ResetOkStep
  <1>9. CASE GoogleOk(c)
    BY <1>9, GoogleOkStep
  <1>10. CASE GoogleFailed(c)
    BY <1>10, GoogleFailedStep
  <1>11. CASE \E e \in BOOLEAN : CheckDone(c, e)
    BY <1>11, CheckDoneStep
  <1>12. CASE \E e \in BOOLEAN : CreateDone(c, e)
    BY <1>12, CreateDoneStep
  <1> QED
    BY <1>1, <1>2, <1>3, <1>4, <1>5, <1>6, <1>7, <1>8, <1>9, <1>10, <1>11, <1>12 DEF Answer

\* A form is opened, from Auth or from the other form.
LEMMA FormStep ==
    ASSUME IInv, NEW c \in Calls,
           OpenLogin(c) \/ OpenSignUp(c) \/ SwitchToSignUp(c) \/ SwitchToLogin(c)
    PROVE  IInv'
  <1>0. LoginWidget \in Forms /\ SignUpWidget \in Forms
    BY DEF Forms
  <1>1. CASE OpenLogin(c)
    BY <1>0, <1>1, OpenFormStep DEF OpenLogin
  <1>2. CASE OpenSignUp(c)
    BY <1>0, <1>2, OpenFormStep DEF OpenSignUp
  <1>3. CASE SwitchToSignUp(c)
    BY <1>0, <1>3, OpenFormStep DEF SwitchToSignUp
  <1>4. CASE SwitchToLogin(c)
    BY <1>0, <1>4, OpenFormStep DEF SwitchToLogin
  <1> QED
    BY <1>1, <1>2, <1>3, <1>4

\* A request is sent.
LEMMA RequestStep ==
    ASSUME IInv, NEW c \in Calls, SignIn(c) \/ SignUp(c) \/ ResetPassword(c) PROVE IInv'
  <1>1. CASE SignIn(c)
    <2>1. "signIn" \in Asks /\ LoginWidget \in PagesOf["signIn"] /\ LoginWidget # "Verify"
      BY DEF Asks, PagesOf, LoginWidget
    <2> QED
      BY <1>1, <2>1, AskStep DEF SignIn
  <1>2. CASE SignUp(c)
    <2>1. "signUp" \in Asks /\ SignUpWidget \in PagesOf["signUp"] /\ SignUpWidget # "Verify"
      BY DEF Asks, PagesOf, SignUpWidget
    <2> QED
      BY <1>2, <2>1, AskStep DEF SignUp
  <1>3. CASE ResetPassword(c)
    <2>1. /\ "reset" \in Asks /\ ForgotPasswordPage \in PagesOf["reset"]
          /\ ForgotPasswordPage # "Verify"
      BY DEF Asks, PagesOf, ForgotPasswordPage
    <2> QED
      BY <1>3, <2>1, AskStep DEF ResetPassword
  <1> QED
    BY <1>1, <1>2, <1>3

\* Nothing happens.
LEMMA StutterStep == ASSUME IInv, UNCHANGED vars PROVE IInv'
  <1>0. /\ UNCHANGED <<auth, server, signOuts>> /\ stack' = stack /\ calls' = calls
        /\ (~raced' => ~raced) /\ (~missed' => ~missed) /\ (~threw' => ~threw)
    BY DEF vars, history
  <1>1. /\ Fields' /\ Flags' /\ Users' /\ StackTyped /\ user' = user /\ (verified => verified')
        /\ registered' = registered /\ record \subseteq record'
    BY <1>0, AuthSame
  <1>2. StackTyped'
    BY <1>0, <1>1 DEF StackTyped
  <1>3. ~raced => Good'
    BY <1>0, <1>1, <1>2, StayGood
  <1> QED
    BY <1>0, <1>1, <1>2, <1>3 DEF IInv

\* Every step keeps the invariant.
LEMMA NextIInv == IInv /\ [Next]_vars => IInv'
  <1> SUFFICES ASSUME IInv, [Next]_vars PROVE IInv'
    OBVIOUS
  <1>1. CASE \E i \in DOMAIN stack : CoverBuilt(i)
    BY <1>1, CoverBuiltStep
  <1>2. CASE Menu
    BY <1>2, MenuStep
  <1>3. CASE \E d \in BOOLEAN : LogOut(d)
    BY <1>3, LogOutStep
  <1>4. CASE SignedOut
    BY <1>4, SignedOutStep
  <1>5. CASE OpenForgot
    BY <1>5, OpenForgotStep
  <1>6. CASE Back
    BY <1>6, BackStep
  <1>7. CASE ClickLink
    BY <1>7, ClickLinkStep
  <1>8. CASE Restart
    BY <1>8, RestartStep
  <1>9. ASSUME NEW c \in Calls,
               \/ OpenLogin(c) \/ OpenSignUp(c) \/ SwitchToSignUp(c) \/ SwitchToLogin(c)
               \/ SignIn(c) \/ SignUp(c) \/ ResetPassword(c) \/ PressGoogle(c)
               \/ \E i \in DOMAIN stack : Rebuild(i, c)
               \/ \E i \in DOMAIN stack : VerifyReloaded(i, c)
               \/ ContextGone(c) \/ Answer(c)
        PROVE  IInv'
    <2>1. CASE OpenLogin(c) \/ OpenSignUp(c) \/ SwitchToSignUp(c) \/ SwitchToLogin(c)
      BY <2>1, FormStep
    <2>2. CASE SignIn(c) \/ SignUp(c) \/ ResetPassword(c)
      BY <2>2, RequestStep
    <2>3. CASE PressGoogle(c)
      BY <2>3, PressGoogleStep
    <2>4. CASE \E i \in DOMAIN stack : Rebuild(i, c)
      BY <2>4, RebuildStep
    <2>5. CASE \E i \in DOMAIN stack : VerifyReloaded(i, c)
      BY <2>5, VerifyReloadedStep
    <2>6. CASE ContextGone(c)
      BY <2>6, ContextGoneStep
    <2>7. CASE Answer(c)
      BY <2>7, AnswerStep
    <2> QED
      BY <1>9, <2>1, <2>2, <2>3, <2>4, <2>5, <2>6, <2>7
  <1>10. CASE UNCHANGED vars
    BY <1>10, StutterStep
  <1> QED
    BY <1>1, <1>2, <1>3, <1>4, <1>5, <1>6, <1>7, <1>8, <1>9, <1>10 DEF Next

\* The invariant holds throughout, raced or not, closed or not.
THEOREM Inductive == Spec => []IInv
  BY InitIInv, NextIInv, PTL DEF Spec

\* The types, also after a race: no continuation, whatever page it meets, leaves a call
\* with a page that is not in the stack.
THEOREM TypeCorrect == Spec => []TypeOK
  <1>1. IInv => TypeOK
    <2> SUFFICES ASSUME IInv PROVE TypeOK
      OBVIOUS
    <2>0. StackTyped /\ Fields /\ Flags
      BY DEF IInv
    <2>1. ASSUME NEW c \in Calls
          PROVE  calls[c] \in [await : Awaits \union {"none"}, page : 0..Len(stack), live : BOOLEAN]
      <3>1. calls[c] \in CallSet /\ calls[c].page <= Len(stack) /\ Len(stack) \in Nat
        BY <2>0 DEF StackTyped
      <3>2. calls[c].page \in 0..Len(stack)
        BY <3>1 DEF CallSet
      <3> QED
        BY <3>1, <3>2 DEF CallSet
    <2>2. calls \in [Calls -> [await : Awaits \union {"none"}, page : 0..Len(stack), live : BOOLEAN]]
      BY <2>0, <2>1 DEF StackTyped
    <2> QED
      BY <2>0, <2>2 DEF TypeOK, StackTyped, Fields, Flags
  <1> QED
    BY <1>1, Inductive, PTL

\* CoverPage.initState and LogOut: the Cover belongs to a verified user.
THEOREM StrangersKeptOut == Spec => []CoverVerified
  <1>1. IInv => CoverVerified
    <2> SUFFICES ASSUME IInv, OnTop({"Cover"}), ~raced PROVE verified
      BY DEF CoverVerified
    <2>1. StackTyped /\ Placed
      BY DEF IInv, Good
    <2>2. Len(stack) \in 1..Len(stack) /\ stack[Len(stack)] = "Cover"
      BY <2>1 DEF OnTop, Top, StackTyped
    <2> QED
      BY <2>1, <2>2 DEF Placed
  <1> QED
    BY <1>1, Inductive, PTL

\* checkIfFirstTimeLogin, checkEmailVerified and createUser: whoever is on the Cover has a
\* record, along every way to sign in and any interleaving of the calls.
THEOREM RecordedOnCover == Spec => []UserRecorded
  <1>1. IInv => UserRecorded
    <2> SUFFICES ASSUME IInv, OnTop({"Cover"}), user # "none", ~missed, ~raced, user \notin record
                 PROVE  FALSE
      BY DEF UserRecorded
    <2>1. StackTyped /\ EmailRecorded /\ GoogleRecorded /\ Users /\ user \in {"email", "google"}
      BY DEF IInv, Good, Fields, Accounts
    <2>2. Len(stack) \in 1..Len(stack) /\ stack[Len(stack)] = "Cover"
      BY <2>1 DEF OnTop, Top, StackTyped
    <2>3. CASE user = "email"
      BY <2>1, <2>2, <2>3 DEF Users, EmailRecorded, OnTop, Top
    <2>4. CASE user = "google"
      BY <2>1, <2>2, <2>4 DEF GoogleRecorded, CoverPages
    <2> QED
      BY <2>1, <2>3, <2>4
  <1> QED
    BY <1>1, Inductive, PTL

\* pushReplacement: however often users sign in and out, there is one Cover at most.
THEOREM CoverIsOne == Spec => []OneCover
  <1>1. IInv => OneCover
    <2> SUFFICES ASSUME IInv, ~raced PROVE Cardinality(Covers) <= 1
      BY DEF OneCover
    <2>1. StackTyped /\ Placed /\ DOMAIN stack = 1..Len(stack) /\ Len(stack) \in Nat
      BY DEF IInv, Good, StackTyped
    <2>2. ASSUME NEW i \in Covers, NEW j \in Covers, i < j PROVE FALSE
      <3>1. i \in 1..Len(stack) /\ j \in (i + 1)..Len(stack)
        BY <2>1, <2>2 DEF Covers
      <3>2. stack[j] \in Inner
        BY <2>1, <3>1 DEF Placed, Covers, CoverPages
      <3> QED
        BY <3>2 DEF Covers, Inner, ForgotPasswordPage, EmailSentPage
    <2>3. \A i \in Covers, j \in Covers : i = j
      <3>1. \A i \in Covers : i \in Nat
        BY <2>1 DEF Covers
      <3> QED
        BY <2>2, <3>1
    <2>4. CASE Covers = {}
      BY <2>4, FS_EmptySet
    <2>5. CASE \E i : i \in Covers
      <3>1. PICK i : Covers = {i}
        BY <2>3, <2>5
      <3>2. Cardinality(Covers) = 1
        BY <3>1, FS_Singleton
      <3> QED
        BY <3>2
    <2> QED
      BY <2>4, <2>5
  <1> QED
    BY <1>1, Inductive, PTL

\* signIn, signUp and resetPassword close the circles they open.
THEOREM CirclesOwned == Spec => []DialogOwned
  <1>1. IInv => DialogOwned
    <2> SUFFICES ASSUME IInv, ~threw, ~raced PROVE Cardinality(Dialogs) <= Cardinality(Asking)
      BY DEF DialogOwned
    <2>1. StackTyped /\ Circled /\ DOMAIN stack = 1..Len(stack) /\ Len(stack) \in Nat
      BY DEF IInv, Good, StackTyped
    <2> DEFINE P(i, c) == calls[c].page = i - 1
               f == [i \in Dialogs |-> CHOOSE c \in Asking : P(i, c)]
    <2>2. ASSUME NEW i \in Dialogs PROVE \E c \in Asking : P(i, c)
      BY <2>1 DEF Dialogs, Circled, Asking, Asks
    <2>3. ASSUME NEW i \in Dialogs PROVE f[i] \in Asking /\ calls[f[i]].page = i - 1
      <3>1. f[i] = CHOOSE c \in Asking : P(i, c)
        OBVIOUS
      <3> HIDE DEF P, f
      <3>2. f[i] \in Asking /\ P(i, f[i])
        BY <2>2, <3>1
      <3> QED
        BY <3>2 DEF P
    <2>4. f \in [Dialogs -> Asking]
      BY <2>3
    <2> HIDE DEF f
    <2>5. ASSUME NEW i \in Dialogs, NEW j \in Dialogs, f[i] = f[j] PROVE i = j
      <3>1. i \in Nat /\ j \in Nat /\ i - 1 = j - 1
        BY <2>1, <2>3, <2>5 DEF Dialogs
      <3> QED
        BY <3>1
    <2>6. f \in Injection(Dialogs, Asking)
      BY <2>4, <2>5 DEF Injection, IsInjective
    <2>7. IsFiniteSet(Asking)
      <3>1. Asking \in SUBSET Calls
        BY DEF Asking
      <3> QED
        BY <3>1, CallsAssumption, FS_Subset
    <2> QED
      BY <2>6, <2>7, FS_Injection
  <1> QED
    BY <1>1, Inductive, PTL
=============================================================================
