----------------------------- MODULE ListLemmas -----------------------------
(***************************************************************************)
(* Facts about sequences that the proofs need: induction over numbers from *)
(* the least counterexample, and what FlattenSeq does with one more        *)
(* sequence.                                                               *)
(***************************************************************************)
EXTENDS Integers, Sequences, SequencesExt, SequenceTheorems, WellFoundedInduction, TLAPS

\* A set of numbers that holds 0 and, with n, also n + 1 holds every number.
LEMMA Induction ==
    ASSUME NEW T, 0 \in T, \A n \in Nat : n \in T => n + 1 \in T
    PROVE  \A n \in Nat : n \in T
  <1> SUFFICES ASSUME Nat \ T # {} PROVE FALSE
    OBVIOUS
  <1> DEFINE R == {ss \in Nat \X Nat : ss[1] < ss[2]}
  <1>1. IsWellFoundedOn(R, Nat)
    BY NatLessThanWellFounded, Zenon DEF OpToRel
  <1>2. PICK x \in Nat \ T : \A y \in Nat \ T : ~(<<y, x>> \in R)
    <2> HIDE DEF R
    <2> QED
      BY <1>1, WFMin
  <1>3. x # 0 /\ x - 1 \in Nat
    BY <1>2
  <1>4. <<x - 1, x>> \in R
    BY <1>2, <1>3
  <1>5. x - 1 \in T
    BY <1>2, <1>3, <1>4
  <1> QED
    BY <1>2, <1>3, <1>5

\* What the first n sequences of s become one after the other.
Flattened(s, n, f) == f = [i \in 1..n |-> IF i = 1 THEN s[i] ELSE f[i - 1] \o s[i]]

\* The recursion of FlattenSeq defines a function.
LEMMA FlattenedExists == ASSUME NEW s, NEW n \in Nat PROVE \E f : Flattened(s, n, f)
  <1> DEFINE T == {k \in Nat : \E f : Flattened(s, k, f)}
  <1>1. 0 \in T
    <2>1. Flattened(s, 0, [i \in 1..0 |-> <<>>])
      BY DEF Flattened
    <2> QED
      BY <2>1
  <1>2. ASSUME NEW k \in Nat, k \in T PROVE k + 1 \in T
    <2>1. PICK f : Flattened(s, k, f)
      BY <1>2
    <2> DEFINE g == [i \in 1..(k + 1) |-> IF i = 1 THEN s[i] ELSE f[i - 1] \o s[i]]
    <2>2. ASSUME NEW i \in 1..k PROVE g[i] = f[i]
      <3>1. f[i] = IF i = 1 THEN s[i] ELSE f[i - 1] \o s[i]
        BY <2>1 DEF Flattened
      <3>2. i \in 1..(k + 1)
        OBVIOUS
      <3> QED
        BY <3>1, <3>2
    <2>3. \A i \in 1..(k + 1) : i # 1 => g[i - 1] = f[i - 1]
      <3>1. \A i \in 1..(k + 1) : i # 1 => i - 1 \in 1..k
        OBVIOUS
      <3> HIDE DEF g
      <3> QED
        BY <2>2, <3>1
    <2>4. Flattened(s, k + 1, g)
      BY <2>3 DEF Flattened
    <2> QED
      BY <2>4
  <1> HIDE DEF T
  <1>3. n \in T
    BY <1>1, <1>2, Induction
  <1> QED
    BY <1>3 DEF T

\* It is the same function for a sequence and for one with one more element.
LEMMA FlattenedUnique ==
    \A s, t, f, g : \A n \in Nat :
        Flattened(s, n, f) /\ Flattened(t, n + 1, g) /\ (\A i \in 1..n : s[i] = t[i])
            => \A i \in 1..n : f[i] = g[i]
  <1> TAKE s, t, f, g
  <1> TAKE n \in Nat
  <1> HAVE Flattened(s, n, f) /\ Flattened(t, n + 1, g) /\ (\A i \in 1..n : s[i] = t[i])
  <1> DEFINE T == {k \in Nat : k \in 1..n => f[k] = g[k]}
  <1>1. 0 \in T
    OBVIOUS
  <1>2. ASSUME NEW k \in Nat, k \in T PROVE k + 1 \in T
    <2> SUFFICES ASSUME k + 1 \in 1..n PROVE f[k + 1] = g[k + 1]
      OBVIOUS
    <2>1. /\ f[k + 1] = IF k + 1 = 1 THEN s[k + 1] ELSE f[(k + 1) - 1] \o s[k + 1]
          /\ g[k + 1] = IF k + 1 = 1 THEN t[k + 1] ELSE g[(k + 1) - 1] \o t[k + 1]
      <3>1. k + 1 \in 1..(n + 1)
        OBVIOUS
      <3> QED
        BY <3>1 DEF Flattened
    <2>2. s[k + 1] = t[k + 1] /\ (k + 1) - 1 = k
      OBVIOUS
    <2>3. k + 1 # 1 => f[k] = g[k]
      BY <1>2
    <2> QED
      BY <2>1, <2>2, <2>3
  <1> HIDE DEF T
  <1>3. \A k \in Nat : k \in T
    BY <1>1, <1>2, Induction
  <1> QED
    BY <1>3 DEF T

\* FlattenSeq is the last value of that function.
LEMMA FlattenIs ==
    ASSUME NEW X, NEW s \in Seq(X), s # <<>>
    PROVE  \E f : Flattened(s, Len(s), f) /\ FlattenSeq(s) = f[Len(s)]
  <1> DEFINE f == CHOOSE g : Flattened(s, Len(s), g)
  <1>1. Len(s) \in Nat /\ Len(s) # 0
    OBVIOUS
  <1>2. Flattened(s, Len(s), f)
    BY <1>1, FlattenedExists
  <1>3. FlattenSeq(s) = f[Len(s)]
    BY <1>1, Zenon DEF FlattenSeq, Flattened
  <1> QED
    BY <1>2, <1>3

\* Flattening sequences over X gives a sequence over X, and one more sequence goes to
\* its end.
LEMMA FlattenType == ASSUME NEW X, NEW s \in Seq(Seq(X)) PROVE FlattenSeq(s) \in Seq(X)
  <1>1. CASE s = <<>>
    BY <1>1 DEF FlattenSeq
  <1>2. CASE s # <<>>
    <2>1. PICK f : Flattened(s, Len(s), f) /\ FlattenSeq(s) = f[Len(s)]
      BY <1>2, FlattenIs
    <2> DEFINE T == {k \in Nat : k \in 1..Len(s) => f[k] \in Seq(X)}
    <2>2. 0 \in T
      OBVIOUS
    <2>3. ASSUME NEW k \in Nat, k \in T PROVE k + 1 \in T
      <3> SUFFICES ASSUME k + 1 \in 1..Len(s) PROVE f[k + 1] \in Seq(X)
        OBVIOUS
      <3>1. f[k + 1] = IF k + 1 = 1 THEN s[k + 1] ELSE f[(k + 1) - 1] \o s[k + 1]
        BY <2>1 DEF Flattened
      <3>2. s[k + 1] \in Seq(X) /\ (k + 1) - 1 = k
        OBVIOUS
      <3>3. k + 1 # 1 => f[k] \in Seq(X)
        BY <2>3
      <3> QED
        BY <3>1, <3>2, <3>3
    <2> HIDE DEF T
    <2>4. \A k \in Nat : k \in T
      BY <2>2, <2>3, Induction
    <2>5. Len(s) \in Nat /\ Len(s) \in 1..Len(s)
      BY <1>2
    <2> QED
      BY <2>1, <2>4, <2>5 DEF T
  <1> QED
    BY <1>1, <1>2

LEMMA FlattenAppend ==
    ASSUME NEW X, NEW s \in Seq(Seq(X)), NEW t \in Seq(X)
    PROVE  FlattenSeq(Append(s, t)) = FlattenSeq(s) \o t
  <1> DEFINE n == Len(s)
             u == Append(s, t)
  <1>1. /\ n \in Nat /\ u \in Seq(Seq(X)) /\ u # <<>> /\ Len(u) = n + 1
        /\ u[n + 1] = t /\ \A i \in 1..n : s[i] = u[i]
    BY AppendProperties
  <1>2. PICK g : Flattened(u, n + 1, g) /\ FlattenSeq(u) = g[n + 1]
    BY <1>1, FlattenIs
  <1>3. g[n + 1] = IF n + 1 = 1 THEN t ELSE g[(n + 1) - 1] \o t
    <2>1. n + 1 \in 1..(n + 1)
      BY <1>1
    <2> HIDE DEF n, u
    <2> QED
      BY <1>1, <1>2, <2>1 DEF Flattened
  <1>4. CASE s = <<>>
    <2>1. FlattenSeq(s) = <<>> /\ n = 0
      BY <1>4 DEF FlattenSeq
    <2> QED
      BY <1>2, <1>3, <2>1
  <1>5. CASE s # <<>>
    <2>1. PICK f : Flattened(s, n, f) /\ FlattenSeq(s) = f[n]
      BY <1>5, FlattenIs
    <2>2. n \in 1..n
      BY <1>5
    <2>3. f[n] = g[n]
      <3> HIDE DEF n, u
      <3>a. Flattened(s, n, f)
        BY <2>1
      <3>b. Flattened(u, n + 1, g)
        BY <1>2
      <3>2. n \in Nat /\ (\A i \in 1..n : s[i] = u[i])
        BY <1>1
      <3>3. \A i \in 1..n : f[i] = g[i]
        BY <3>a, <3>b, <3>2, FlattenedUnique
      <3> QED
        BY <2>2, <3>3
    <2>4. n + 1 # 1 /\ (n + 1) - 1 = n
      BY <2>2
    <2> HIDE DEF n
    <2> QED
      BY <1>2, <1>3, <2>1, <2>3, <2>4
  <1> QED
    BY <1>4, <1>5
=============================================================================
