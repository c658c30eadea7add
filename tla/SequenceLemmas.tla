--------------------------- MODULE SequenceLemmas ---------------------------
(***************************************************************************)
(* What a recursive function over 1..n computes, by induction on n, and    *)
(* where each of several sequences is in the joined one.                   *)
(*                                                                         *)
(* A set stands for the statement that is proved by induction: the set of  *)
(* the numbers it holds of.                                                *)
(***************************************************************************)
EXTENDS Integers, SequencesExt, SequenceTheorems, WellFoundedInduction, TLAPS

-----------------------------------------------------------------------------
(* Induction.                                                              *)

\* A non-empty set of natural numbers has a least element.
LEMMA LeastNatural ==
    ASSUME NEW S, S \subseteq Nat, S # {}
    PROVE  \E n \in S : \A m \in S : n <= m
<1>. DEFINE R == OpToRel(<, Nat)
<1>1. IsWellFoundedOn(R, Nat)
    BY NatLessThanWellFounded
<1>2. \A x, y \in Nat : <<x, y>> \in R <=> x < y
    BY DEF OpToRel
<1>. HIDE DEF R
<1>3. PICK x \in S : \A y \in S : <<y, x>> \notin R
    BY <1>1, WFMin
<1>4. \A y \in S : ~(y < x)
    BY <1>2, <1>3
<1>5. \A y \in S : x <= y
    BY <1>4
<1>. QED  BY <1>3, <1>5

\* What holds of 0 and of the next after each.
LEMMA Induction ==
    ASSUME NEW S, 0 \in S, \A n \in Nat : n \in S => n + 1 \in S
    PROVE  Nat \subseteq S
<1>. DEFINE Rest == {n \in Nat : n \notin S}
<1>1. CASE Rest # {}
    <2>1. PICK n \in Rest : \A m \in Rest : n <= m
        BY <1>1, LeastNatural
    <2>2. n # 0 /\ n - 1 \in Nat
        BY <2>1
    <2>3. n - 1 \in S
        BY <2>1, <2>2
    <2>. QED  BY <2>1, <2>2, <2>3
<1>. QED  BY <1>1

\* Each value but the first comes from the one before it, by D.
Grows(f, n, first, D) ==
    \A i \in 1..n : f[i] = IF i = 1 THEN first ELSE D[<<f[i - 1], i>>]

\* A recursive function is a CHOOSE: that there is one has to be shown.
LEMMA RecursionExists ==
    ASSUME NEW S, NEW first \in S, NEW D \in [S \X Nat -> S], NEW n \in Nat
    PROVE  \E f \in [1..n -> S] : Grows(f, n, first, D)
<1>. DEFINE Good == {k \in Nat : \E f \in [1..k -> S] : Grows(f, k, first, D)}
<1>1. 0 \in Good
    <2>. DEFINE none == [i \in 1..0 |-> first]
    <2>1. none \in [1..0 -> S]
        OBVIOUS
    <2>. HIDE DEF none
    <2>2. Grows(none, 0, first, D)
        BY DEF Grows
    <2>. QED  BY <2>1, <2>2
<1>2. ASSUME NEW k \in Nat, k \in Good
      PROVE  k + 1 \in Good
    <2>1. PICK f \in [1..k -> S] : Grows(f, k, first, D)
        BY <1>2
    <2>. DEFINE next == IF k = 0 THEN first ELSE D[<<f[k], k + 1>>]
                g == [i \in 1..(k + 1) |-> IF i <= k THEN f[i] ELSE next]
    <2>2. next \in S
        OBVIOUS
    <2>. HIDE DEF next
    <2>3. g \in [1..(k + 1) -> S]
        BY <2>2
    <2>4. /\ g[k + 1] = next
          /\ \A i \in 1..k : g[i] = f[i]
        OBVIOUS
    <2>. HIDE DEF g
    <2>5. ASSUME NEW i \in 1..(k + 1)
          PROVE  g[i] = IF i = 1 THEN first ELSE D[<<g[i - 1], i>>]
        <3>1. CASE i = k + 1
            <4>1. k = 0 \/ k \in 1..k
                OBVIOUS
            <4>2. i = 1 <=> k = 0
                BY <3>1
            <4>3. k # 0 => g[i - 1] = f[k]
                BY <2>4, <3>1, <4>1
            <4>. QED  BY <2>4, <3>1, <4>2, <4>3 DEF next
        <3>2. CASE i \in 1..k
            <4>1. f[i] = IF i = 1 THEN first ELSE D[<<f[i - 1], i>>]
                BY <2>1, <3>2 DEF Grows
            <4>2. i # 1 => i - 1 \in 1..k
                BY <3>2
            <4>. QED  BY <2>4, <3>2, <4>1, <4>2
        <3>. QED  BY <3>1, <3>2
    <2>. QED  BY <2>3, <2>5 DEF Grows
<1>. HIDE DEF Good
<1>3. Nat \subseteq Good
    BY <1>1, <1>2, Induction
<1>. QED  BY <1>3 DEF Good

\* The same from 0 on, as far as n.
Steps(f, n, base, D) ==
    f[0] = base /\ \A i \in 1..n : f[i] = D[<<f[i - 1], i>>]

LEMMA StepsAgree ==
    ASSUME NEW base, NEW D, NEW m \in Nat, NEW n \in Nat, NEW f, NEW g,
           Steps(f, m, base, D), Steps(g, n, base, D)
    PROVE  \A k \in Nat : k <= m /\ k <= n => f[k] = g[k]
<1>. DEFINE Same == {k \in Nat : k <= m /\ k <= n => f[k] = g[k]}
<1>1. 0 \in Same
    BY DEF Steps
<1>2. ASSUME NEW k \in Nat, k \in Same
      PROVE  k + 1 \in Same
    <2>. SUFFICES ASSUME k + 1 <= m, k + 1 <= n
                  PROVE  f[k + 1] = g[k + 1]
        OBVIOUS
    <2>1. f[k] = g[k]
        BY <1>2
    <2>2. k + 1 \in 1..m /\ k + 1 \in 1..n /\ (k + 1) - 1 = k
        OBVIOUS
    <2>3. f[k + 1] = D[<<f[k], k + 1>>] /\ g[k + 1] = D[<<g[k], k + 1>>]
        BY <2>2 DEF Steps
    <2>. QED  BY <2>1, <2>3
<1>. HIDE DEF Same
<1>3. Nat \subseteq Same
    BY <1>1, <1>2, Induction
<1>. QED  BY <1>3 DEF Same

LEMMA StepsExist ==
    ASSUME NEW S, NEW base \in S, NEW D \in [S \X Nat -> S], NEW n \in Nat
    PROVE  \E f \in [0..n -> S] : Steps(f, n, base, D)
<1>. DEFINE Good == {k \in Nat : \E f \in [0..k -> S] : Steps(f, k, base, D)}
<1>1. 0 \in Good
    <2>. DEFINE one == [i \in 0..0 |-> base]
    <2>1. one \in [0..0 -> S] /\ one[0] = base
        OBVIOUS
    <2>. HIDE DEF one
    <2>2. Steps(one, 0, base, D)
        BY <2>1 DEF Steps
    <2>. QED  BY <2>1, <2>2
<1>2. ASSUME NEW k \in Nat, k \in Good
      PROVE  k + 1 \in Good
    <2>1. PICK f \in [0..k -> S] : Steps(f, k, base, D)
        BY <1>2
    <2>. DEFINE next == D[<<f[k], k + 1>>]
                g == [i \in 0..(k + 1) |-> IF i <= k THEN f[i] ELSE next]
    <2>2. next \in S
        OBVIOUS
    <2>. HIDE DEF next
    <2>3. g \in [0..(k + 1) -> S]
        BY <2>2
    <2>4. /\ g[k + 1] = next
          /\ \A i \in 0..k : g[i] = f[i]
        OBVIOUS
    <2>. HIDE DEF g
    <2>5. ASSUME NEW i \in 1..(k + 1)
          PROVE  g[i] = D[<<g[i - 1], i>>]
        <3>1. i - 1 \in 0..k
            OBVIOUS
        <3>2. g[i - 1] = f[i - 1]
            BY <2>4, <3>1
        <3>3. CASE i = k + 1
            <4>1. i - 1 = k
                BY <3>3
            <4>. QED  BY <2>4, <3>2, <3>3, <4>1 DEF next
        <3>4. CASE i \in 1..k
            <4>1. g[i] = f[i]
                BY <2>4, <3>4
            <4>. QED  BY <2>1, <3>2, <3>4, <4>1 DEF Steps
        <3>. QED  BY <3>3, <3>4
    <2>6. g[0] = base
        BY <2>1, <2>4 DEF Steps
    <2>. QED  BY <2>3, <2>5, <2>6 DEF Steps
<1>. HIDE DEF Good
<1>3. Nat \subseteq Good
    BY <1>1, <1>2, Induction
<1>. QED  BY <1>3 DEF Good

\* And without an end: the n-th value is the last of any n steps.
AllSteps(f, base, D) ==
    f[0] = base /\ \A n \in Nat : f[n + 1] = D[<<f[n], n + 1>>]

LEMMA Recursion ==
    ASSUME NEW S, NEW base \in S, NEW D \in [S \X Nat -> S]
    PROVE  \E f \in [Nat -> S] : AllSteps(f, base, D)
<1>. DEFINE some(n) == CHOOSE f \in [0..n -> S] : Steps(f, n, base, D)
            all == [n \in Nat |-> some(n)[n]]
<1>1. ASSUME NEW n \in Nat
      PROVE  some(n) \in [0..n -> S] /\ Steps(some(n), n, base, D)
    BY StepsExist
<1>. HIDE DEF some
<1>2. ASSUME NEW n \in Nat
      PROVE  some(n)[n] \in S
    BY <1>1
<1>3. all \in [Nat -> S]
    BY <1>2
<1>4. all[0] = base
    BY <1>1 DEF Steps
<1>5. ASSUME NEW n \in Nat
      PROVE  all[n + 1] = D[<<all[n], n + 1>>]
    <2>1. /\ Steps(some(n), n, base, D)
          /\ Steps(some(n + 1), n + 1, base, D)
        BY <1>1
    <2>2. some(n)[n] = some(n + 1)[n]
        <3>. DEFINE f == some(n)
                    g == some(n + 1)
                    m == n + 1
        <3>1. Steps(f, n, base, D) /\ Steps(g, m, base, D) /\ m \in Nat
            BY <2>1
        <3>2. n <= n /\ n <= m
            OBVIOUS
        <3>. HIDE DEF f, g, m
        <3>3. \A k \in Nat : k <= n /\ k <= m => f[k] = g[k]
            BY <3>1, StepsAgree
        <3>4. f[n] = g[n]
            BY <3>2, <3>3
        <3>. QED  BY <3>4 DEF f, g
    <2>3. n + 1 \in 1..(n + 1) /\ (n + 1) - 1 = n
        OBVIOUS
    <2>4. some(n + 1)[n + 1] = D[<<some(n + 1)[n], n + 1>>]
        BY <2>1, <2>3 DEF Steps
    <2>5. all[n] = some(n)[n] /\ all[n + 1] = some(n + 1)[n + 1]
        OBVIOUS
    <2>. HIDE DEF all
    <2>. QED  BY <2>2, <2>4, <2>5
<1>. HIDE DEF all
<1>. QED  BY <1>3, <1>4, <1>5 DEF AllSteps

-----------------------------------------------------------------------------
(* Sequences that are joined.                                              *)

\* The steps of FlattenSeq.
LEMMA FlattenSteps ==
    ASSUME NEW T, NEW s \in Seq(Seq(T)), Len(s) > 0
    PROVE  \E f \in [1..Len(s) -> Seq(T)] :
              /\ f[1] = s[1]
              /\ \A i \in 2..Len(s) : f[i] = f[i - 1] \o s[i]
              /\ FlattenSeq(s) = f[Len(s)]
<1>. DEFINE n == Len(s)
            Is(f) == f = [i \in 1..n |-> IF i = 1 THEN s[i] ELSE f[i - 1] \o s[i]]
            flat == CHOOSE f : Is(f)
            D == [p \in Seq(T) \X Nat |-> IF p[2] \in 1..n THEN p[1] \o s[p[2]] ELSE p[1]]
<1>0. n \in Nat /\ \A i \in 1..n : s[i] \in Seq(T)
    OBVIOUS
<1>. HIDE DEF n
<1>1. D \in [Seq(T) \X Nat -> Seq(T)]
    BY <1>0
<1>1a. \A a \in Seq(T), i \in 1..n : D[<<a, i>>] = a \o s[i]
    <2>. TAKE a \in Seq(T), i \in 1..n
    <2>1. <<a, i>> \in Seq(T) \X Nat /\ <<a, i>>[1] = a /\ <<a, i>>[2] = i
        BY <1>0
    <2>. QED  BY <2>1, Zenon
<1>. HIDE DEF D
<1>1b. 1 \in 1..n /\ s[1] \in Seq(T)
    BY <1>0 DEF n
<1>2. PICK f \in [1..n -> Seq(T)] : Grows(f, n, s[1], D)
    BY <1>0, <1>1, <1>1b, RecursionExists
<1>3. \A i \in 1..n : f[i] = IF i = 1 THEN s[i] ELSE f[i - 1] \o s[i]
    <2>. TAKE i \in 1..n
    <2>1. i # 1 => i - 1 \in 1..n
        BY <1>0
    <2>. QED  BY <1>0, <1>1a, <1>2, <2>1 DEF Grows
<1>4. Is(f)
    BY <1>3
<1>5. Is(flat)
    BY <1>4
<1>6. FlattenSeq(s) = flat[n]
    BY <1>0 DEF FlattenSeq, n
<1>. HIDE DEF flat
<1>7. /\ DOMAIN flat = 1..n
      /\ \A i \in 1..n : flat[i] = IF i = 1 THEN s[i] ELSE flat[i - 1] \o s[i]
    BY <1>5
<1>. DEFINE next(i) == flat[i - 1] \o s[i]
<1>7a. \A i \in 1..n : flat[i] = IF i = 1 THEN s[i] ELSE next(i)
    BY <1>7
<1>. HIDE DEF next
<1>7b. /\ flat[1] = s[1]
       /\ \A i \in 2..n : flat[i] = next(i)
    <2>1. \A i \in 2..n : i \in 1..n /\ i # 1
        BY <1>0
    <2>. QED  BY <1>1b, <1>7a, <2>1
<1>8. flat \in [1..n -> Seq(T)]
    <2>. DEFINE Typed == {k \in Nat : k \in 1..n => flat[k] \in Seq(T)}
    <2>1. ASSUME NEW k \in Nat, k \in Typed
          PROVE  k + 1 \in Typed
        <3>. SUFFICES ASSUME k + 1 \in 1..n
                      PROVE  flat[k + 1] \in Seq(T)
            OBVIOUS
        <3>1. CASE k = 0
            <4>1. k + 1 = 1
                BY <3>1
            <4>. QED  BY <1>1b, <1>7b, <4>1
        <3>2. CASE k # 0
            <4>1. k \in 1..n /\ (k + 1) - 1 = k /\ k + 1 # 1
                BY <1>0, <3>2
            <4>2. flat[k] \in Seq(T) /\ s[k + 1] \in Seq(T)
                BY <1>0, <2>1, <4>1
            <4>3. flat[k + 1] = flat[k] \o s[k + 1]
                <5>1. k + 1 \in 2..n
                    BY <1>0, <4>1
                <5>. QED  BY <1>7b, <4>1, <5>1 DEF next
            <4>. QED  BY <4>2, <4>3, ConcatProperties
        <3>. QED  BY <3>1, <3>2
    <2>2. 0 \in Typed
        OBVIOUS
    <2>. HIDE DEF Typed
    <2>3. Nat \subseteq Typed
        BY <2>1, <2>2, Induction
    <2>4. \A k \in 1..n : flat[k] \in Seq(T)
        BY <1>0, <2>3 DEF Typed
    <2>5. DOMAIN flat = 1..n /\ flat = [k \in DOMAIN flat |-> flat[k]]
        BY <1>5, <1>7
    <2>. QED  BY <2>4, <2>5
<1>9. /\ flat[1] = s[1]
      /\ \A i \in 2..n : flat[i] = flat[i - 1] \o s[i]
    BY <1>7b DEF next
<1>. QED  BY <1>6, <1>8, <1>9 DEF n

LEMMA Joined ==
    ASSUME NEW T, NEW a \in Seq(T), NEW b \in Seq(T)
    PROVE  /\ a \o b \in Seq(T) /\ Len(a \o b) = Len(a) + Len(b)
           /\ \A j \in 1..Len(a) : (a \o b)[j] = a[j]
           /\ \A j \in 1..Len(b) : (a \o b)[Len(a) + j] = b[j]
<1>. DEFINE c == a \o b
            m == Len(a)
            n == Len(b)
<1>1. m \in Nat /\ n \in Nat
    OBVIOUS
<1>2. /\ c \in Seq(T) /\ Len(c) = m + n
      /\ \A j \in 1..(m + n) : c[j] = IF j <= m THEN a[j] ELSE b[j - m]
    BY ConcatProperties
<1>. HIDE DEF c, m, n
<1>3. \A j \in 1..m : c[j] = a[j]
    BY <1>1, <1>2
<1>4. ASSUME NEW j \in 1..n
      PROVE  c[m + j] = b[j]
    <2>. DEFINE k == m + j
    <2>1. k \in 1..(m + n) /\ ~(k <= m) /\ k - m = j
        BY <1>1
    <2>. HIDE DEF k
    <2>2. c[k] = b[k - m]
        BY <1>2, <2>1
    <2>. QED  BY <2>1, <2>2 DEF k
<1>. QED  BY <1>2, <1>3, <1>4 DEF c, m, n

\* Where each sequence begins in the joined one.
LEMMA FlattenLayout ==
    ASSUME NEW T, NEW s \in Seq(Seq(T)), Len(s) > 0
    PROVE  /\ FlattenSeq(s) \in Seq(T)
           /\ \E at \in [1..(Len(s) + 1) -> Nat] :
                 /\ at[1] = 0
                 /\ at[Len(s) + 1] = Len(FlattenSeq(s))
                 /\ \A i \in 1..Len(s) :
                       /\ at[i + 1] = at[i] + Len(s[i])
                       /\ \A j \in 1..Len(s[i]) :
                             /\ at[i] + j \in 1..Len(FlattenSeq(s))
                             /\ FlattenSeq(s)[at[i] + j] = s[i][j]
<1>. DEFINE n == Len(s)
<1>0. n \in Nat /\ n >= 1 /\ \A i \in 1..n : s[i] \in Seq(T) /\ Len(s[i]) \in Nat
    OBVIOUS
<1>1. PICK f \in [1..n -> Seq(T)] :
         /\ f[1] = s[1]
         /\ \A i \in 2..n : f[i] = f[i - 1] \o s[i]
         /\ FlattenSeq(s) = f[n]
    BY FlattenSteps
<1>. HIDE DEF n
<1>2. \A i \in 1..n : f[i] \in Seq(T) /\ Len(f[i]) \in Nat
    BY <1>0, <1>1
<1>3. ASSUME NEW i \in 2..n
      PROVE  /\ i - 1 \in 1..n /\ i \in 1..n
             /\ Len(f[i]) = Len(f[i - 1]) + Len(s[i])
             /\ \A j \in 1..Len(f[i - 1]) : f[i][j] = f[i - 1][j]
             /\ \A j \in 1..Len(s[i]) : f[i][Len(f[i - 1]) + j] = s[i][j]
    <2>1. i - 1 \in 1..n /\ i \in 1..n
        BY <1>0
    <2>2. f[i - 1] \in Seq(T) /\ s[i] \in Seq(T) /\ f[i] = f[i - 1] \o s[i]
        BY <1>0, <1>1, <1>2, <2>1
    <2>. QED  BY <2>1, <2>2, Joined
<1>. DEFINE at == [i \in 1..(n + 1) |-> IF i = 1 THEN 0 ELSE Len(f[i - 1])]
<1>4. at \in [1..(n + 1) -> Nat]
    <2>1. \A i \in 1..(n + 1) : i # 1 => i - 1 \in 1..n
        BY <1>0
    <2>. QED  BY <1>2, <2>1
<1>5. at[1] = 0 /\ \A i \in 1..n : at[i + 1] = Len(f[i])
    <2>1. 1 \in 1..(n + 1)
        BY <1>0
    <2>2. \A i \in 1..n : i + 1 \in 1..(n + 1) /\ i + 1 # 1 /\ (i + 1) - 1 = i
        BY <1>0
    <2>. QED  BY <2>1, <2>2
<1>. HIDE DEF at
\* What has been joined stays where it is.
<1>6. ASSUME NEW i \in 1..n, NEW j \in 1..Len(f[i])
      PROVE  j \in 1..Len(f[n]) /\ f[n][j] = f[i][j]
    <2>. DEFINE Kept == {k \in Nat : i + k <= n => /\ j \in 1..Len(f[i + k])
                                                  /\ f[i + k][j] = f[i][j]}
    <2>1. 0 \in Kept
        BY <1>0
    <2>2. ASSUME NEW k \in Nat, k \in Kept
          PROVE  k + 1 \in Kept
        <3>. SUFFICES ASSUME i + (k + 1) <= n
                      PROVE  /\ j \in 1..Len(f[i + (k + 1)])
                             /\ f[i + (k + 1)][j] = f[i][j]
            OBVIOUS
        <3>. DEFINE m == i + (k + 1)
        <3>1. m \in 2..n /\ m - 1 = i + k /\ i + k <= n
            BY <1>0
        <3>. HIDE DEF m
        <3>2. j \in 1..Len(f[m - 1]) /\ f[m - 1][j] = f[i][j]
            BY <2>2, <3>1
        <3>3. /\ m - 1 \in 1..n /\ m \in 1..n
              /\ Len(f[m]) = Len(f[m - 1]) + Len(s[m])
              /\ f[m][j] = f[m - 1][j]
            BY <1>3, <3>1, <3>2
        <3>4. j \in 1..Len(f[m])
            <4>1. \A a, b \in Nat : j \in 1..a => j \in 1..(a + b)
                OBVIOUS
            <4>2. Len(f[m - 1]) \in Nat /\ Len(s[m]) \in Nat
                BY <1>0, <1>2, <3>3
            <4>. QED  BY <3>2, <3>3, <4>1, <4>2
        <3>. QED  BY <3>2, <3>3, <3>4 DEF m
    <2>. HIDE DEF Kept
    <2>3. Nat \subseteq Kept
        BY <2>1, <2>2, Induction
    <2>4. n - i \in Nat /\ i + (n - i) = n
        BY <1>0
    <2>5. n - i \in Kept
        BY <2>3, <2>4
    <2>6. i + (n - i) <= n
        BY <1>0
    <2>. QED  BY <2>4, <2>5, <2>6 DEF Kept
<1>7. ASSUME NEW i \in 1..n
      PROVE  /\ at[i + 1] = at[i] + Len(s[i])
             /\ \A j \in 1..Len(s[i]) : at[i] + j \in 1..Len(f[i])
             /\ \A j \in 1..Len(s[i]) : f[i][at[i] + j] = s[i][j]
    <2>0. Len(s[i]) \in Nat
        BY <1>0
    <2>1. CASE i = 1
        <3>1. at[i] = 0 /\ f[i] = s[i]
            BY <1>1, <1>5, <2>1
        <3>. QED  BY <1>5, <2>0, <3>1
    <2>2. CASE i # 1
        <3>1. i \in 2..n /\ i - 1 \in 1..n /\ (i - 1) + 1 = i
            BY <1>0, <2>2
        <3>2. at[i] = Len(f[i - 1]) /\ at[i] \in Nat
            BY <1>2, <1>5, <3>1
        <3>3. /\ Len(f[i]) = at[i] + Len(s[i])
              /\ \A j \in 1..Len(s[i]) : f[i][at[i] + j] = s[i][j]
            BY <1>3, <3>1, <3>2
        <3>4. \A a, b \in Nat : \A j \in 1..b : a + j \in 1..(a + b)
            OBVIOUS
        <3>5. \A j \in 1..Len(s[i]) : at[i] + j \in 1..(at[i] + Len(s[i]))
            BY <2>0, <3>2, <3>4
        <3>. QED  BY <1>5, <3>3, <3>5
    <2>. QED  BY <2>1, <2>2
<1>8. ASSUME NEW i \in 1..n, NEW j \in 1..Len(s[i])
      PROVE  at[i] + j \in 1..Len(f[n]) /\ f[n][at[i] + j] = s[i][j]
    <2>1. at[i] + j \in 1..Len(f[i]) /\ f[i][at[i] + j] = s[i][j]
        BY <1>7
    <2>. QED  BY <1>6, <2>1
<1>9. n \in 1..n
    BY <1>0
<1>10. FlattenSeq(s) = f[n] /\ f[n] \in Seq(T)
    BY <1>1, <1>2, <1>9
<1>11. at[n + 1] = Len(f[n])
    BY <1>5, <1>9
<1>12. \A i \in 1..n :
          /\ at[i + 1] = at[i] + Len(s[i])
          /\ \A j \in 1..Len(s[i]) : /\ at[i] + j \in 1..Len(f[n])
                                     /\ f[n][at[i] + j] = s[i][j]
    BY <1>7, <1>8
<1>. QED  BY <1>4, <1>5, <1>10, <1>11, <1>12 DEF n

\* A part that has the elements of a sequence is that sequence.
LEMMA PartIs ==
    ASSUME NEW T, NEW s, NEW d \in Seq(T), NEW at \in Nat,
           \A j \in 1..Len(d) : s[at + j] = d[j]
    PROVE  SubSeq(s, at + 1, at + Len(d)) = d
<1>. DEFINE m == Len(d)
            lo == at + 1
            hi == at + m
            part == SubSeq(s, lo, hi)
<1>1. m \in Nat /\ \A j \in 1..m : d[j] \in T
    OBVIOUS
<1>2. ASSUME NEW i \in lo..hi
      PROVE  s[i] \in T
    <2>1. i - at \in 1..m /\ at + (i - at) = i
        BY <1>1
    <2>. QED  BY <1>1, <2>1
<1>. HIDE DEF m
<1>3. /\ lo \in Int /\ hi \in Int
      /\ hi - lo + 1 = m
      /\ lo <= hi \/ m = 0
      /\ \A i \in 1..m : lo + i - 1 = at + i
    BY <1>1
<1>. HIDE DEF lo, hi
<1>4. /\ part \in Seq(T)
      /\ Len(part) = IF lo <= hi THEN hi - lo + 1 ELSE 0
      /\ \A i \in 1..(hi - lo + 1) : part[i] = s[lo + i - 1]
    BY <1>2, <1>3, SubSeqProperties
<1>. HIDE DEF part
<1>5. Len(part) = m
    <2>1. ~(lo <= hi) => m = 0
        BY <1>3
    <2>. QED  BY <1>3, <1>4, <2>1
<1>6. \A i \in 1..m : part[i] = d[i]
    BY <1>3, <1>4 DEF m
<1>7. part = d
    BY <1>4, <1>5, <1>6, SeqEqual DEF m
<1>. QED  BY <1>7 DEF part, lo, hi, m

=============================================================================
