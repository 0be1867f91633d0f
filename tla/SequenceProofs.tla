--------------------------- MODULE SequenceProofs ---------------------------
(***************************************************************************)
(* What the proofs of the components need of numbers, sequences and sums:  *)
(* induction over a set of numbers, functions defined by recursion, and    *)
(* the laws of selections and sums.                                        *)
(*                                                                         *)
(* Induction is stated for a set, not for a predicate: {n \in Nat : P(n)}  *)
(* is named where it is used.                                              *)
(***************************************************************************)
EXTENDS Subsequences, FiniteSetTheorems, SequenceTheorems,
        WellFoundedInduction, TLAPS

LEMMA LeastMember ==
    ASSUME NEW S, S \subseteq Nat, S # {}
    PROVE  \E m \in S : \A n \in S : m <= n
  <1> DEFINE R == OpToRel(<, Nat)
  <1>1. IsWellFoundedOn(R, Nat)
    BY NatLessThanWellFounded
  <1> HIDE DEF R
  <1>2. PICK m \in S : \A n \in S : ~(<<n, m>> \in R)
    BY <1>1, WFMin
  <1>3. ASSUME NEW n \in S, n < m PROVE FALSE
    <2>1. <<n, m>> \in R
      BY <1>3 DEF R, OpToRel
    <2> QED BY <1>2, <2>1
  <1> QED BY <1>2, <1>3

\* A set of naturals with a bound has a greatest member.
LEMMA GreatestMember ==
    ASSUME NEW N \in Nat, NEW S, S \subseteq 0 .. N, S # {}
    PROVE  \E m \in S : \A n \in S : n <= m
  <1> DEFINE R == {N - n : n \in S}
  <1>1. R \subseteq Nat /\ R # {}
    <2>1. \A n \in S : N - n \in Nat
      OBVIOUS
    <2> QED BY <2>1
  <1> HIDE DEF R
  <1>2. PICK r \in R : \A k \in R : r <= k
    BY <1>1, LeastMember
  <1>3. PICK m \in S : r = N - m
    BY <1>2 DEF R
  <1>4. \A n \in S : N - m <= N - n
    BY <1>2, <1>3 DEF R
  <1>5. m \in Int /\ \A n \in S : n \in Int /\ n <= m
    BY <1>4
  <1> QED BY <1>5

LEMMA SetInduction ==
    ASSUME NEW S, 0 \in S, \A n \in Nat : n \in S => n + 1 \in S
    PROVE  \A n \in Nat : n \in S
  <1> SUFFICES ASSUME Nat \ S # {} PROVE FALSE
    OBVIOUS
  <1>1. PICK m \in Nat \ S : \A n \in Nat \ S : m <= n
    BY LeastMember
  <1>2. m # 0 /\ m - 1 \in Nat
    BY <1>1
  <1>3. m - 1 \in S
    BY <1>1, <1>2
  <1>4. (m - 1) + 1 \in S
    BY <1>2, <1>3
  <1> QED BY <1>1, <1>4

\* f, on 0 .. n, starts with base and goes on with step.
Recursion(f, n, A, base, step) ==
    /\ f \in [0 .. n -> A]
    /\ f[0] = base
    /\ \A i \in 1 .. n : f[i] = step[<<i, f[i - 1]>>]

LEMMA RecursionExists ==
    ASSUME NEW A, NEW base \in A, NEW N \in Nat,
           NEW step \in [(1 .. N) \X A -> A]
    PROVE  \E f : Recursion(f, N, A, base, step)
  <1> DEFINE Good(n, f) ==
                 f[0] = base /\ \A i \in 1 .. n : f[i] = step[<<i, f[i - 1]>>]
             S == {n \in Nat : n <= N => \E f \in [0 .. n -> A] : Good(n, f)}
  <1>1. 0 \in S
    <2>1. [i \in 0 .. 0 |-> base] \in [0 .. 0 -> A]
      OBVIOUS
    <2>2. Good(0, [i \in 0 .. 0 |-> base])
      OBVIOUS
    <2> QED BY <2>1, <2>2
  <1>2. ASSUME NEW n \in Nat, n \in S PROVE n + 1 \in S
    <2> SUFFICES ASSUME n + 1 <= N
                 PROVE  \E f \in [0 .. n + 1 -> A] : Good(n + 1, f)
      OBVIOUS
    <2>1. PICK f \in [0 .. n -> A] : Good(n, f)
      BY <1>2
    <2> DEFINE g == [i \in 0 .. n + 1 |->
                        IF i = n + 1 THEN step[<<n + 1, f[n]>>] ELSE f[i]]
    <2>2. <<n + 1, f[n]>> \in (1 .. N) \X A
      OBVIOUS
    <2>3. g \in [0 .. n + 1 -> A]
      BY <2>2
    <2>4. g[0] = base /\ g[n + 1] = step[<<n + 1, g[n]>>]
      BY <2>1
    <2>5. ASSUME NEW i \in 1 .. n + 1 PROVE g[i] = step[<<i, g[i - 1]>>]
      <3>1. CASE i = n + 1
        BY <2>4, <3>1
      <3>2. CASE i \in 1 .. n
        <4>1. f[i] = step[<<i, f[i - 1]>>]
          BY <2>1, <3>2
        <4>2. g[i] = f[i] /\ g[i - 1] = f[i - 1]
          BY <3>2
        <4> QED BY <4>1, <4>2
      <3> QED BY <3>1, <3>2
    <2>6. Good(n + 1, g)
      BY <2>4, <2>5
    <2> HIDE DEF g, Good
    <2> QED BY <2>3, <2>6
  <1> HIDE DEF S
  <1>3. N \in S
    BY <1>1, <1>2, SetInduction
  <1> QED BY <1>3 DEF S, Recursion

-----------------------------------------------------------------------------
(* Selections.                                                             *)

LEMMA KeptStep ==
    ASSUME NEW T, NEW s \in Seq(T), NEW S
    PROVE  /\ Kept(s, S) \in [0 .. Len(s) -> Seq(T)]
           /\ Kept(s, S)[0] = << >>
           /\ \A i \in 1 .. Len(s) :
                 Kept(s, S)[i] = IF s[i] \in S THEN Append(Kept(s, S)[i - 1], s[i])
                                 ELSE Kept(s, S)[i - 1]
  <1> DEFINE N == Len(s)
             step == [p \in (1 .. N) \X Seq(T) |->
                         IF s[p[1]] \in S THEN Append(p[2], s[p[1]]) ELSE p[2]]
             Def(f) == f = [i \in 0 .. N |->
                               IF i = 0 THEN << >>
                               ELSE IF s[i] \in S THEN Append(f[i - 1], s[i])
                               ELSE f[i - 1]]
  <1>1. N \in Nat /\ << >> \in Seq(T)
    OBVIOUS
  <1>2. step \in [(1 .. N) \X Seq(T) -> Seq(T)]
    <2>1. ASSUME NEW p \in (1 .. N) \X Seq(T)
          PROVE  (IF s[p[1]] \in S THEN Append(p[2], s[p[1]]) ELSE p[2]) \in Seq(T)
      <3>1. p[1] \in 1 .. N /\ p[2] \in Seq(T)
        OBVIOUS
      <3>2. s[p[1]] \in T
        BY <3>1
      <3> QED BY <3>1, <3>2
    <2> QED BY <2>1
  <1>3. PICK f \in [0 .. N -> Seq(T)] :
            f[0] = << >> /\ \A i \in 1 .. N : f[i] = step[<<i, f[i - 1]>>]
    <2> DEFINE A == Seq(T)
               base == << >>
    <2>1. base \in A /\ N \in Nat /\ step \in [(1 .. N) \X A -> A]
      BY <1>1, <1>2
    <2> HIDE DEF step, N, A, base
    <2>2. PICK f : Recursion(f, N, A, base, step)
      BY <2>1, RecursionExists
    <2>3. f \in [0 .. N -> A] /\ f[0] = base
          /\ \A i \in 1 .. N : f[i] = step[<<i, f[i - 1]>>]
      BY <2>2 DEF Recursion
    <2> QED BY <2>3 DEF A, base
  <1>4. \A i \in 1 .. N : f[i] = IF s[i] \in S THEN Append(f[i - 1], s[i])
                                 ELSE f[i - 1]
    <2> SUFFICES ASSUME NEW i \in 1 .. N
                 PROVE  f[i] = IF s[i] \in S THEN Append(f[i - 1], s[i])
                               ELSE f[i - 1]
      OBVIOUS
    <2>1. i - 1 \in 0 .. N
      BY <1>1
    <2>2. f[i - 1] \in Seq(T)
      BY <2>1
    <2>3. <<i, f[i - 1]>> \in (1 .. N) \X Seq(T)
      BY <2>2
    <2>4. step[<<i, f[i - 1]>>] = IF s[i] \in S THEN Append(f[i - 1], s[i])
                                  ELSE f[i - 1]
      BY <2>3
    <2> QED BY <1>3, <2>4
  <1>5. Def(f)
    <2> HIDE DEF step, N
    <2>1. \A i \in 0 .. N : i = 0 \/ i \in 1 .. N
      BY <1>1
    <2>2. \A i \in 0 .. N : f[i] = IF i = 0 THEN << >>
                                   ELSE IF s[i] \in S THEN Append(f[i - 1], s[i])
                                   ELSE f[i - 1]
      BY <1>1, <1>3, <1>4, <2>1
    <2> QED BY <2>2
  <1>6. Kept(s, S) = CHOOSE g : Def(g)
    BY DEF Kept
  <1>7. Def(Kept(s, S))
    <2> HIDE DEF Def
    <2> QED BY <1>5, <1>6
  <1> DEFINE k == Kept(s, S)
  <1> HIDE DEF k
  <1>8. Def(k)
    BY <1>7 DEF k
  <1>9. /\ DOMAIN k = 0 .. N /\ k[0] = << >>
        /\ \A i \in 1 .. N : k[i] = IF s[i] \in S THEN Append(k[i - 1], s[i])
                                    ELSE k[i - 1]
    <2> HIDE DEF N
    <2>1. DOMAIN k = 0 .. N
      BY <1>8
    <2>2. 0 \in 0 .. N /\ \A i \in 1 .. N : i \in 0 .. N /\ i # 0
      BY <1>1
    <2>3. \A i \in 0 .. N : k[i] = IF i = 0 THEN << >>
                                   ELSE IF s[i] \in S THEN Append(k[i - 1], s[i])
                                   ELSE k[i - 1]
      BY <1>8
    <2> QED BY <2>1, <2>2, <2>3
  <1> DEFINE P == {n \in Nat : n <= N => k[n] \in Seq(T)}
  <1>10. 0 \in P
    BY <1>1, <1>9
  <1>11. ASSUME NEW n \in Nat, n \in P PROVE n + 1 \in P
    <2> SUFFICES ASSUME n + 1 <= N PROVE k[n + 1] \in Seq(T)
      OBVIOUS
    <2>1. k[n] \in Seq(T) /\ n + 1 \in 1 .. N /\ s[n + 1] \in T
      BY <1>1, <1>11
    <2>2. k[n + 1] = IF s[n + 1] \in S THEN Append(k[n], s[n + 1]) ELSE k[n]
      BY <1>9, <2>1
    <2> QED BY <2>1, <2>2
  <1> HIDE DEF P
  <1>12. \A n \in Nat : n \in P
    BY <1>10, <1>11, SetInduction
  <1>13. \A i \in 0 .. N : k[i] \in Seq(T)
    BY <1>1, <1>12 DEF P
  <1>14. k \in [0 .. N -> Seq(T)]
    BY <1>8, <1>13
  <1> QED BY <1>9, <1>14 DEF k

LEMMA KeepTyped ==
    ASSUME NEW T, NEW s \in Seq(T), NEW S
    PROVE  Keep(s, S) \in Seq(T) /\ Keep(<< >>, S) = << >>
  <1>1. Len(s) \in 0 .. Len(s) /\ << >> \in Seq(T) /\ Len(<< >>) = 0
    OBVIOUS
  <1> QED BY <1>1, KeptStep DEF Keep

\* What is selected of the first members does not depend on the others.
LEMMA KeptPrefix ==
    ASSUME NEW T, NEW s \in Seq(T), NEW t \in Seq(T), NEW S, NEW n \in Nat,
           n <= Len(s), n <= Len(t), \A i \in 1 .. n : s[i] = t[i]
    PROVE  Kept(s, S)[n] = Kept(t, S)[n]
  <1> DEFINE a == Kept(s, S)
             b == Kept(t, S)
             P == {i \in Nat : i <= n => a[i] = b[i]}
  <1>1. /\ a[0] = << >> /\ b[0] = << >>
        /\ \A i \in 1 .. Len(s) : a[i] = IF s[i] \in S THEN Append(a[i - 1], s[i])
                                         ELSE a[i - 1]
        /\ \A i \in 1 .. Len(t) : b[i] = IF t[i] \in S THEN Append(b[i - 1], t[i])
                                         ELSE b[i - 1]
    BY KeptStep
  <1> HIDE DEF a, b
  <1>2. 0 \in P
    BY <1>1
  <1>3. ASSUME NEW i \in Nat, i \in P PROVE i + 1 \in P
    <2> SUFFICES ASSUME i + 1 <= n PROVE a[i + 1] = b[i + 1]
      OBVIOUS
    <2>1. a[i] = b[i] /\ s[i + 1] = t[i + 1]
      BY <1>3
    <2>2. i + 1 \in 1 .. Len(s) /\ i + 1 \in 1 .. Len(t) /\ (i + 1) - 1 = i
      OBVIOUS
    <2>3. a[i + 1] = IF s[i + 1] \in S THEN Append(a[i], s[i + 1]) ELSE a[i]
      BY <1>1, <2>2
    <2>4. b[i + 1] = IF t[i + 1] \in S THEN Append(b[i], t[i + 1]) ELSE b[i]
      BY <1>1, <2>2
    <2> QED BY <2>1, <2>3, <2>4
  <1> HIDE DEF P
  <1>4. n \in P
    BY <1>2, <1>3, SetInduction
  <1> QED BY <1>4 DEF P, a, b

LEMMA KeepAppend ==
    ASSUME NEW T, NEW s \in Seq(T), NEW e \in T, NEW S
    PROVE  Keep(Append(s, e), S) =
               IF e \in S THEN Append(Keep(s, S), e) ELSE Keep(s, S)
  <1> DEFINE t == Append(s, e)
             n == Len(s)
  <1>1. /\ t \in Seq(T) /\ n \in Nat /\ Len(t) = n + 1 /\ t[n + 1] = e
        /\ \A i \in 1 .. n : t[i] = s[i]
    OBVIOUS
  <1> HIDE DEF t, n
  <1>2. Kept(t, S)[n] = Kept(s, S)[n]
    BY <1>1, KeptPrefix DEF n
  <1>3. n + 1 \in 1 .. Len(t) /\ (n + 1) - 1 = n
    BY <1>1
  <1>4. Kept(t, S)[n + 1] = IF e \in S THEN Append(Kept(t, S)[n], e)
                            ELSE Kept(t, S)[n]
    BY <1>1, <1>3, KeptStep
  <1>5. Keep(t, S) = Kept(t, S)[n + 1] /\ Keep(s, S) = Kept(s, S)[n]
    BY <1>1 DEF Keep, n
  <1> QED BY <1>2, <1>4, <1>5 DEF t

LEMMA KeepNone ==
    ASSUME NEW T, NEW s \in Seq(T), NEW S, \A i \in 1 .. Len(s) : s[i] \notin S
    PROVE  Keep(s, S) = << >>
  <1> DEFINE a == Kept(s, S)
             P == {i \in Nat : i <= Len(s) => a[i] = << >>}
  <1>1. /\ a[0] = << >>
        /\ \A i \in 1 .. Len(s) : a[i] = IF s[i] \in S THEN Append(a[i - 1], s[i])
                                         ELSE a[i - 1]
    BY KeptStep
  <1> HIDE DEF a
  <1>2. 0 \in P
    BY <1>1
  <1>3. ASSUME NEW i \in Nat, i \in P PROVE i + 1 \in P
    <2> SUFFICES ASSUME i + 1 <= Len(s) PROVE a[i + 1] = << >>
      OBVIOUS
    <2>1. i + 1 \in 1 .. Len(s) /\ (i + 1) - 1 = i /\ a[i] = << >>
      BY <1>3
    <2> QED BY <1>1, <2>1
  <1> HIDE DEF P
  <1>4. Len(s) \in P
    BY <1>2, <1>3, SetInduction
  <1> QED BY <1>4 DEF P, Keep, a

LEMMA KeepConcat ==
    ASSUME NEW T, NEW s \in Seq(T), NEW t \in Seq(T), NEW S
    PROVE  Keep(s \o t, S) = Keep(s, S) \o Keep(t, S)
  <1>0. ASSUME NEW v \in Seq(T), NEW u \in Seq(T), NEW x \in T
        PROVE  Append(v \o u, x) = v \o Append(u, x)
    <2>1. PICK w, y : w = v \o u /\ y = Append(u, x)
      OBVIOUS
    <2>2. w \in Seq(T) /\ y \in Seq(T)
      BY <2>1
    <2>3. PICK l, r : l = Append(w, x) /\ r = v \o y
      OBVIOUS
    <2>4. l \in Seq(T) /\ r \in Seq(T)
      BY <2>2, <2>3
    <2>5. Len(l) = Len(r)
      BY <2>1, <2>2, <2>3
    <2>6. ASSUME NEW i \in 1 .. Len(l) PROVE l[i] = r[i]
      <3>1. CASE i <= Len(v)
        BY <2>1, <2>2, <2>3, <3>1
      <3>2. CASE i > Len(v)
        <4>1. /\ Len(y) = Len(u) + 1 /\ Len(w) = Len(v) + Len(u)
              /\ Len(v) \in Nat /\ Len(u) \in Nat
          BY <2>1, <2>2
        <4>3. Len(l) = Len(w) + 1 /\ Len(r) = Len(v) + Len(y)
          BY <2>2, <2>3
        <4>a. i \in Nat /\ i <= Len(w) + 1
          BY <4>1, <4>3
        <4>2. r[i] = y[i - Len(v)]
          <5>1. i \in Len(v) + 1 .. Len(v) + Len(y)
            BY <3>2, <4>1, <4>a
          <5> QED BY <2>2, <2>3, <5>1
        <4>4. CASE i = Len(w) + 1
          <5>1. l[i] = x
            BY <2>2, <2>3, <4>4
          <5>2. i - Len(v) = Len(u) + 1
            BY <4>1, <4>4
          <5>3. y[Len(u) + 1] = x
            BY <2>1
          <5> QED BY <4>2, <5>1, <5>2, <5>3
        <4>5. CASE i # Len(w) + 1
          <5>1. i \in 1 .. Len(w) /\ i - Len(v) \in 1 .. Len(u)
            <6>1. PICK p \in Nat, q \in Nat, n \in Nat :
                      p = Len(v) /\ q = Len(u) /\ n = Len(w)
              BY <4>1
            <6>2. n = p + q /\ i \in Nat /\ i <= n + 1 /\ i # n + 1 /\ i > p
              BY <3>2, <4>1, <4>a, <4>5, <6>1
            <6>3. i \in 1 .. n /\ i - p \in 1 .. q
              BY <6>2
            <6> QED BY <6>1, <6>3
          <5>2. l[i] = w[i]
            BY <2>2, <2>3, <5>1
          <5>3. w[i] = u[i - Len(v)]
            BY <2>1, <2>2, <3>2, <5>1
          <5>4. y[i - Len(v)] = u[i - Len(v)]
            BY <2>1, <2>2, <5>1
          <5> QED BY <4>2, <5>2, <5>3, <5>4
        <4> QED BY <4>4, <4>5
      <3> QED BY <2>4, <3>1, <3>2
    <2>7. l = r
      BY <2>4, <2>5, <2>6
    <2> QED BY <2>1, <2>3, <2>7
  <1> DEFINE n == Len(s)
             st == s \o t
             a == Kept(st, S)
             b == Kept(t, S)
             k == Keep(s, S)
             P == {i \in Nat : i <= Len(t) => a[n + i] = k \o b[i]}
  <1>1. /\ st \in Seq(T) /\ n \in Nat /\ Len(st) = n + Len(t)
        /\ \A i \in 1 .. n : st[i] = s[i]
        /\ \A i \in 1 .. Len(t) : st[n + i] = t[i]
    OBVIOUS
  <1> HIDE DEF st, n
  <1>2. a[n] = k
    <2>1. n <= Len(st) /\ n <= Len(s) /\ \A i \in 1 .. n : st[i] = s[i]
      BY <1>1 DEF n
    <2>2. Kept(st, S)[n] = Kept(s, S)[n]
      BY <1>1, <2>1, KeptPrefix
    <2> QED BY <2>2 DEF n, Keep
  <1>3. /\ b \in [0 .. Len(t) -> Seq(T)] /\ b[0] = << >>
        /\ \A i \in 1 .. Len(t) : b[i] = IF t[i] \in S THEN Append(b[i - 1], t[i])
                                         ELSE b[i - 1]
    BY KeptStep
  <1>4. \A i \in 1 .. Len(st) : a[i] = IF st[i] \in S THEN Append(a[i - 1], st[i])
                                      ELSE a[i - 1]
    BY <1>1, KeptStep
  <1>5. k \in Seq(T)
    BY KeepTyped
  <1>6. a[Len(st)] = Keep(st, S) /\ b[Len(t)] = Keep(t, S)
    BY DEF Keep
  <1> HIDE DEF a, b, k
  <1>7. 0 \in P
    <2>1. n + 0 = n /\ k \o << >> = k
      BY <1>1, <1>5
    <2> QED BY <1>2, <1>3, <2>1
  <1>8. ASSUME NEW i \in Nat, i \in P PROVE i + 1 \in P
    <2> SUFFICES ASSUME i + 1 <= Len(t) PROVE a[n + (i + 1)] = k \o b[i + 1]
      OBVIOUS
    <2>1. /\ i + 1 \in 1 .. Len(t) /\ (i + 1) - 1 = i /\ i \in 0 .. Len(t)
          /\ n + (i + 1) \in 1 .. Len(st) /\ (n + (i + 1)) - 1 = n + i
      BY <1>1
    <2>a. a[n + i] = k \o b[i]
      BY <1>8
    <2>c. b \in [0 .. Len(t) -> Seq(T)]
      BY <1>3
    <2>b. b[i] \in Seq(T) /\ t[i + 1] \in T
      BY <2>1, <2>c
    <2>2. a[n + i] = k \o b[i] /\ b[i] \in Seq(T) /\ t[i + 1] \in T
      BY <2>a, <2>b
    <2>3. st[n + (i + 1)] = t[i + 1]
      BY <1>1, <2>1
    <2>4. a[n + (i + 1)] = IF t[i + 1] \in S THEN Append(k \o b[i], t[i + 1])
                           ELSE k \o b[i]
      BY <1>4, <2>1, <2>2, <2>3
    <2>5. b[i + 1] = IF t[i + 1] \in S THEN Append(b[i], t[i + 1]) ELSE b[i]
      BY <1>3, <2>1
    <2>6. Append(k \o b[i], t[i + 1]) = k \o Append(b[i], t[i + 1])
      <3>1. \A u \in Seq(T), x \in T : Append(k \o u, x) = k \o Append(u, x)
        BY <1>0, <1>5
      <3> QED BY <2>2, <3>1
    <2> QED BY <2>4, <2>5, <2>6
  <1> HIDE DEF P
  <1>9. Len(t) \in P
    BY <1>7, <1>8, SetInduction
  <1>10. a[n + Len(t)] = k \o b[Len(t)]
    BY <1>9 DEF P
  <1> QED BY <1>1, <1>6, <1>10 DEF st, k

\* Exactly the members of S are selected.
LEMMA KeepMembers ==
    ASSUME NEW T, NEW s \in Seq(T), NEW S, NEW e
    PROVE  (\E i \in 1 .. Len(Keep(s, S)) : Keep(s, S)[i] = e)
               <=> (e \in S /\ \E i \in 1 .. Len(s) : s[i] = e)
  <1> DEFINE a == Kept(s, S)
             In(n) == (\E i \in 1 .. Len(a[n]) : a[n][i] = e)
                          <=> (e \in S /\ \E i \in 1 .. n : s[i] = e)
             P == {n \in Nat : n <= Len(s) => In(n)}
  <1>1. /\ a \in [0 .. Len(s) -> Seq(T)] /\ a[0] = << >>
        /\ \A i \in 1 .. Len(s) : a[i] = IF s[i] \in S THEN Append(a[i - 1], s[i])
                                         ELSE a[i - 1]
    BY KeptStep
  <1>0. a[Len(s)] = Keep(s, S)
    BY DEF Keep
  <1> HIDE DEF a
  <1>2. 0 \in P
    BY <1>1
  <1>3. ASSUME NEW n \in Nat, n \in P PROVE n + 1 \in P
    <2> SUFFICES ASSUME n + 1 <= Len(s) PROVE In(n + 1)
      OBVIOUS
    <2>1. n + 1 \in 1 .. Len(s) /\ (n + 1) - 1 = n /\ n \in 0 .. Len(s)
      OBVIOUS
    <2>a. In(n)
      BY <1>3
    <2>2. a[n] \in Seq(T) /\ s[n + 1] \in T
      BY <1>1, <2>1
    <2>3. (\E i \in 1 .. n + 1 : s[i] = e)
              <=> (\E i \in 1 .. n : s[i] = e) \/ s[n + 1] = e
      BY <2>1
    <2>4. CASE s[n + 1] \in S
      <3>1. a[n + 1] = Append(a[n], s[n + 1])
        BY <1>1, <2>1, <2>4
      <3>2. \A u \in Seq(T), x \in T :
                (\E i \in 1 .. Len(Append(u, x)) : Append(u, x)[i] = e)
                    <=> (\E i \in 1 .. Len(u) : u[i] = e) \/ x = e
        <4> SUFFICES ASSUME NEW u \in Seq(T), NEW x \in T
                     PROVE (\E i \in 1 .. Len(Append(u, x)) : Append(u, x)[i] = e)
                               <=> (\E i \in 1 .. Len(u) : u[i] = e) \/ x = e
          OBVIOUS
        <4>1. /\ Len(Append(u, x)) = Len(u) + 1 /\ Len(u) \in Nat
              /\ Append(u, x)[Len(u) + 1] = x
              /\ \A i \in 1 .. Len(u) : Append(u, x)[i] = u[i]
          OBVIOUS
        <4> QED BY <4>1
      <3>3. (\E i \in 1 .. Len(a[n + 1]) : a[n + 1][i] = e)
                <=> (\E i \in 1 .. Len(a[n]) : a[n][i] = e) \/ s[n + 1] = e
        BY <2>2, <3>1, <3>2
      <3> QED BY <2>a, <2>3, <2>4, <3>3
    <2>5. CASE s[n + 1] \notin S
      <3>1. a[n + 1] = a[n]
        BY <1>1, <2>1, <2>5
      <3> QED BY <2>a, <2>3, <2>5, <3>1
    <2> QED BY <2>4, <2>5
  <1> HIDE DEF P
  <1>4. Len(s) \in P
    BY <1>2, <1>3, SetInduction
  <1> QED BY <1>0, <1>4 DEF P

\* What is selected of a sequence is, in its image, the image of what is selected.
LEMMA KeepMapped ==
    ASSUME NEW T, NEW U, NEW s \in Seq(T), NEW t \in Seq(U), NEW A, NEW B,
           NEW f \in [T -> U], Len(t) = Len(s),
           \A i \in 1 .. Len(s) : t[i] = f[s[i]] /\ (t[i] \in B <=> s[i] \in A)
    PROVE  /\ Len(Keep(t, B)) = Len(Keep(s, A))
           /\ \A k \in 1 .. Len(Keep(s, A)) : Keep(t, B)[k] = f[Keep(s, A)[k]]
  <1> DEFINE a == Kept(s, A)
             b == Kept(t, B)
             Image(x, y) == Len(y) = Len(x) /\ \A k \in 1 .. Len(x) : y[k] = f[x[k]]
             P == {n \in Nat : n <= Len(s) => Image(a[n], b[n])}
  <1>1. /\ a \in [0 .. Len(s) -> Seq(T)] /\ a[0] = << >>
        /\ \A i \in 1 .. Len(s) : a[i] = IF s[i] \in A THEN Append(a[i - 1], s[i])
                                         ELSE a[i - 1]
    BY KeptStep
  <1>2. /\ b \in [0 .. Len(s) -> Seq(U)] /\ b[0] = << >>
        /\ \A i \in 1 .. Len(s) : b[i] = IF t[i] \in B THEN Append(b[i - 1], t[i])
                                         ELSE b[i - 1]
    <2>1. /\ b \in [0 .. Len(t) -> Seq(U)] /\ b[0] = << >>
          /\ \A i \in 1 .. Len(t) : b[i] = IF t[i] \in B THEN Append(b[i - 1], t[i])
                                           ELSE b[i - 1]
      BY KeptStep
    <2> HIDE DEF b
    <2> QED BY <2>1
  <1> HIDE DEF a, b
  <1>3. 0 \in P
    BY <1>1, <1>2
  <1>4. ASSUME NEW n \in Nat, n \in P PROVE n + 1 \in P
    <2> SUFFICES ASSUME n + 1 <= Len(s) PROVE Image(a[n + 1], b[n + 1])
      OBVIOUS
    <2>1. n + 1 \in 1 .. Len(s) /\ (n + 1) - 1 = n /\ n \in 0 .. Len(s)
      OBVIOUS
    <2>2. PICK x \in Seq(T), y \in Seq(U) : x = a[n] /\ y = b[n]
      BY <1>1, <1>2, <2>1
    <2>3. Image(x, y)
      BY <1>4, <2>1, <2>2
    <2>4. PICK e \in T, d \in U : e = s[n + 1] /\ d = t[n + 1]
      BY <2>1
    <2>5. d = f[e] /\ (d \in B <=> e \in A)
      BY <2>1, <2>4
    <2>6. /\ a[n + 1] = IF e \in A THEN Append(x, e) ELSE x
          /\ b[n + 1] = IF d \in B THEN Append(y, d) ELSE y
      BY <1>1, <1>2, <2>1, <2>2, <2>4
    <2>7. CASE e \in A
      <3>1. Image(Append(x, e), Append(y, d))
        <4>1. Len(Append(x, e)) = Len(x) + 1 /\ Len(Append(y, d)) = Len(x) + 1
          BY <2>3
        <4>2. ASSUME NEW k \in 1 .. Len(x) + 1
              PROVE  Append(y, d)[k] = f[Append(x, e)[k]]
          BY <2>3, <2>5
        <4> QED BY <4>1, <4>2
      <3> QED BY <2>5, <2>6, <2>7, <3>1
    <2>8. CASE e \notin A
      BY <2>3, <2>5, <2>6, <2>8
    <2> QED BY <2>7, <2>8
  <1> HIDE DEF P
  <1>5. Len(s) \in P
    BY <1>3, <1>4, SetInduction
  <1>6. Image(a[Len(s)], b[Len(s)])
    BY <1>5 DEF P
  <1> QED BY <1>6 DEF Keep, a, b

\* A sequence is its beginning up to any of its members and what follows.
LEMMA SplitAt ==
    ASSUME NEW T, NEW s \in Seq(T), NEW k \in 0 .. Len(s)
    PROVE  s = SubSeq(s, 1, k) \o SubSeq(s, k + 1, Len(s))
  <1>1. 1 \in 1 .. Len(s) + 1 /\ k \in 1 - 1 .. Len(s) /\ Len(s) \in k .. Len(s)
    OBVIOUS
  <1>2. SubSeq(s, 1, k) \o SubSeq(s, k + 1, Len(s)) = SubSeq(s, 1, Len(s))
    BY <1>1, ConcatAdjacentSubSeq, Zenon
  <1> QED BY <1>2, SubSeqFull, Zenon
=============================================================================
