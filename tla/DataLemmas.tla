----------------------------- MODULE DataLemmas -----------------------------
(***************************************************************************)
(* What the proofs need to know of numbers, recursion, lists and names.    *)
(*                                                                         *)
(* Induction is stated without an operator as a parameter, with sets and   *)
(* least numbers: the provers cannot instantiate the induction rules of    *)
(* the library.                                                            *)
(***************************************************************************)
EXTENDS Integers, Sequences, WellFoundedInduction, SequenceTheorems, TLAPS

-----------------------------------------------------------------------------
(* Least and greatest numbers.                                             *)

\* < on the numbers is contained in a relation without infinite descent.
LEMMA LessWellFounded ==
  \E R : /\ IsWellFoundedOn(R, Nat)
         /\ \A x, y \in Nat : x < y => <<x, y>> \in R
<1>1. IsWellFoundedOn(OpToRel(<, Nat), Nat)
  BY NatLessThanWellFounded
<1>2. \A x, y \in Nat : x < y => <<x, y>> \in OpToRel(<, Nat)
  BY DEF OpToRel
<1> QED
  BY <1>1, <1>2, Zenon

\* Every set of natural numbers that is not empty has a least element.
LEMMA LeastNat ==
  ASSUME NEW S \in SUBSET Nat, S # {}
  PROVE  \E n \in S : \A m \in S : n <= m
<1>1. PICK R : /\ IsWellFoundedOn(R, Nat)
               /\ \A x, y \in Nat : x < y => <<x, y>> \in R
  BY LessWellFounded
<1>2. S \subseteq Nat
  OBVIOUS
<1>3. IsWellFoundedOn(R, Nat)
  BY <1>1
<1>4. PICK n \in S : \A m \in S : ~ (<<m, n>> \in R)
  BY ONLY <1>2, <1>3, WFMin, S # {}, Zenon
<1>5. \A m \in S : ~ (m < n)
  BY ONLY <1>1, <1>2, <1>4, Zenon
<1>6. \A m \in S : n <= m
  BY ONLY <1>2, <1>5, n \in S
<1> QED
  BY ONLY <1>6, n \in S

\* Every set of natural numbers up to n that is not empty has a greatest element.
LEMMA GreatestNat ==
  ASSUME NEW n \in Nat, NEW S \in SUBSET (0 .. n), S # {}
  PROVE  \E k \in S : \A j \in S : j <= k
<1> DEFINE Bounds == {b \in Nat : \A j \in S : j <= b}
<1>1. n \in Bounds
  OBVIOUS
<1>2. PICK b \in Bounds : \A c \in Bounds : b <= c
  BY <1>1, LeastNat
<1>3. CASE b \in S
  BY <1>3
<1>4. CASE b \notin S
  <2>1. \A j \in S : j \in Nat /\ j < b
    BY <1>4
  <2>2. b - 1 \in Bounds
    <3>1. PICK j \in S : TRUE
      OBVIOUS
    <3>2. b - 1 \in Nat
      BY <2>1, <3>1
    <3> QED
      BY <2>1, <3>2
  <2>3. ~(b <= b - 1)
    OBVIOUS
  <2> HIDE DEF Bounds
  <2> QED
    BY <1>2, <2>2, <2>3
<1> QED
  BY <1>3, <1>4

-----------------------------------------------------------------------------
(* Functions on an interval L .. N, from their value at L upwards.         *)

\* What holds at L, and at k if it does at k - 1, holds everywhere.
LEMMA FromTheLeast ==
  ASSUME NEW L \in Int, NEW N \in Int, NEW A, L \in A,
         \A k \in L + 1 .. N : k - 1 \in A => k \in A
  PROVE  L .. N \subseteq A
<1> DEFINE Bad == {m \in Nat : L + m <= N /\ L + m \notin A}
<1>1. ASSUME Bad # {} PROVE FALSE
  <2>1. PICK m \in Bad : \A j \in Bad : m <= j
    BY <1>1, LeastNat
  <2>2. m # 0
    BY <2>1
  <2>3. m - 1 \in Nat /\ ~(m <= m - 1)
    BY <2>2
  <2>4. L + (m - 1) \in A
    BY <2>1, <2>3
  <2>5. L + m \in L + 1 .. N /\ (L + m) - 1 = L + (m - 1)
    BY <2>1, <2>2
  <2> QED
    BY <2>1, <2>4, <2>5
<1>2. ASSUME NEW k \in L .. N PROVE k \in A
  <2>1. k - L \in Nat /\ L + (k - L) = k
    OBVIOUS
  <2>2. k - L \notin Bad
    BY <1>1
  <2> QED
    BY <2>1, <2>2
<1> QED
  BY <1>2

Recursive(L, N, S, x0, g) ==
  L \in Int /\ N \in Int /\ L <= N /\ x0 \in S /\ g \in [Int -> [S -> S]]

\* A recursion on such an interval defines a function.
LEMMA RecursionDefines ==
  ASSUME NEW L, NEW N, NEW S, NEW x0, NEW g, Recursive(L, N, S, x0, g)
  PROVE  \E w \in [L .. N -> S] :
           w[L] = x0 /\ \A k \in L + 1 .. N : w[k] = g[k][w[k - 1]]
<1> USE DEF Recursive
<1> DEFINE Step(w, m) == w[L] = x0 /\ \A k \in L + 1 .. m : w[k] = g[k][w[k - 1]]
           A == {m \in L .. N : \E w \in [L .. m -> S] : Step(w, m)}
<1>1. L \in A
  <2> DEFINE v == [k \in L .. L |-> x0]
  <2>1. v \in [L .. L -> S] /\ Step(v, L) /\ L \in L .. N
    OBVIOUS
  <2> HIDE DEF v, Step
  <2>2. \E u \in [L .. L -> S] : Step(u, L)
    BY <2>1
  <2> QED
    BY <2>1, <2>2
<1>2. ASSUME NEW m \in L + 1 .. N, m - 1 \in A PROVE m \in A
  <2>1. PICK w \in [L .. m - 1 -> S] : Step(w, m - 1)
    BY <1>2
  <2> DEFINE v == [k \in L .. m |-> IF k = m THEN g[m][w[m - 1]] ELSE w[k]]
  <2>2. w[m - 1] \in S /\ m \in Int /\ g[m] \in [S -> S]
    OBVIOUS
  <2>3. v \in [L .. m -> S]
    BY <2>2
  <2>4. Step(v, m)
    <3>1. v[L] = x0
      BY <2>1
    <3>2. ASSUME NEW k \in L + 1 .. m PROVE v[k] = g[k][v[k - 1]]
      <4>1. v[k - 1] = w[k - 1]
        OBVIOUS
      <4>2. CASE k = m
        BY <4>1, <4>2
      <4>3. CASE k # m
        <5>1. k \in L + 1 .. m - 1
          BY <4>3
        <5> QED
          BY <2>1, <4>1, <4>3, <5>1
      <4> QED
        BY <4>2, <4>3
    <3> QED
      BY <3>1, <3>2
  <2>5. m \in L .. N
    OBVIOUS
  <2> HIDE DEF v, Step
  <2>6. \E u \in [L .. m -> S] : Step(u, m)
    BY <2>3, <2>4
  <2> QED
    BY <2>5, <2>6
<1> HIDE DEF A
<1>3. L .. N \subseteq A
  BY <1>1, <1>2, FromTheLeast
<1>4. N \in A
  BY <1>3
<1> QED
  BY <1>4 DEF A

-----------------------------------------------------------------------------
(* Lists, as the sets of their elements.                                   *)

Elements(list) == {list[k] : k \in DOMAIN list}

\* No element is in the list twice.
Injective(list) == \A j, k \in DOMAIN list : list[j] = list[k] => j = k

\* The empty list.
LEMMA EmptyList == ASSUME NEW S
  PROVE <<>> \in Seq(S) /\ Elements(<<>>) = {} /\ Injective(<<>>)
<1>1. <<>> \in Seq(S) /\ DOMAIN <<>> = {}
  BY EmptySeq, LenProperties
<1> QED
  BY <1>1 DEF Elements, Injective

\* push_back() adds one element at the end.
LEMMA AppendFacts ==
  ASSUME NEW S, NEW list \in Seq(S), NEW p \in S
  PROVE  /\ Append(list, p) \in Seq(S) /\ Append(list, p) # <<>>
         /\ Elements(Append(list, p)) = Elements(list) \cup {p}
         /\ p \notin Elements(list) /\ Injective(list) => Injective(Append(list, p))
<1> DEFINE l == Append(list, p)
           n == Len(list)
<1>1. n \in Nat /\ DOMAIN list = 1 .. n
  BY LenProperties
<1>2. /\ l \in Seq(S) /\ Len(l) = n + 1
      /\ \A j \in 1 .. n : l[j] = list[j]
      /\ l[n + 1] = p
  BY AppendProperties
<1>3. DOMAIN l = 1 .. n + 1 /\ l # <<>>
  BY <1>1, <1>2, LenProperties, EmptySeq
<1> HIDE DEF l, n
<1>4. \A j : j \in DOMAIN l <=> j \in DOMAIN list \/ j = n + 1
  BY <1>1, <1>3
<1>5. n + 1 \notin DOMAIN list /\ \A j \in DOMAIN list : l[j] = list[j]
  BY <1>1, <1>2
<1>6. Elements(l) = Elements(list) \cup {p}
  BY <1>2, <1>4, <1>5 DEF Elements
<1>7. ASSUME p \notin Elements(list), Injective(list) PROVE Injective(l)
  BY <1>2, <1>4, <1>5, <1>7 DEF Elements, Injective
<1> QED
  BY <1>2, <1>3, <1>6, <1>7 DEF l

\* Two lists without common elements, one after the other.
LEMMA ConcatFacts ==
  ASSUME NEW S, NEW s \in Seq(S), NEW t \in Seq(S), Injective(s), Injective(t),
         Elements(s) \cap Elements(t) = {}
  PROVE  /\ s \o t \in Seq(S)
         /\ Elements(s \o t) = Elements(s) \cup Elements(t)
         /\ Injective(s \o t)
<1>1. /\ Len(s) \in Nat /\ DOMAIN s = 1 .. Len(s) /\ Len(t) \in Nat /\ DOMAIN t = 1 .. Len(t)
      /\ s \o t \in Seq(S) /\ Len(s \o t) = Len(s) + Len(t)
  BY LenProperties, ConcatProperties
<1> DEFINE u == s \o t
<1>2. DOMAIN u = 1 .. Len(s) + Len(t)
  BY <1>1, LenProperties
<1>3. \A k \in 1 .. Len(s) + Len(t) : u[k] = IF k <= Len(s) THEN s[k] ELSE t[k - Len(s)]
  BY ConcatProperties
<1> HIDE DEF u
<1>4. /\ \A k \in 1 .. Len(s) : k \in DOMAIN u /\ u[k] = s[k]
      /\ \A k \in 1 .. Len(t) : Len(s) + k \in DOMAIN u /\ u[Len(s) + k] = t[k]
  <2>1. Len(s) \in Nat /\ Len(t) \in Nat
    BY <1>1
  <2>2. ASSUME NEW k \in 1 .. Len(s) PROVE k \in DOMAIN u /\ u[k] = s[k]
    <3>1. k \in 1 .. Len(s) + Len(t) /\ k <= Len(s)
      BY ONLY <2>1, k \in 1 .. Len(s), SMT
    <3> QED
      BY ONLY <1>2, <1>3, <3>1
  <2>3. ASSUME NEW k \in 1 .. Len(t) PROVE Len(s) + k \in DOMAIN u /\ u[Len(s) + k] = t[k]
    <3>1. /\ Len(s) + k \in 1 .. Len(s) + Len(t) /\ ~ (Len(s) + k <= Len(s))
          /\ (Len(s) + k) - Len(s) = k
      BY ONLY <2>1, k \in 1 .. Len(t), SMT
    <3> QED
      BY ONLY <1>2, <1>3, <3>1
  <2> QED
    BY <2>2, <2>3
<1>5. \A k \in DOMAIN u : \/ k \in DOMAIN s /\ u[k] = s[k]
                          \/ k - Len(s) \in DOMAIN t /\ u[k] = t[k - Len(s)]
  <2> TAKE k \in DOMAIN u
  <2>1. Len(s) \in Nat /\ Len(t) \in Nat /\ k \in 1 .. Len(s) + Len(t)
    BY <1>1, <1>2
  <2>2. CASE k <= Len(s)
    <3>1. k \in 1 .. Len(s)
      BY ONLY <2>1, <2>2, SMT
    <3> QED
      BY ONLY <1>1, <1>3, <2>1, <2>2, <3>1
  <2>3. CASE ~ (k <= Len(s))
    <3>1. k - Len(s) \in 1 .. Len(t)
      BY ONLY <2>1, <2>3, SMT
    <3> QED
      BY ONLY <1>1, <1>3, <2>1, <2>3, <3>1
  <2> QED
    BY <2>2, <2>3
<1>6. Elements(u) \subseteq Elements(s) \cup Elements(t)
  BY <1>5 DEF Elements
<1>7. Elements(s) \cup Elements(t) \subseteq Elements(u)
  BY <1>1, <1>4 DEF Elements
<1>8. Injective(u)
  <2> SUFFICES ASSUME NEW j \in DOMAIN u, NEW k \in DOMAIN u, u[j] = u[k] PROVE j = k
    BY DEF Injective
  <2>1. j \in Int /\ k \in Int
    BY <1>2
  <2>2. \A a \in DOMAIN s : \A b \in DOMAIN t : s[a] # t[b]
    BY DEF Elements
  <2> QED
    BY <1>1, <1>5, <2>1, <2>2 DEF Injective
<1> QED
  BY <1>1, <1>6, <1>7, <1>8 DEF u

-----------------------------------------------------------------------------
(* Loops that collect a list, written as recursive functions.              *)

\* One round of a loop: y is put behind or before what has been collected, or
\* pushed as one element, or passed over.
Round(how, x, y) ==
  IF how = "behind" THEN x \o y
  ELSE IF how = "before" THEN y \o x
  ELSE IF how = "push" THEN Append(x, y) ELSE x

\* After each round, from L to N, what has been collected.
Collected(L, N, how, y) ==
  CHOOSE w : w = [k \in L .. N |-> IF k = L THEN <<>> ELSE Round(how[k], w[k - 1], y[k])]

\* The rounds yield lists over S.
Yield(L, N, how, y, S) ==
  /\ L \in Int /\ N \in Int /\ L <= N
  /\ \A k \in L + 1 .. N : \A x \in Seq(S) : Round(how[k], x, y[k]) \in Seq(S)

LEMMA RoundsCollect ==
  ASSUME NEW S, NEW L, NEW N, NEW how, NEW y, Yield(L, N, how, y, S)
  PROVE  /\ Collected(L, N, how, y) \in [L .. N -> Seq(S)]
         /\ Collected(L, N, how, y)[L] = <<>>
         /\ \A k \in L + 1 .. N :
              Collected(L, N, how, y)[k] = Round(how[k], Collected(L, N, how, y)[k - 1], y[k])
<1> DEFINE u == Collected(L, N, how, y)
           W(w) == [k \in L .. N |-> IF k = L THEN <<>> ELSE Round(how[k], w[k - 1], y[k])]
           g == [k \in Int |-> [x \in Seq(S) |->
                  IF k \in L + 1 .. N THEN Round(how[k], x, y[k]) ELSE x]]
<1>0. <<>> \in Seq(S) /\ L \in Int /\ N \in Int /\ L <= N
  BY EmptySeq DEF Yield
<1>1. g \in [Int -> [Seq(S) -> Seq(S)]]
  BY DEF Yield
<1>2. \A k \in L + 1 .. N : \A x \in Seq(S) : g[k][x] = Round(how[k], x, y[k])
  OBVIOUS
<1> HIDE DEF g
<1>3. PICK w \in [L .. N -> Seq(S)] :
        w[L] = <<>> /\ \A k \in L + 1 .. N : w[k] = g[k][w[k - 1]]
  <2> DEFINE Q == Seq(S)
             q == <<>>
  <2>1. q \in Q /\ g \in [Int -> [Q -> Q]]
    BY <1>0, <1>1
  <2> SUFFICES \E w \in [L .. N -> Q] :
                 w[L] = q /\ \A k \in L + 1 .. N : w[k] = g[k][w[k - 1]]
    OBVIOUS
  <2> HIDE DEF Q, q
  <2>2. Recursive(L, N, Q, q, g)
    BY ONLY <1>0, <2>1 DEF Recursive
  <2> QED
    BY ONLY <2>2, RecursionDefines
<1>4. w = W(w)
  <2>1. ASSUME NEW k \in L .. N PROVE w[k] = W(w)[k]
    <3>1. CASE k = L
      BY <1>3, <3>1
    <3>2. CASE k # L
      <4>1. k \in L + 1 .. N /\ k - 1 \in L .. N
        BY <1>0, <3>2
      <4>2. w[k - 1] \in Seq(S) /\ w[k] = g[k][w[k - 1]]
        BY <1>3, <4>1
      <4> QED
        BY <1>2, <3>2, <4>1, <4>2
    <3> QED
      BY <3>1, <3>2
  <2>2. w = [k \in L .. N |-> w[k]]
    BY <1>3
  <2> HIDE DEF W
  <2>3. [k \in L .. N |-> w[k]] = [k \in L .. N |-> W(w)[k]]
    BY <2>1
  <2>4. W(w) = [k \in L .. N |-> W(w)[k]]
    BY DEF W
  <2> QED
    BY <2>2, <2>3, <2>4
<1>5. u = CHOOSE v : v = W(v)
  BY DEF Collected
<1> HIDE DEF W, u
<1>6. u = W(u)
  BY ONLY <1>4, <1>5, Zenon
<1>7. /\ u[L] = <<>>
      /\ \A k \in L + 1 .. N : u[k] = Round(how[k], u[k - 1], y[k])
  <2>1. L \in L .. N /\ \A k \in L + 1 .. N : k \in L .. N /\ k # L
    BY <1>0
  <2>2. /\ W(u)[L] = <<>>
        /\ \A k \in L + 1 .. N : W(u)[k] = Round(how[k], u[k - 1], y[k])
    BY ONLY <2>1 DEF W
  <2> QED
    BY ONLY <1>6, <2>2
<1>8. u \in [L .. N -> Seq(S)]
  <2> DEFINE A == {k \in L .. N : u[k] \in Seq(S)}
  <2>1. L \in A
    <3>1. u[L] \in Seq(S)
      BY ONLY <1>0, <1>7, Zenon
    <3>2. L \in L .. N
      BY <1>0
    <3> QED
      BY ONLY <3>1, <3>2
  <2>2. ASSUME NEW k \in L + 1 .. N, k - 1 \in A PROVE k \in A
    <3>1. Round(how[k], u[k - 1], y[k]) \in Seq(S)
      BY <2>2 DEF Yield
    <3>2. k \in L .. N
      BY <1>0
    <3> QED
      BY ONLY <1>7, <3>1, <3>2, k \in L + 1 .. N
  <2> HIDE DEF A
  <2>3. L .. N \subseteq A
    BY ONLY <2>1, <2>2, FromTheLeast, <1>0
  <2>4. \A k \in L .. N : u[k] \in Seq(S)
    BY ONLY <2>3 DEF A
  <2>5. u = [k \in L .. N |-> u[k]]
    BY ONLY <1>6 DEF W
  <2> QED
    BY ONLY <2>4, <2>5
<1> QED
  BY <1>7, <1>8 DEF u

\* Pieces collected from the last one to the first, each behind the others, make
\* the list that is collected from the first one to the last, each before them.
Joins(N, L, S, m, w, u) ==
  /\ N \in Nat /\ L \in -1 .. N
  /\ \A k \in 0 .. N : m[k] \in Seq(S)
  /\ \A k \in -1 .. N : w[k] \in Seq(S) /\ u[k] \in Seq(S)
  /\ w[-1] = <<>> /\ \A k \in 0 .. N : w[k] = m[k] \o w[k - 1]
  /\ u[-1] = <<>>
  /\ \A k \in 0 .. N : u[k] = IF k <= L THEN u[k - 1] \o m[L - k] ELSE u[k - 1]

LEMMA JoinsAgree ==
  ASSUME NEW N, NEW L, NEW S, NEW m, NEW w, NEW u, Joins(N, L, S, m, w, u)
  PROVE  u[N] = w[L]
<1>1. N \in Nat /\ L \in Int /\ -1 <= L /\ L <= N
  BY DEF Joins
<1>2. \A k \in -1 .. N : w[k] \in Seq(S) /\ u[k] \in Seq(S)
  BY DEF Joins
<1> DEFINE joined(k) == /\ k < L => u[k] \o w[L - k - 1] = w[L]
                        /\ ~ (k < L) => u[k] = w[L]
           A == {k \in -1 .. N : joined(k)}
<1>3. -1 \in A
  <2>1. u[-1] = <<>> /\ w[-1] = <<>> /\ w[L] \in Seq(S) /\ L - (-1) - 1 = L /\ -1 \in -1 .. N
    BY <1>1, <1>2 DEF Joins
  <2>2. u[-1] \o w[L] = w[L]
    BY <2>1, ConcatEmptySeq
  <2>3. -1 < L => u[-1] \o w[L - (-1) - 1] = w[L]
    BY ONLY <2>1, <2>2, Zenon
  <2>4. ~ (-1 < L) => L = -1
    BY ONLY <1>1
  <2>5. ~ (-1 < L) => u[-1] = w[L]
    BY ONLY <2>1, <2>4, Zenon
  <2>6. joined(-1)
    BY ONLY <2>3, <2>5, Zenon
  <2> HIDE DEF joined
  <2> QED
    BY ONLY <2>1, <2>6
<1>4. ASSUME NEW k \in -1 + 1 .. N, k - 1 \in A PROVE k \in A
  <2>1. k \in 0 .. N /\ k \in -1 .. N /\ k - 1 \in -1 .. N
    BY <1>1
  <2>2. u[k] = IF k <= L THEN u[k - 1] \o m[L - k] ELSE u[k - 1]
    BY <2>1 DEF Joins
  <2>3. CASE k <= L
    <3>1. /\ L - k \in 0 .. N /\ L - k - 1 \in -1 .. N /\ k - 1 < L
          /\ L - (k - 1) - 1 = L - k
      BY <1>1, <2>1, <2>3
    <3>2. u[k - 1] \o w[L - k] = w[L]
      BY <1>4, <3>1
    <3>3. w[L - k] = m[L - k] \o w[L - k - 1] /\ m[L - k] \in Seq(S)
      BY <3>1 DEF Joins
    <3>4. (u[k - 1] \o m[L - k]) \o w[L - k - 1] = u[k - 1] \o (m[L - k] \o w[L - k - 1])
      <4>1. u[k - 1] \in Seq(S) /\ m[L - k] \in Seq(S) /\ w[L - k - 1] \in Seq(S)
        BY <1>2, <2>1, <3>1, <3>3
      <4>2. \A s \in Seq(S), t \in Seq(S), v \in Seq(S) : (s \o t) \o v = s \o (t \o v)
        BY ConcatAssociative
      <4> QED
        BY ONLY <4>1, <4>2, Zenon
    <3>5. u[k] \o w[L - k - 1] = w[L]
      BY <2>2, <2>3, <3>2, <3>3, <3>4
    <3>6. ASSUME k = L PROVE u[k] = w[L]
      <4>1. w[L - k - 1] = <<>>
        BY <1>1, <3>6 DEF Joins
      <4>2. u[k] \in Seq(S)
        BY <1>2, <2>1
      <4>3. u[k] \o <<>> = u[k]
        BY ONLY <4>2, ConcatEmptySeq
      <4> QED
        BY ONLY <3>5, <4>1, <4>3, Zenon
    <3>7. ~ (k < L) => k = L
      BY ONLY <1>1, <2>1, <2>3
    <3>8. joined(k)
      BY ONLY <3>5, <3>6, <3>7, Zenon
    <3> HIDE DEF joined
    <3> QED
      BY ONLY <2>1, <3>8
  <2>4. CASE ~ (k <= L)
    <3>1. ~ (k - 1 < L) /\ ~ (k < L)
      BY <1>1, <2>1, <2>4
    <3> QED
      BY <1>4, <2>1, <2>2, <2>4, <3>1
  <2> QED
    BY <2>3, <2>4
<1> HIDE DEF A
<1>5. -1 .. N \subseteq A
  <2>1. -1 \in Int /\ N \in Int
    BY <1>1
  <2>2. \A k \in -1 + 1 .. N : k - 1 \in A => k \in A
    BY <1>4
  <2> QED
    BY ONLY <1>3, <2>1, <2>2, FromTheLeast
<1>6. N \in A /\ ~ (N < L)
  BY <1>1, <1>5
<1> QED
  BY <1>6 DEF A

-----------------------------------------------------------------------------
(* Names, which are lists of components, and their prefixes.               *)

Initial(n, k) == SubSeq(n, 1, k)

Initials(n) == {Initial(n, k) : k \in 0 .. Len(n)}

\* A prefix of a name is a name, and its prefixes are those of the name.
LEMMA InitialFacts ==
  ASSUME NEW C, NEW n \in Seq(C)
  PROVE  /\ Len(n) \in Nat
         /\ Initial(n, Len(n)) = n
         /\ \A k \in 0 .. Len(n) :
              /\ Initial(n, k) \in Seq(C)
              /\ Len(Initial(n, k)) = k
              /\ k # 0 => Initial(n, k) # <<>>
              /\ \A j \in 0 .. k : Initial(Initial(n, k), j) = Initial(n, j)
<1>1. n \in Seq(C) /\ Len(n) \in Nat
  BY LenProperties
<1>2. Initial(n, Len(n)) = n
  BY <1>1, SubSeqFull DEF Initial
<1>3. ASSUME NEW k \in 0 .. Len(n)
      PROVE  /\ Initial(n, k) \in Seq(C)
             /\ Len(Initial(n, k)) = k
             /\ k # 0 => Initial(n, k) # <<>>
             /\ \A j \in 0 .. k : Initial(Initial(n, k), j) = Initial(n, j)
  <2>2. \A j \in 1 .. k : n[j] \in C
    BY <1>1, ElementOfSeq
  <2>3. Initial(n, k) \in Seq(C) /\ Len(Initial(n, k)) = k
    BY <1>1, <2>2, SubSeqProperties DEF Initial
  <2>4. k # 0 => Initial(n, k) # <<>>
    BY <2>3, EmptySeq
  <2>5. ASSUME NEW j \in 0 .. k
        PROVE  Initial(Initial(n, k), j) = Initial(n, j)
    <3>1. CASE j = 0
      BY <1>1, <2>3, <3>1, SubSeqEmpty DEF Initial
    <3>2. CASE j # 0
      BY <1>1, <3>2, SubSeqOfSubSeq, 1 \in 1 .. Len(n), k \in 1 .. Len(n),
         j \in 1 .. k DEF Initial
    <3> QED
      BY <3>1, <3>2
  <2> QED
    BY <2>3, <2>4, <2>5
<1> QED
  BY <1>1, <1>2, <1>3

LEMMA InitialReflexive ==
  ASSUME NEW C, NEW n \in Seq(C)
  PROVE  n \in Initials(n) /\ Initials(n) \subseteq Seq(C)
<1>1. Len(n) \in 0 .. Len(n) /\ n = Initial(n, Len(n))
  BY InitialFacts
<1> QED
  BY <1>1, InitialFacts DEF Initials

LEMMA InitialTransitive ==
  ASSUME NEW C, NEW n \in Seq(C), NEW m \in Initials(n)
  PROVE  Initials(m) \subseteq Initials(n)
<1>1. PICK k \in 0 .. Len(n) : m = Initial(n, k)
  BY DEF Initials
<1>2. Len(m) = k /\ \A j \in 0 .. k : Initial(m, j) = Initial(n, j)
  BY <1>1, InitialFacts
<1>3. Len(n) \in Nat
  BY InitialFacts
<1> QED
  BY <1>2, <1>3 DEF Initials

\* Two names with a common prefix of k components: if every longer prefix of m
\* is known to be one of n, then m is.
LEMMA PathFollows ==
  ASSUME NEW C, NEW m \in Seq(C), NEW n \in Seq(C), NEW k \in 0 .. Len(m),
         k <= Len(n), Initial(m, k) = Initial(n, k),
         \A j \in k .. Len(m) - 1 :
           j <= Len(n) /\ Initial(m, j) = Initial(n, j) =>
             Initial(m, j + 1) \in Initials(n)
  PROVE  \A j \in k .. Len(m) : j <= Len(n) /\ Initial(m, j) = Initial(n, j)
<1> DEFINE Off == {j \in k .. Len(m) :
                     ~(j <= Len(n) /\ Initial(m, j) = Initial(n, j))}
<1>1. Len(m) \in Nat /\ Len(n) \in Nat
  BY InitialFacts
<1> SUFFICES ASSUME Off # {} PROVE FALSE
  OBVIOUS
<1>2. Off \in SUBSET Nat
  BY <1>1
<1>3. PICK j \in Off : \A x \in Off : j <= x
  BY <1>2, LeastNat
<1>4. j \in k .. Len(m) /\ j # k
  OBVIOUS
<1>5. j - 1 \in k .. Len(m) - 1 /\ j - 1 \notin Off
  BY <1>1, <1>3, <1>4
<1>6. j - 1 <= Len(n) /\ Initial(m, j - 1) = Initial(n, j - 1)
  BY <1>1, <1>5
<1>7. Initial(m, j) \in Initials(n)
  BY <1>1, <1>4, <1>5, <1>6, j - 1 + 1 = j
<1>8. PICK x \in 0 .. Len(n) : Initial(m, j) = Initial(n, x)
  BY <1>7 DEF Initials
<1>9. Len(Initial(m, j)) = j /\ Len(Initial(n, x)) = x
  BY <1>1, <1>4, InitialFacts
<1> QED
  BY <1>8, <1>9, <1>3

\* n and its ancestors up to the first that is in use (V) or has another child
\* among the names that are stored (S).
Unused(S, V, n) ==
  {Initial(n, k) : k \in {k \in 0 .. Len(n) :
     \A j \in k .. Len(n) :
       /\ Initial(n, j) \notin V
       /\ {m \in S : m # <<>> /\ Initial(m, Len(m) - 1) = Initial(n, j)}
            \subseteq Initials(n)}}

\* Erasing n and its ancestors up to the first that is used or has another child
\* leaves the paths to what is used (V), and nothing else.
LEMMA ErasureExact ==
  ASSUME NEW C, NEW U \in SUBSET Seq(C), NEW V \in SUBSET U, NEW n \in Seq(C), U \ {n} \subseteq V,
         NEW S, S = UNION {Initials(m) : m \in U}
  PROVE  S \ Unused(S, V, n) = UNION {Initials(m) : m \in V}
<1> DEFINE E == Unused(S, V, n)
<1>0. Len(n) \in Nat /\ V \subseteq Seq(C)
  BY InitialFacts
<1>1. ASSUME NEW m \in V, NEW p \in Initials(m), p \in E PROVE FALSE
  <2>1. m \in Seq(C) /\ Len(m) \in Nat /\ Initials(m) \subseteq S
    BY <1>0, InitialFacts
  <2>2. PICK k \in 0 .. Len(n) :
          /\ p = Initial(n, k)
          /\ \A j \in k .. Len(n) :
               /\ Initial(n, j) \notin V
               /\ {x \in S : /\ x # <<>>
                              /\ Initial(x, Len(x) - 1) = Initial(n, j)}
                    \subseteq Initials(n)
    BY <1>1 DEF Unused
  <2>3. PICK k2 \in 0 .. Len(m) : p = Initial(m, k2)
    BY <1>1 DEF Initials
  <2>4. k2 = k
    <3>1. Len(Initial(n, k)) = k
      BY InitialFacts
    <3>2. Len(Initial(m, k2)) = k2
      BY <2>1, InitialFacts
    <3> QED
      BY ONLY <2>2, <2>3, <3>1, <3>2
  <2>5. ASSUME NEW j \in k .. Len(m) - 1,
               j <= Len(n), Initial(m, j) = Initial(n, j)
        PROVE  Initial(m, j + 1) \in Initials(n)
    <3> DEFINE x == Initial(m, j + 1)
    <3>1. j + 1 \in 0 .. Len(m) /\ j \in 0 .. j + 1 /\ j \in k .. Len(n)
      BY <2>1, <2>5, <1>0
    <3>2. x \in S
      BY <2>1, <3>1 DEF Initials
    <3>3. x # <<>> /\ Len(x) = j + 1 /\ Initial(x, j) = Initial(m, j)
      BY <2>1, <3>1, InitialFacts
    <3>4. Len(x) - 1 = j
      BY <3>3, <3>1
    <3>5. Initial(x, Len(x) - 1) = Initial(n, j)
      BY <2>5, <3>3, <3>4
    <3> HIDE DEF x
    <3> QED
      BY <2>2, <3>1, <3>2, <3>3, <3>5 DEF x
  <2>6. k \in 0 .. Len(m) /\ k <= Len(n) /\ Initial(m, k) = Initial(n, k)
    BY <1>0, <2>2, <2>3, <2>4
  <2>7. \A j \in k .. Len(m) : j <= Len(n) /\ Initial(m, j) = Initial(n, j)
    BY <2>1, <2>5, <2>6, PathFollows
  <2>8. Len(m) \in k .. Len(n) /\ m = Initial(n, Len(m))
    BY <1>0, <2>1, <2>6, <2>7, InitialFacts
  <2> QED
    BY <1>1, <2>2, <2>8
<1>2. ASSUME NEW p \in S, p \notin E PROVE \E m \in V : p \in Initials(m)
  <2>1. PICK m \in U : p \in Initials(m)
    OBVIOUS
  <2>2. CASE m \in V
    BY <2>1, <2>2
  <2>3. CASE m = n
    <3>1. PICK k \in 0 .. Len(n) : p = Initial(n, k)
      BY <2>1, <2>3 DEF Initials
    <3>2. PICK j \in k .. Len(n) :
            \/ Initial(n, j) \in V
            \/ \E x \in S \ Initials(n) :
                  /\ x # <<>>
                  /\ Initial(x, Len(x) - 1) = Initial(n, j)
      BY <1>2, <3>1 DEF Unused
    <3>3. j \in 0 .. Len(n) /\ k \in 0 .. j
      BY <1>0, <3>1, <3>2
    <3>4. /\ Len(Initial(n, j)) = j /\ Initial(n, j) \in Seq(C)
          /\ p = Initial(Initial(n, j), k)
      BY <3>1, <3>3, InitialFacts
    <3>5. p \in Initials(Initial(n, j))
      BY <3>3, <3>4 DEF Initials
    <3>6. CASE Initial(n, j) \in V
      BY <3>5, <3>6
    <3>7. ASSUME NEW x \in S \ Initials(n), x # <<>>,
                 Initial(x, Len(x) - 1) = Initial(n, j)
          PROVE  \E y \in V : p \in Initials(y)
      <4>1. PICK y \in U : x \in Initials(y)
        BY <3>7
      <4>2. y \in V /\ y \in Seq(C)
        BY <3>7, <4>1
      <4>3. x \in Seq(C)
        BY <4>1, <4>2, InitialReflexive
      <4>4. Len(x) \in Nat /\ Len(x) # 0
        BY <3>7, <4>3, EmptySeq, LenProperties
      <4>5. Initial(n, j) \in Initials(x)
        BY <3>7, <4>4 DEF Initials
      <4>6. p \in Initials(x)
        BY <3>5, <4>3, <4>5, InitialTransitive
      <4> QED
        BY <4>1, <4>2, <4>6, InitialTransitive
    <3> QED
      BY <3>2, <3>6, <3>7
  <2> QED
    BY <2>1, <2>2, <2>3
<1> QED
  BY <1>1, <1>2

=============================================================================
