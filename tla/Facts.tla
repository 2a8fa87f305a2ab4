------------------------------- MODULE Facts -------------------------------
(***************************************************************************)
(* What the proofs share and the library does not have: induction on the   *)
(* numbers up to a bound, and with it functions that are defined by steps; *)
(* sequences; and what ORDER BY makes of a finite set of numbers.          *)
(*                                                                         *)
(* The library's theorems on induction and recursion take an operator.  Here*)
(* a set stands for the predicate and a function for the step.             *)
(***************************************************************************)
EXTENDS Integers, Sequences, FiniteSetTheorems, WellFoundedInduction, TLAPS

Below == {p \in Nat \X Nat : p[1] < p[2]}

LEMMA BelowIs == OpToRel(<, Nat) = Below
BY DEF OpToRel, Below

\* A set of naturals has a least one.
LEMMA Least ==
  ASSUME NEW T, T \subseteq Nat, T # {}
  PROVE  \E n \in T : \A m \in T : n <= m
<1>1. IsWellFoundedOn(Below, Nat)
  BY NatLessThanWellFounded, BelowIs
<1>2. PICK x \in T : \A y \in T : ~ (<<y, x>> \in Below)
  BY <1>1, WFMin
<1>3. ASSUME NEW m \in T PROVE x <= m
  <2>1. x \in Nat /\ m \in Nat
    OBVIOUS
  <2>2. ~(m < x)
    <3>1. <<m, x>>[1] = m /\ <<m, x>>[2] = x /\ <<m, x>> \in Nat \X Nat
      BY <2>1
    <3> QED
      BY <1>2, <3>1 DEF Below
  <2> QED
    BY <2>1, <2>2
<1> QED
  BY <1>3

\* Induction up to n, for a set in place of a predicate.
LEMMA Induction ==
  ASSUME NEW n \in Nat, NEW S, 0 \in S, \A k \in 1..n : k - 1 \in S => k \in S
  PROVE  0..n \subseteq S
<1> SUFFICES ASSUME 0..n \ S # {} PROVE FALSE
  OBVIOUS
<1>1. PICK k \in 0..n \ S : \A m \in 0..n \ S : k <= m
  <2>1. 0..n \ S \subseteq Nat
    OBVIOUS
  <2> QED
    BY <2>1, Least
<1>2. k \in 1..n /\ k - 1 \in 0..n /\ ~(k <= k - 1)
  BY <1>1
<1>3. k - 1 \in S
  BY <1>1, <1>2
<1> QED
  BY <1>1, <1>2, <1>3

\* The same, where a step may rest on all that lies below it.
LEMMA StrongInduction ==
  ASSUME NEW n \in Nat, NEW S, \A k \in 0..n : (\A m \in 0..(k - 1) : m \in S) => k \in S
  PROVE  0..n \subseteq S
<1> SUFFICES ASSUME 0..n \ S # {} PROVE FALSE
  OBVIOUS
<1>1. PICK k \in 0..n \ S : \A m \in 0..n \ S : k <= m
  <2>1. 0..n \ S \subseteq Nat
    OBVIOUS
  <2> QED
    BY <2>1, Least
<1>2. ASSUME NEW m \in 0..(k - 1) PROVE m \in S
  <2>1. m \in 0..n /\ ~(k <= m)
    BY <1>1
  <2> QED
    BY <1>1, <2>1
<1> QED
  BY <1>1, <1>2

\* There is a function that begins with a and goes on by steps.
Steps(n, S, a, step, f) ==
  /\ f \in [0..n -> S]
  /\ f[0] = a
  /\ \A k \in 1..n : f[k] = step[<<k, f[k - 1]>>]

LEMMA Recursion ==
  ASSUME NEW n \in Nat, NEW S, NEW a \in S, NEW step \in [(1..n) \X S -> S]
  PROVE  \E f : Steps(n, S, a, step, f)
<1> DEFINE Good(j, f) == f[0] = a /\ \A k \in 1..j : f[k] = step[<<k, f[k - 1]>>]
           Js == {j \in 0..n : \E f \in [0..j -> S] : Good(j, f)}
<1>1. 0 \in Js
  <2>1. [k \in 0..0 |-> a] \in [0..0 -> S] /\ Good(0, [k \in 0..0 |-> a])
    OBVIOUS
  <2>2. \E f \in [0..0 -> S] : Good(0, f)
    BY <2>1, Zenon
  <2> HIDE DEF Good
  <2> QED
    BY <2>2
<1>2. ASSUME NEW j \in 1..n, j - 1 \in Js PROVE j \in Js
  <2>1. PICK f \in [0..(j - 1) -> S] : Good(j - 1, f)
    BY <1>2
  <2> DEFINE b == step[<<j, f[j - 1]>>]
             g == [k \in 0..j |-> IF k = j THEN b ELSE f[k]]
  <2>2. f[j - 1] \in S /\ b \in S
    <3>1. j - 1 \in 0..(j - 1)
      OBVIOUS
    <3>2. f[j - 1] \in S
      BY <3>1
    <3>3. <<j, f[j - 1]>> \in (1..n) \X S
      BY <3>2
    <3> QED
      BY <3>2, <3>3
  <2> HIDE DEF b
  <2>3. g \in [0..j -> S]
    BY <2>2
  <2>4. g[0] = a
    BY <2>1
  <2>5. ASSUME NEW k \in 1..j PROVE g[k] = step[<<k, g[k - 1]>>]
    <3>1. CASE k = j
      <4>1. g[j] = b /\ g[j - 1] = f[j - 1]
        OBVIOUS
      <4> QED
        BY <3>1, <4>1 DEF b
    <3>2. CASE k # j
      <4>1. k \in 1..(j - 1) /\ k \in 0..j /\ k - 1 \in 0..j /\ k - 1 # j
        BY <3>2
      <4>2. g[k] = f[k] /\ g[k - 1] = f[k - 1]
        BY <3>2, <4>1
      <4> QED
        BY <2>1, <4>1, <4>2
    <3> QED
      BY <3>1, <3>2
  <2> HIDE DEF g
  <2>6. Good(j, g)
    BY <2>4, <2>5
  <2> QED
    BY <2>3, <2>6
<1> HIDE DEF Js
<1>3. 0..n \subseteq Js
  BY <1>1, <1>2, Induction
<1>4. n \in Js
  BY <1>3
<1> QED
  BY <1>4 DEF Js, Steps

\* A function that goes on by steps from a value in S has all its values there.
LEMMA Unrolled ==
  ASSUME NEW n \in Nat, NEW S, NEW a \in S, NEW step \in [(1..n) \X S -> S], NEW f,
         f = [k \in 0..n |-> f[k]], f[0] = a,
         \A k \in 1..n : f[k - 1] \in S => f[k] = step[<<k, f[k - 1]>>]
  PROVE  Steps(n, S, a, step, f)
<1> DEFINE T == {k \in 0..n : f[k] \in S}
<1>1. 0 \in T
  OBVIOUS
<1>2. ASSUME NEW k \in 1..n, k - 1 \in T PROVE k \in T
  <2>1. <<k, f[k - 1]>> \in (1..n) \X S /\ k \in 0..n
    BY <1>2
  <2>2. f[k] = step[<<k, f[k - 1]>>]
    BY <1>2
  <2> QED
    BY <2>1, <2>2
<1> HIDE DEF T
<1>3. 0..n \subseteq T
  BY <1>1, <1>2, Induction
<1>4. \A k \in 0..n : f[k] \in S
  BY <1>3 DEF T
<1>5. f \in [0..n -> S]
  BY <1>4
<1>6. \A k \in 1..n : f[k] = step[<<k, f[k - 1]>>]
  <2> SUFFICES ASSUME NEW k \in 1..n PROVE f[k] = step[<<k, f[k - 1]>>]
    OBVIOUS
  <2>1. k - 1 \in 0..n
    OBVIOUS
  <2> QED
    BY <1>4, <2>1
<1> QED
  BY <1>5, <1>6 DEF Steps

\* Two functions that take the same steps from the same value.
LEMMA Alike ==
  ASSUME NEW n \in Nat, NEW f, NEW g, f[0] = g[0],
         \A k \in 1..n : f[k - 1] = g[k - 1] => f[k] = g[k]
  PROVE  f[n] = g[n]
<1> DEFINE S == {k \in 0..n : f[k] = g[k]}
<1>1. 0 \in S
  OBVIOUS
<1>2. ASSUME NEW k \in 1..n, k - 1 \in S PROVE k \in S
  BY <1>2
<1> HIDE DEF S
<1>3. n \in S
  <2>1. 0..n \subseteq S
    BY <1>1, <1>2, Induction
  <2> QED
    BY <2>1
<1> QED
  BY <1>3 DEF S
----------------------------------------------------------------------------
(***************************************************************************)
(* Sequences.                                                              *)
(***************************************************************************)
LEMMA One == ASSUME NEW C, NEW c \in C PROVE <<c>> \in Seq(C)
OBVIOUS

LEMMA Two ==
  ASSUME NEW C, NEW a \in C, NEW b \in C
  PROVE  <<a>> \o <<b>> = <<a, b>> /\ <<a, b>> \in Seq(C)
<1>1. <<a>> \in Seq(C) /\ <<b>> \in Seq(C) /\ <<a, b>> \in Seq(C) /\ <<a>> \o <<b>> \in Seq(C)
  OBVIOUS
<1>2. Len(<<a>> \o <<b>>) = 2 /\ Len(<<a, b>>) = 2
  OBVIOUS
<1>3. (<<a>> \o <<b>>)[1] = a /\ (<<a>> \o <<b>>)[2] = b /\ <<a, b>>[1] = a /\ <<a, b>>[2] = b
  OBVIOUS
<1>4. ASSUME NEW s \in Seq(C), NEW t \in Seq(C), Len(s) = 2, Len(t) = 2, s[1] = t[1], s[2] = t[2]
      PROVE  s = t
  <2>1. \A k \in 1..2 : k = 1 \/ k = 2
    OBVIOUS
  <2>2. \A k \in 1..2 : s[k] = t[k]
    BY <1>4, <2>1
  <2> QED
    BY <1>4, <2>2
<1>5. <<a>> \o <<b>> = <<a, b>>
  BY <1>1, <1>2, <1>3, <1>4, Zenon
<1> QED
  BY <1>1, <1>5

LEMMA AppendIs ==
  ASSUME NEW C, NEW s \in Seq(C), NEW c \in C
  PROVE  /\ Append(s, c) \in Seq(C) /\ Append(s, c) = s \o <<c>>
         /\ Len(Append(s, c)) = Len(s) + 1
         /\ \A k \in 1..Len(s) : Append(s, c)[k] = s[k]
         /\ Append(s, c)[Len(s) + 1] = c
OBVIOUS

LEMMA ConcatIs ==
  ASSUME NEW C, NEW s \in Seq(C), NEW t \in Seq(C)
  PROVE  /\ s \o t \in Seq(C) /\ Len(s \o t) = Len(s) + Len(t)
         /\ \A k \in 1..Len(s) : (s \o t)[k] = s[k]
         /\ \A k \in (Len(s) + 1)..(Len(s) + Len(t)) : (s \o t)[k] = t[k - Len(s)]
OBVIOUS

LEMMA Joined ==
  ASSUME NEW C, NEW t \in Seq(C), NEW p \in 0..Len(t)
  PROVE  /\ SubSeq(t, 1, p) \in Seq(C) /\ SubSeq(t, p + 1, Len(t)) \in Seq(C)
         /\ Len(SubSeq(t, 1, p)) = p /\ Len(SubSeq(t, p + 1, Len(t))) = Len(t) - p
         /\ SubSeq(t, 1, p) \o SubSeq(t, p + 1, Len(t)) = t
<1> DEFINE u == SubSeq(t, 1, p)
           w == SubSeq(t, p + 1, Len(t))
<1>1. /\ u \in Seq(C) /\ w \in Seq(C) /\ Len(u) = p /\ Len(w) = Len(t) - p
      /\ \A k \in 1..p : u[k] = t[k]
      /\ \A k \in 1..(Len(t) - p) : w[k] = t[p + k]
  OBVIOUS
<1> HIDE DEF u, w
<1>2. /\ u \o w \in Seq(C) /\ Len(u \o w) = Len(t)
      /\ \A k \in 1..p : (u \o w)[k] = u[k]
      /\ \A k \in (p + 1)..Len(t) : (u \o w)[k] = w[k - p]
  <2>1. p + (Len(t) - p) = Len(t)
    OBVIOUS
  <2>2. /\ u \o w \in Seq(C) /\ Len(u \o w) = p + (Len(t) - p)
        /\ \A k \in 1..p : (u \o w)[k] = u[k]
        /\ \A k \in (p + 1)..(p + (Len(t) - p)) : (u \o w)[k] = w[k - p]
    <3>1. /\ u \o w \in Seq(C) /\ Len(u \o w) = Len(u) + Len(w)
          /\ \A k \in 1..Len(u) : (u \o w)[k] = u[k]
          /\ \A k \in (Len(u) + 1)..(Len(u) + Len(w)) : (u \o w)[k] = w[k - Len(u)]
      BY <1>1, ConcatIs, ZenonT(40)
    <3> QED
      BY <1>1, <3>1, Zenon
  <2> QED
    BY <2>1, <2>2, Zenon
<1>3. ASSUME NEW k \in 1..Len(t) PROVE (u \o w)[k] = t[k]
  <2>1. CASE k <= p
    <3>1. k \in 1..p
      BY <2>1
    <3> QED
      BY <1>1, <1>2, <3>1, Zenon
  <2>2. CASE k > p
    <3>1. k - p \in 1..(Len(t) - p) /\ k \in (p + 1)..Len(t) /\ p + (k - p) = k
      BY <2>2
    <3>2. w[k - p] = t[p + (k - p)]
      BY <1>1, <3>1
    <3> QED
      BY <1>2, <3>1, <3>2, Zenon
  <2>3. k <= p \/ k > p
    OBVIOUS
  <2> QED
    BY <2>1, <2>2, <2>3
<1>4. u \o w = t
  <2>1. PICK v \in Seq(C) : v = u \o w
    BY <1>2, Zenon
  <2>2. Len(v) = Len(t) /\ \A k \in 1..Len(t) : v[k] = t[k]
    BY <1>2, <1>3, <2>1, Zenon
  <2>3. v = t
    BY <2>2
  <2> QED
    BY <2>1, <2>3
<1> QED
  BY <1>1, <1>4 DEF u, w

\* The first k elements are the first k - 1 and one more.
LEMMA PrefixNext ==
  ASSUME NEW C, NEW s \in Seq(C), NEW k \in 1..Len(s)
  PROVE  SubSeq(s, 1, k) = Append(SubSeq(s, 1, k - 1), s[k]) /\ SubSeq(s, 1, k - 1) \in Seq(C)
<1> DEFINE p == SubSeq(s, 1, k - 1)
           q == SubSeq(s, 1, k)
<1>1. /\ p \in Seq(C) /\ q \in Seq(C) /\ Len(p) = k - 1 /\ Len(q) = k
      /\ \A j \in 1..(k - 1) : p[j] = s[j]
      /\ \A j \in 1..k : q[j] = s[j]
  OBVIOUS
<1>2. s[k] \in C
  OBVIOUS
<1> HIDE DEF p, q
<1>3. PICK a \in Seq(C) : a = Append(p, s[k])
  BY <1>1, <1>2, AppendIs, Zenon
<1>4. /\ Len(a) = Len(p) + 1 /\ \A j \in 1..Len(p) : a[j] = p[j]
      /\ a[Len(p) + 1] = s[k]
  <2>1. PICK c \in C : c = s[k]
    BY <1>2
  <2>2. /\ Len(Append(p, c)) = Len(p) + 1 /\ \A j \in 1..Len(p) : Append(p, c)[j] = p[j]
        /\ Append(p, c)[Len(p) + 1] = c
    BY <1>1, AppendIs
  <2> QED
    BY <1>3, <2>1, <2>2, Zenon
<1>5. Len(a) = k /\ a[k] = s[k] /\ \A j \in 1..(k - 1) : a[j] = s[j]
  <2>1. (k - 1) + 1 = k
    OBVIOUS
  <2> QED
    BY <1>1, <1>4, <2>1, Zenon
<1>6. ASSUME NEW j \in 1..k PROVE a[j] = q[j]
  <2>1. j = k \/ j \in 1..(k - 1)
    OBVIOUS
  <2> QED
    BY <1>1, <1>5, <2>1, <1>6
<1>7. a = q
  BY <1>1, <1>5, <1>6
<1> QED
  BY <1>1, <1>3, <1>7 DEF p, q
----------------------------------------------------------------------------
(***************************************************************************)
(* A finite set of numbers in order, each of them once.                    *)
(***************************************************************************)
Increasing(rows) == \A i, j \in DOMAIN rows : i < j => rows[i] < rows[j]
Listing(S) == {rows \in [1..Cardinality(S) -> S] : Increasing(rows)}

LEMMA InjectiveIsOnto ==
  ASSUME NEW S, NEW T, NEW f \in Injection(S, T), IsFiniteSet(T), Cardinality(S) = Cardinality(T)
  PROVE  f \in Surjection(S, T)
BY FS_Injection

\* A finite set of numbers can be listed in order: each at its rank.
LEMMA ListingExists ==
  ASSUME NEW S, S \subseteq Int, IsFiniteSet(S)
  PROVE  \E rows : rows \in Listing(S)
<1> DEFINE n == Cardinality(S)
           Upto(x) == {y \in S : y <= x}
           rank == [x \in S |-> Cardinality(Upto(x))]
<1>1. n \in Nat
  BY FS_CardinalityType
<1>2. ASSUME NEW x \in S
      PROVE  IsFiniteSet(Upto(x)) /\ Cardinality(Upto(x)) \in 1..n
  <2>1. IsFiniteSet(Upto(x)) /\ Cardinality(Upto(x)) <= n
    BY FS_Subset
  <2>2. x \in Upto(x)
    OBVIOUS
  <2>3. Cardinality(Upto(x)) # 0
    BY <2>1, <2>2, FS_EmptySet
  <2>4. Cardinality(Upto(x)) \in Nat
    BY <2>1, FS_CardinalityType
  <2> QED
    BY <1>1, <2>1, <2>3, <2>4
<1>3. ASSUME NEW x \in S, NEW y \in S, x < y
      PROVE  rank[x] < rank[y]
  <2>1. IsFiniteSet(Upto(x)) /\ IsFiniteSet(Upto(y))
    BY <1>2
  <2>2. y \notin Upto(x) /\ Upto(x) \union {y} \subseteq Upto(y)
    <3>1. x \in Int /\ y \in Int
      OBVIOUS
    <3>2. \A z \in S : z \in Int
      OBVIOUS
    <3>3. y \notin Upto(x)
      BY <1>3, <3>1
    <3>4. ASSUME NEW z \in Upto(x)
          PROVE  z \in Upto(y)
      <4>1. z \in S /\ z <= x /\ z \in Int
        BY <3>2
      <4> QED
        BY <1>3, <3>1, <4>1
    <3>5. y \in Upto(y)
      BY <3>1
    <3> QED
      BY <3>3, <3>4, <3>5
  <2>3. Cardinality(Upto(x) \union {y}) = Cardinality(Upto(x)) + 1
    BY <2>1, <2>2, FS_AddElement
  <2>4. Cardinality(Upto(x) \union {y}) <= Cardinality(Upto(y))
    BY <2>1, <2>2, FS_Subset
  <2>5. Cardinality(Upto(x)) \in Nat /\ Cardinality(Upto(y)) \in Nat
    BY <1>2
  <2> QED
    BY <2>3, <2>4, <2>5
<1>4. rank \in Injection(S, 1..n)
  <2>1. rank \in [S -> 1..n]
    BY <1>2
  <2>2. ASSUME NEW x \in S, NEW y \in S, rank[x] = rank[y]
        PROVE  x = y
    <3>1. rank[x] \in Int /\ rank[y] \in Int
      BY <2>1
    <3> QED
      BY <1>3, <2>2, <3>1
  <2> QED
    BY <2>1, <2>2 DEF Injection, IsInjective
<1>5. rank \in Surjection(S, 1..n)
  <2>1. IsFiniteSet(1..n) /\ Cardinality(S) = Cardinality(1..n)
    BY <1>1, FS_Interval
  <2> HIDE DEF rank
  <2> QED
    BY <1>4, <2>1, InjectiveIsOnto
<1>6. \A k \in 1..n : \E x \in S : rank[x] = k
  BY <1>5 DEF Surjection
<1> DEFINE rows == [k \in 1..n |-> CHOOSE x \in S : rank[x] = k]
<1>7. \A k \in 1..n : rows[k] \in S /\ rank[rows[k]] = k
  BY <1>6
<1>8. ASSUME NEW i \in 1..n, NEW j \in 1..n, i < j
      PROVE  rows[i] < rows[j]
  <2>1. rows[i] \in Int /\ rows[j] \in Int
    BY <1>7
  <2>2. rank[rows[i]] = i /\ rank[rows[j]] = j
    BY <1>7
  <2> HIDE DEF rank, rows
  <2>3. rows[i] # rows[j]
    BY <1>8, <2>2
  <2>4. rows[j] < rows[i] => rank[rows[j]] < rank[rows[i]]
    BY <1>3, <1>7
  <2> QED
    BY <1>8, <2>1, <2>2, <2>3, <2>4
<1> QED
  BY <1>7, <1>8 DEF Listing, Increasing

\* A listing has every element at some place.
LEMMA ListsAll ==
  ASSUME NEW S, S \subseteq Int, IsFiniteSet(S), NEW rows \in Listing(S)
  PROVE  /\ rows \in Seq(S) /\ rows \in Seq(Int)
         /\ Increasing(rows)
         /\ \A v \in S : \E i \in DOMAIN rows : rows[i] = v
<1> DEFINE n == Cardinality(S)
<1>1. n \in Nat
  BY FS_CardinalityType
<1>2. rows \in [1..n -> S] /\ Increasing(rows)
  BY DEF Listing
<1>3. rows \in Injection(1..n, S)
  <2>1. ASSUME NEW i \in 1..n, NEW j \in 1..n, rows[i] = rows[j]
        PROVE  i = j
    <3>1. rows[i] \in Int /\ rows[j] \in Int
      BY <1>2
    <3>2. i < j => rows[i] < rows[j]
      BY <1>2 DEF Increasing
    <3>3. j < i => rows[j] < rows[i]
      BY <1>2 DEF Increasing
    <3> QED
      BY <1>1, <2>1, <3>1, <3>2, <3>3
  <2> QED
    BY <1>2, <2>1 DEF Injection, IsInjective
<1>4. rows \in Surjection(1..n, S)
  <2>1. IsFiniteSet(1..n) /\ Cardinality(1..n) = Cardinality(S)
    BY <1>1, FS_Interval
  <2> QED
    BY <1>3, <2>1, InjectiveIsOnto
<1>5. \A v \in S : \E i \in 1..n : rows[i] = v
  BY <1>4 DEF Surjection
<1>6. rows \in Seq(S) /\ DOMAIN rows = 1..n
  BY <1>1, <1>2
<1>7. rows \in Seq(Int)
  <2>1. rows \in [1..n -> Int]
    BY <1>2
  <2> QED
    BY <1>1, <2>1
<1> QED
  BY <1>2, <1>5, <1>6, <1>7

LEMMA FiniteImage ==
  ASSUME NEW S, IsFiniteSet(S), NEW f, DOMAIN f = S
  PROVE  IsFiniteSet({f[x] : x \in S})
<1> DEFINE T == {f[x] : x \in S}
           g == [x \in S |-> f[x]]
<1>1. g \in Surjection(S, T)
  BY DEF Surjection
<1> HIDE DEF T, g
<1>2. IsFiniteSet(T)
  BY <1>1, FS_Surjection
<1> QED
  BY <1>2 DEF T
=============================================================================
