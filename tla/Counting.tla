-------------------------- MODULE Counting --------------------------
(***************************************************************************)
(* Facts about cardinalities and sequences that the proofs about the order *)
(* manager rest on.  A pile is a set holding n[i] numbered lots for each i *)
(* of J; its cardinality is the sum of the n[i], which lets a sum be       *)
(* reasoned about with the library's theorems on finite sets.              *)
(***************************************************************************)
EXTENDS FiniteSetTheorems, SequenceTheorems, WellFoundedInduction, TLAPS

\* n[i] lots for each i of J.
Pile(J, n) == UNION {{i} \X (1 .. n[i]) : i \in J}

\* 1 .. k has k elements.
LEMMA Interval ==
  ASSUME NEW k \in Nat
  PROVE  IsFiniteSet(1 .. k) /\ Cardinality(1 .. k) = k
<1>1. 1 \in Int /\ k \in Int
  OBVIOUS
<1>2. /\ IsFiniteSet(1 .. k)
      /\ Cardinality(1 .. k) = IF 1 > k THEN 0 ELSE k - 1 + 1
  BY ONLY <1>1, FS_Interval
<1> QED BY <1>2

\* A pile over a finite set is finite.
LEMMA PileFinite ==
  ASSUME NEW J, IsFiniteSet(J), NEW n, \A i \in J : n[i] \in Nat
  PROVE  IsFiniteSet(Pile(J, n)) /\ Cardinality(Pile(J, n)) \in Nat
<1> DEFINE lots == [i \in J |-> {i} \X (1 .. n[i])]
           all  == {{i} \X (1 .. n[i]) : i \in J}
<1>1. lots \in Surjection(J, all)
  BY DEF Surjection
<1>2. IsFiniteSet(all)
  BY <1>1, FS_Surjection
<1>3. ASSUME NEW T \in all PROVE IsFiniteSet(T)
  <2>1. PICK i \in J : T = {i} \X (1 .. n[i])
    OBVIOUS
  <2>2. IsFiniteSet({i})
    BY FS_Singleton
  <2>3. IsFiniteSet(1 .. n[i])
    <3>1. n[i] \in Nat BY <2>1
    <3> QED BY <3>1, Interval
  <2> QED BY <2>1, <2>2, <2>3, FS_Product
<1>4. IsFiniteSet(UNION all)
  BY <1>2, <1>3, FS_UNION
<1> QED BY <1>4, FS_CardinalityType DEF Pile

\* Taking the lots of some members away leaves the difference.
LEMMA PileWithout ==
  ASSUME NEW J, IsFiniteSet(J), NEW n, \A i \in J : n[i] \in Nat, NEW K \in SUBSET J
  PROVE  Cardinality(Pile(J \ K, n)) = Cardinality(Pile(J, n)) - Cardinality(Pile(K, n))
<1>1. IsFiniteSet(Pile(J, n))
  BY PileFinite
<1>2. Pile(J \ K, n) = Pile(J, n) \ Pile(K, n)
  BY DEF Pile
<1>3. Pile(J, n) \cap Pile(K, n) = Pile(K, n)
  BY DEF Pile
<1>4. Cardinality(Pile(J, n) \ Pile(K, n)) =
        Cardinality(Pile(J, n)) - Cardinality(Pile(J, n) \cap Pile(K, n))
  <2> DEFINE S == Pile(J, n)
             T == Pile(K, n)
  <2>1. IsFiniteSet(S)
    BY <1>1
  <2> HIDE DEF S, T
  <2>2. Cardinality(S \ T) = Cardinality(S) - Cardinality(S \cap T)
    BY ONLY <2>1, FS_Difference
  <2> QED BY <2>2 DEF S, T
<1> QED BY <1>2, <1>3, <1>4

\* The pile of one member is as large as its number says.
LEMMA PileOfOne ==
  ASSUME NEW i, NEW n, n[i] \in Nat
  PROVE  Cardinality(Pile({i}, n)) = n[i]
<1>1. Pile({i}, n) = {i} \X (1 .. n[i])
  BY DEF Pile
<1>2. IsFiniteSet({i}) /\ Cardinality({i}) = 1
  BY FS_Singleton
<1>3. IsFiniteSet(1 .. n[i]) /\ Cardinality(1 .. n[i]) = n[i]
  BY Interval
<1>4. Cardinality({i} \X (1 .. n[i])) = 1 * n[i]
  <2> DEFINE S == {i}
             T == 1 .. n[i]
  <2>1. IsFiniteSet(S) /\ IsFiniteSet(T)
    BY <1>2, <1>3
  <2>2. Cardinality(S \X T) = Cardinality(S) * Cardinality(T)
    <3> HIDE DEF S, T
    <3> QED BY <2>1, FS_Product
  <2> QED BY <1>2, <1>3, <2>2
<1>5. n[i] = 1 * n[i]
  OBVIOUS
<1> QED BY <1>1, <1>4, <1>5

\* A pile depends on the numbers of its members only.
LEMMA PileSame ==
  ASSUME NEW J, NEW n, NEW m, \A i \in J : n[i] = m[i]
  PROVE  Pile(J, n) = Pile(J, m)
BY DEF Pile

\* Adding, removing or renumbering one member changes the size of a pile by the
\* difference of that member's numbers: the step of an incremental sum.
LEMMA PileUpdate ==
  ASSUME NEW J, IsFiniteSet(J), NEW n, \A i \in J : n[i] \in Nat,
         NEW K, NEW m, \A i \in K : m[i] \in Nat,
         NEW x \in J \cup K, J \ {x} = K \ {x}, \A i \in J \ {x} : m[i] = n[i]
  PROVE  Cardinality(Pile(K, m)) =
           Cardinality(Pile(J, n)) - (IF x \in J THEN n[x] ELSE 0)
                                   + (IF x \in K THEN m[x] ELSE 0)
<1>0. IsFiniteSet(K)
  <2>1. K \subseteq J \cup {x}
    OBVIOUS
  <2> QED BY <2>1, FS_AddElement, FS_Subset
<1>1. Pile(J \ {x}, n) = Pile(K \ {x}, m)
  BY PileSame
<1>2. Cardinality(Pile(J, n)) \in Nat /\ Cardinality(Pile(K, m)) \in Nat
  BY <1>0, PileFinite
<1>3. Cardinality(Pile(J \ {x}, n)) =
        Cardinality(Pile(J, n)) - (IF x \in J THEN n[x] ELSE 0)
  <2>1. CASE x \in J
    <3>1. n[x] \in Nat /\ {x} \in SUBSET J  BY <2>1
    <3>2. Cardinality(Pile({x}, n)) = n[x]  BY <3>1, PileOfOne
    <3> QED BY <2>1, <3>1, <3>2, PileWithout
  <2>2. CASE x \notin J
    <3>1. J \ {x} = J BY <2>2
    <3> QED BY <3>1, <2>2, <1>2
  <2> QED BY <2>1, <2>2
<1>4. Cardinality(Pile(K \ {x}, m)) =
        Cardinality(Pile(K, m)) - (IF x \in K THEN m[x] ELSE 0)
  <2>1. CASE x \in K
    <3>1. m[x] \in Nat /\ {x} \in SUBSET K  BY <2>1
    <3>2. Cardinality(Pile({x}, m)) = m[x]  BY <3>1, PileOfOne
    <3> QED BY <2>1, <3>1, <3>2, <1>0, PileWithout
  <2>2. CASE x \notin K
    <3>1. K \ {x} = K BY <2>2
    <3> QED BY <3>1, <2>2, <1>2
  <2> QED BY <2>1, <2>2
<1>5. (x \in J => n[x] \in Nat) /\ (x \in K => m[x] \in Nat)
  OBVIOUS
<1>6. Cardinality(Pile(K, m)) - (IF x \in K THEN m[x] ELSE 0)
        = Cardinality(Pile(J, n)) - (IF x \in J THEN n[x] ELSE 0)
  BY <1>1, <1>3, <1>4
<1>7. CASE x \in K BY <1>7, <1>6, <1>2, <1>5
<1>8. CASE x \notin K BY <1>8, <1>6, <1>2, <1>5
<1> QED BY <1>7, <1>8

\* Renaming the members of a pile one to one leaves its size.
LEMMA PileRenamed ==
  ASSUME NEW J, IsFiniteSet(J), NEW n, \A i \in J : n[i] \in Nat,
         NEW K, NEW m, NEW f \in Bijection(J, K), \A i \in J : m[f[i]] = n[i]
  PROVE  Cardinality(Pile(K, m)) = Cardinality(Pile(J, n))
<1> DEFINE P == Pile(J, n)
           Q == Pile(K, m)
           g == [p \in P |-> <<f[p[1]], p[2]>>]
<1>1. /\ \A i \in J : f[i] \in K
      /\ \A i, j \in J : f[i] = f[j] => i = j
      /\ \A k \in K : \E i \in J : f[i] = k
  BY DEF Bijection, Injection, Surjection, IsInjective
<1>2. /\ \A p : p \in P <=> \E i \in J : \E l \in 1 .. n[i] : p = <<i, l>>
      /\ \A p : p \in Q <=> \E i \in K : \E l \in 1 .. m[i] : p = <<i, l>>
  <2>1. ASSUME NEW I, NEW w
        PROVE  \A p : p \in Pile(I, w) <=> \E i \in I : \E l \in 1 .. w[i] : p = <<i, l>>
    <3>1. \A p : p \in Pile(I, w) <=> \E i \in I : p \in {i} \X (1 .. w[i])
      BY DEF Pile
    <3> QED BY <3>1
  <2> QED BY <2>1
<1> HIDE DEF P, Q
<1>3. \A p \in P : g[p] \in Q
  BY <1>1, <1>2
<1>4. \A p, q \in P : g[p] = g[q] => p = q
  BY <1>1, <1>2
<1>5. \A q \in Q : \E p \in P : g[p] = q
  <2> SUFFICES ASSUME NEW q \in Q PROVE \E p \in P : g[p] = q
    OBVIOUS
  <2>0. PICK k \in K : \E l \in 1 .. m[k] : q = <<k, l>>
    BY <1>2
  <2>1. PICK l \in 1 .. m[k] : q = <<k, l>>
    BY <2>0
  <2>2. PICK i \in J : f[i] = k
    BY <1>1
  <2>3. <<i, l>> \in P
    BY <1>2, <2>1, <2>2
  <2>4. g[<<i, l>>] = q
    BY <2>1, <2>2, <2>3
  <2> QED BY <2>3, <2>4
<1>6. g \in Bijection(P, Q)
  BY <1>3, <1>4, <1>5, Zenon DEF Bijection, Injection, Surjection, IsInjective
<1>7. IsFiniteSet(P)
  BY PileFinite DEF P
<1> HIDE DEF g
<1>8. Cardinality(Q) = Cardinality(P)
  BY <1>6, <1>7, FS_Bijection DEF ExistsBijection
<1> QED BY <1>8 DEF P, Q

\* A sequence in which no value occurs twice.
NoRepeats(seq) == \A j, k \in DOMAIN seq : seq[j] = seq[k] => j = k

\* Concatenating two sequences without repeats and with no value in common.
LEMMA ConcatRange ==
  ASSUME NEW S, NEW a \in Seq(S), NEW b \in Seq(S), NoRepeats(a), NoRepeats(b),
         Range(a) \cap Range(b) = {}
  PROVE  /\ Range(a \o b) = Range(a) \cup Range(b)
         /\ NoRepeats(a \o b)
         /\ a \o b \in Seq(S)
         /\ Len(a \o b) = Len(a) + Len(b)
<1> DEFINE c == a \o b
<1>1. /\ Len(a) \in Nat /\ DOMAIN a = 1 .. Len(a)
      /\ Len(b) \in Nat /\ DOMAIN b = 1 .. Len(b)
  BY LenProperties
<1>2. /\ c \in Seq(S)
      /\ Len(c) = Len(a) + Len(b)
      /\ \A k \in 1 .. Len(a) + Len(b) : c[k] = IF k <= Len(a) THEN a[k] ELSE b[k - Len(a)]
  BY ConcatProperties
<1>3. DOMAIN c = 1 .. Len(a) + Len(b)
  BY <1>2, LenProperties
<1> HIDE DEF c
<1>4. \A k \in 1 .. Len(a) : k \in DOMAIN c /\ c[k] = a[k] /\ a[k] \in Range(a)
  BY <1>1, <1>2, <1>3 DEF Range
<1>5. \A k \in 1 .. Len(b) : k + Len(a) \in DOMAIN c /\ c[k + Len(a)] = b[k]
  BY <1>1, <1>2, <1>3
<1>6. \A k \in DOMAIN c :
        \/ k \in 1 .. Len(a) /\ c[k] = a[k]
        \/ k - Len(a) \in 1 .. Len(b) /\ c[k] = b[k - Len(a)] /\ c[k] \in Range(b)
  BY <1>1, <1>2, <1>3 DEF Range
<1>7. Range(c) = Range(a) \cup Range(b)
  BY <1>1, <1>4, <1>5, <1>6 DEF Range
<1>8. ASSUME NEW j \in DOMAIN c, NEW k \in DOMAIN c, c[j] = c[k] PROVE j = k
  <2>1. CASE j \in 1 .. Len(a) /\ k \in 1 .. Len(a)
    BY <1>1, <1>4, <1>8, <2>1 DEF NoRepeats
  <2>2. CASE j \notin 1 .. Len(a) /\ k \notin 1 .. Len(a)
    <3>1. /\ j - Len(a) \in DOMAIN b /\ k - Len(a) \in DOMAIN b
          /\ b[j - Len(a)] = b[k - Len(a)]
      BY <1>1, <1>6, <1>8, <2>2
    <3>2. j - Len(a) = k - Len(a)
      BY <3>1 DEF NoRepeats
    <3> QED BY <3>2, <1>1, <1>3
  <2>3. CASE j \in 1 .. Len(a) /\ k \notin 1 .. Len(a)
    BY <1>4, <1>6, <1>8, <2>3
  <2>4. CASE j \notin 1 .. Len(a) /\ k \in 1 .. Len(a)
    BY <1>4, <1>6, <1>8, <2>4
  <2> QED BY <2>1, <2>2, <2>3, <2>4
<1>9. NoRepeats(c)
  BY <1>8 DEF NoRepeats
<1> QED BY <1>2, <1>7, <1>9 DEF c

\* What a ring forgets when it drops its n oldest entries, and what it keeps.
Dropped(c, n) == {c[k] : k \in 1 .. n}
Kept(c, n) == SubSeq(c, n + 1, Len(c))

\* Dropping the oldest entries of a sequence without repeats forgets exactly
\* their values and keeps all the others.
LEMMA DropFirst ==
  ASSUME NEW S, NEW c \in Seq(S), NoRepeats(c), NEW drop \in 0 .. Len(c)
  PROVE  /\ Kept(c, drop) \in Seq(S)
         /\ Len(Kept(c, drop)) = Len(c) - drop
         /\ NoRepeats(Kept(c, drop))
         /\ Dropped(c, drop) \subseteq Range(c)
         /\ Range(Kept(c, drop)) = Range(c) \ Dropped(c, drop)
<1> DEFINE N    == Len(c)
           kept == SubSeq(c, drop + 1, N)
           gone == {c[k] : k \in 1 .. drop}
<1>1. N \in Nat /\ DOMAIN c = 1 .. N /\ drop \in Nat /\ drop <= N
  BY LenProperties
<1>2. \A k \in drop + 1 .. N : c[k] \in S
  BY <1>1
<1>3. /\ kept \in Seq(S)
      /\ Len(kept) = IF drop + 1 <= N THEN N - (drop + 1) + 1 ELSE 0
      /\ \A k \in 1 .. N - (drop + 1) + 1 : kept[k] = c[drop + 1 + k - 1]
  <2> DEFINE m == drop + 1
  <2>1. m \in Int /\ N \in Int /\ \A k \in m .. N : c[k] \in S
    BY <1>1, <1>2
  <2> HIDE DEF m, N
  <2>2. /\ SubSeq(c, m, N) \in Seq(S)
        /\ Len(SubSeq(c, m, N)) = IF m <= N THEN N - m + 1 ELSE 0
        /\ \A k \in 1 .. N - m + 1 : SubSeq(c, m, N)[k] = c[m + k - 1]
    BY <2>1, SubSeqProperties
  <2> QED BY <2>2 DEF m
<1> HIDE DEF kept, N
<1>4. Len(kept) = N - drop
  <2>1. CASE drop = N
    BY <1>1, <1>3, <2>1
  <2>2. CASE drop < N
    <3>1. Len(kept) = N - (drop + 1) + 1
      BY <1>1, <1>3, <2>2
    <3> QED BY <3>1, <1>1
  <2> QED BY <1>1, <2>1, <2>2
<1>5. DOMAIN kept = 1 .. N - drop
  BY <1>3, <1>4, LenProperties
<1>6. \A k \in DOMAIN kept : k + drop \in DOMAIN c /\ k + drop > drop /\ kept[k] = c[k + drop]
  <2> SUFFICES ASSUME NEW k \in DOMAIN kept
               PROVE  k + drop \in DOMAIN c /\ k + drop > drop /\ kept[k] = c[k + drop]
    OBVIOUS
  <2>1. k \in 1 .. N - (drop + 1) + 1
    BY <1>1, <1>5
  <2>2. kept[k] = c[drop + 1 + k - 1] /\ drop + 1 + k - 1 = k + drop
    BY <1>1, <1>3, <2>1
  <2> QED BY <1>1, <2>1, <2>2
<1>7. \A k \in DOMAIN c : k > drop => k - drop \in DOMAIN kept /\ kept[k - drop] = c[k]
  BY <1>1, <1>5, <1>6
<1>8. gone \subseteq Range(c)
  BY <1>1 DEF Range
<1>9. \A k \in DOMAIN c : c[k] \in gone <=> k <= drop
  BY <1>1 DEF NoRepeats
<1>10. Range(kept) = Range(c) \ gone
  <2>1. ASSUME NEW x \in Range(kept) PROVE x \in Range(c) \ gone
    <3>1. PICK k \in DOMAIN kept : x = kept[k]
      BY DEF Range
    <3>2. k + drop \in DOMAIN c /\ ~(k + drop <= drop) /\ x = c[k + drop]
      BY <3>1, <1>1, <1>5, <1>6
    <3> HIDE DEF gone
    <3> QED BY <3>2, <1>9 DEF Range
  <2>2. ASSUME NEW x \in Range(c) \ gone PROVE x \in Range(kept)
    <3>1. PICK k \in DOMAIN c : x = c[k]
      BY DEF Range
    <3>2. k > drop
      BY <3>1, <1>9, <1>1
    <3> QED BY <3>1, <3>2, <1>7 DEF Range
  <2> QED BY <2>1, <2>2
<1>11. ASSUME NEW j \in DOMAIN kept, NEW k \in DOMAIN kept, kept[j] = kept[k] PROVE j = k
  <2>1. j + drop = k + drop
    BY <1>6, <1>11 DEF NoRepeats
  <2> QED BY <2>1, <1>1, <1>5
<1>12. NoRepeats(kept)
  BY <1>11 DEF NoRepeats
<1> QED BY <1>3, <1>4, <1>8, <1>10, <1>12 DEF kept, N, Kept, Dropped

\* A sequence without repeats has as many values as entries.
LEMMA CountOnce ==
  ASSUME NEW S, NEW c \in Seq(S), NoRepeats(c)
  PROVE  IsFiniteSet(Range(c)) /\ Cardinality(Range(c)) = Len(c)
<1>1. Len(c) \in Nat /\ DOMAIN c = 1 .. Len(c) /\ c \in [1 .. Len(c) -> S]
  BY LenProperties
<1>2. c \in Bijection(1 .. Len(c), Range(c))
  BY <1>1 DEF Bijection, Injection, Surjection, IsInjective, Range, NoRepeats, IsInjective
<1>3. ExistsBijection(1 .. Len(c), Range(c))
  BY <1>2 DEF ExistsBijection
<1>4. IsFiniteSet(1 .. Len(c)) /\ Cardinality(1 .. Len(c)) = Len(c)
  BY <1>1, Interval
<1> QED BY <1>3, <1>4, FS_Bijection

\* Walking all of a finite set in as many steps as it has members visits none twice.
LEMMA EnumerationOnce ==
  ASSUME NEW S, IsFiniteSet(S), NEW f \in [1 .. Cardinality(S) -> S], Range(f) = S
  PROVE  f \in Seq(S) /\ NoRepeats(f)
<1> DEFINE n == Cardinality(S)
<1>1. n \in Nat
  BY FS_CardinalityType
<1>2. IsFiniteSet(1 .. n) /\ Cardinality(1 .. n) = n
  BY <1>1, Interval
<1>3. f \in Surjection(1 .. n, S)
  BY DEF Surjection, Range
<1>4. f \in Injection(1 .. n, S)
  BY <1>2, <1>3, FS_SurjSameCardinalityImpliesInj
<1>5. NoRepeats(f)
  BY <1>4 DEF Injection, NoRepeats, IsInjective
<1>6. f \in Seq(S)
  BY <1>1
<1> QED BY <1>5, <1>6

\* Every set of natural numbers but the empty one has a least member.
LEMMA Least ==
  ASSUME NEW T \in SUBSET Nat, T # {}
  PROVE  \E n \in T : \A m \in T : n <= m
<1> DEFINE R == {p \in Nat \X Nat : p[1] < p[2]}
<1>1. IsWellFoundedOn(R, Nat)
  BY NatLessThanWellFounded, Zenon DEF OpToRel
<1> HIDE DEF R
<1>2. PICK x \in T : \A y \in T : ~ (<<y, x>> \in R)
  BY <1>1, WFMin
<1>3. ASSUME NEW y \in T PROVE x <= y
  <2>1. x \in Nat /\ y \in Nat
    OBVIOUS
  <2>2. ~ (<<y, x>> \in R)
    BY <1>2
  <2>3. ~ (y < x)
    <3>1. <<y, x>> \in Nat \X Nat /\ <<y, x>>[1] = y /\ <<y, x>>[2] = x
      BY <2>1
    <3> QED BY <3>1, <2>2, Zenon DEF R
  <2> QED BY <2>1, <2>3
<1> QED BY <1>3

\* Induction up to a number, over a set.
LEMMA UpTo ==
  ASSUME NEW n \in Nat, NEW S, 0 \in S, \A k \in 0 .. n - 1 : k \in S => k + 1 \in S
  PROVE  \A k \in 0 .. n : k \in S
<1> DEFINE T == (0 .. n) \ S
<1> SUFFICES T = {}
  OBVIOUS
<1>1. CASE T # {}
  <2>1. PICK m \in T : \A k \in T : m <= k
    <3>1. T \in SUBSET Nat
      OBVIOUS
    <3> HIDE DEF T
    <3> QED BY <3>1, <1>1, Least
  <2>2. m # 0 /\ m \in 0 .. n /\ m - 1 \in 0 .. n - 1 /\ m - 1 \notin T
    BY <2>1
  <2>3. m - 1 \in S
    BY <2>2
  <2> QED BY <2>1, <2>2, <2>3
<1> QED BY <1>1

\* The whole part of a quotient.
LEMMA WholePart ==
  ASSUME NEW d \in Nat \ {0}, NEW l \in Nat
  PROVE  /\ l \div d \in Nat
         /\ (l \div d) * d <= l
         /\ l < (l \div d) * d + d
OBVIOUS

\* Multiples of a positive number.
LEMMA Multiples ==
  ASSUME NEW d \in Nat \ {0}
  PROVE  /\ \A k \in Nat : k * d \in Nat /\ (k + 1) * d = k * d + d
         /\ \A j, k \in Nat : j < k => j * d + d <= k * d
<1>1. \A k \in Nat : k * d \in Nat /\ (k + 1) * d = k * d + d
  OBVIOUS
<1>2. ASSUME NEW j \in Nat, NEW k \in Nat, j < k PROVE j * d + d <= k * d
  <2>1. PICK m \in Nat : k = j + 1 + m
    <3>1. k - (j + 1) \in Nat /\ k = j + 1 + (k - (j + 1))
      BY <1>2
    <3> QED BY <3>1
  <2>2. k * d = j * d + d + m * d /\ m * d \in Nat /\ j * d \in Nat
    BY <2>1
  <2> QED BY <2>2
<1> QED BY <1>1, <1>2

-----------------------------------------------------------------------------
(***************************************************************************)
(* Fills on the wire, lot by lot, so that one report more or less changes  *)
(* the count by its quantity and no induction over the sequence is needed. *)
(***************************************************************************)

\* The lots of order i that reports on the wire say were executed.
FillsOf(reps, i) == {k \in DOMAIN reps : reps[k].id = i /\ reps[k].type = "Fill"}
Quantities(reps) == [k \in DOMAIN reps |-> reps[k].quantity]
InFlight(reps, i) == Cardinality(Pile(FillsOf(reps, i), Quantities(reps)))

\* A report that is added adds its lots.
LEMMA LotsAppended ==
  ASSUME NEW S, \A rep \in S : rep.quantity \in Nat, NEW reps \in Seq(S), NEW rep \in S, NEW i
  PROVE  InFlight(Append(reps, rep), i) =
           InFlight(reps, i) + (IF rep.id = i /\ rep.type = "Fill" THEN rep.quantity ELSE 0)
<1> DEFINE longer == Append(reps, rep)
           x == Len(reps) + 1
           J == FillsOf(reps, i)
           K == FillsOf(longer, i)
           n == Quantities(reps)
           m == Quantities(longer)
<1>1. /\ longer \in Seq(S) /\ Len(reps) \in Nat /\ Len(longer) = x
      /\ \A j \in 1 .. Len(reps) : longer[j] = reps[j]
      /\ longer[x] = rep
      /\ DOMAIN reps = 1 .. Len(reps) /\ DOMAIN longer = 1 .. x
  BY AppendProperties, LenProperties
<1>2. /\ \A j \in 1 .. Len(reps) : reps[j].quantity \in Nat
      /\ rep.quantity \in Nat
  <2>1. \A j \in 1 .. Len(reps) : reps[j] \in S
    BY ElementOfSeq
  <2> QED BY <2>1
<1> HIDE DEF longer
<1>3. K = IF rep.id = i /\ rep.type = "Fill" THEN J \cup {x} ELSE J
  BY <1>1 DEF FillsOf
<1>4. /\ J \subseteq 1 .. Len(reps) /\ x \notin J /\ IsFiniteSet(J)
      /\ \A j \in J : n[j] \in Nat /\ m[j] = n[j]
      /\ m[x] = rep.quantity
  <2>1. IsFiniteSet(1 .. Len(reps))
    BY <1>1, Interval
  <2> QED BY <1>1, <1>2, <2>1, FS_Subset DEF FillsOf, Quantities
<1> HIDE DEF J, K, n, m, x
<1>5. CASE rep.id = i /\ rep.type = "Fill"
  <2>1. /\ K = J \cup {x} /\ J \ {x} = K \ {x}
        /\ \A j \in K : m[j] \in Nat
    BY <1>2, <1>3, <1>4, <1>5
  <2>2. Cardinality(Pile(K, m)) = Cardinality(Pile(J, n)) - 0 + m[x]
    <3>1. /\ x \in J \cup K /\ x \notin J /\ x \in K
          /\ \A j \in J \ {x} : m[j] = n[j]
          /\ \A j \in J : n[j] \in Nat
          /\ \A j \in K : m[j] \in Nat
          /\ IsFiniteSet(J) /\ J \ {x} = K \ {x}
      BY <1>4, <2>1
    <3>2. Cardinality(Pile(K, m)) =
            Cardinality(Pile(J, n)) - (IF x \in J THEN n[x] ELSE 0)
                                    + (IF x \in K THEN m[x] ELSE 0)
      BY ONLY <3>1, PileUpdate
    <3> QED BY <3>1, <3>2
  <2>3. Cardinality(Pile(J, n)) \in Nat
    BY <1>4, PileFinite
  <2> QED BY <2>2, <2>3, <1>2, <1>4, <1>5 DEF InFlight, J, K, n, m, longer
<1>6. CASE ~(rep.id = i /\ rep.type = "Fill")
  <2>1. K = J
    BY <1>3, <1>6
  <2>2. Pile(K, m) = Pile(J, n)
    BY <1>4, <2>1, PileSame
  <2>3. Cardinality(Pile(J, n)) \in Nat
    BY <1>4, PileFinite
  <2> QED BY <2>2, <2>3, <1>6 DEF InFlight, J, K, n, m, longer
<1> QED BY <1>5, <1>6

\* A report that is delivered takes its lots off the wire, and no others.
LEMMA LotsTaken ==
  ASSUME NEW S, \A rep \in S : rep.quantity \in Nat, NEW reps \in Seq(S),
         NEW k \in 1 .. Len(reps), NEW i,
         NEW left \in Seq(S), DOMAIN left = 1 .. Len(reps) - 1,
         \A j \in 1 .. Len(reps) - 1 : left[j] = IF j < k THEN reps[j] ELSE reps[j + 1]
  PROVE  LET taken == IF reps[k].id = i /\ reps[k].type = "Fill" THEN reps[k].quantity ELSE 0
         IN  /\ InFlight(reps, i) = InFlight(left, i) + taken
             /\ InFlight(left, i) \in Nat /\ taken \in Nat
<1> DEFINE J == FillsOf(reps, i)
           K == FillsOf(left, i)
           n == Quantities(reps)
           m == Quantities(left)
           f == [j \in J \ {k} |-> IF j < k THEN j ELSE j - 1]
<1>1. /\ Len(reps) \in Nat /\ DOMAIN reps = 1 .. Len(reps)
      /\ left \in Seq(S) /\ DOMAIN left = 1 .. Len(reps) - 1
      /\ \A j \in 1 .. Len(reps) - 1 : left[j] = IF j < k THEN reps[j] ELSE reps[j + 1]
  BY LenProperties
<1>2. \A j \in 1 .. Len(reps) : reps[j].quantity \in Nat
  <2>1. \A j \in 1 .. Len(reps) : reps[j] \in S
    BY ElementOfSeq
  <2> QED BY <2>1
<1>3. /\ J \subseteq 1 .. Len(reps) /\ IsFiniteSet(J)
      /\ \A j \in 1 .. Len(reps) : n[j] = reps[j].quantity
      /\ \A j \in 1 .. Len(reps) - 1 : m[j] = left[j].quantity
  <2>1. IsFiniteSet(1 .. Len(reps))
    BY <1>1, Interval
  <2> QED BY <1>1, <2>1, FS_Subset DEF FillsOf, Quantities
<1>4. /\ \A j \in J \ {k} : f[j] \in K /\ m[f[j]] = n[j]
      /\ \A l \in K : \E j \in J \ {k} : f[j] = l
      /\ \A j, l \in J \ {k} : f[j] = f[l] => j = l
  <2>1. ASSUME NEW j \in J \ {k}
        PROVE  /\ f[j] \in 1 .. Len(reps) - 1 /\ left[f[j]] = reps[j]
    BY <1>1, <1>3
  <2>2. ASSUME NEW l \in K PROVE \E j \in J \ {k} : f[j] = l
    <3> DEFINE j == IF l < k THEN l ELSE l + 1
    <3>1. l \in 1 .. Len(reps) - 1 /\ left[l].id = i /\ left[l].type = "Fill"
      BY <1>1 DEF FillsOf
    <3>2. j \in 1 .. Len(reps) /\ j # k /\ reps[j] = left[l]
      BY <1>1, <3>1
    <3>3. j \in J \ {k}
      BY <1>1, <3>1, <3>2 DEF FillsOf
    <3>4. f[j] = l
      BY <3>1, <3>3
    <3> QED BY <3>3, <3>4
  <2>3. ASSUME NEW j \in J \ {k} PROVE f[j] \in K /\ m[f[j]] = n[j]
    <3>1. reps[j].id = i /\ reps[j].type = "Fill" /\ j \in 1 .. Len(reps)
      BY <1>3 DEF FillsOf
    <3>2. f[j] \in 1 .. Len(reps) - 1 /\ left[f[j]] = reps[j]
      BY <2>1
    <3> HIDE DEF f, n, m
    <3>3. m[f[j]] = n[j]
      BY <1>3, <3>1, <3>2
    <3>4. f[j] \in K
      BY <1>1, <3>1, <3>2 DEF FillsOf
    <3> QED BY <3>3, <3>4
  <2>4. \A j, l \in J \ {k} : f[j] = f[l] => j = l
    BY <1>1, <1>3
  <2> HIDE DEF f
  <2> QED BY <2>2, <2>3, <2>4
<1>5. Cardinality(Pile(K, m)) = Cardinality(Pile(J \ {k}, n))
  <2>1. f \in Bijection(J \ {k}, K)
    BY <1>4, Zenon DEF Bijection, Injection, Surjection, IsInjective
  <2>2. IsFiniteSet(J \ {k}) /\ \A j \in J \ {k} : n[j] \in Nat
    BY <1>2, <1>3, FS_Subset
  <2> HIDE DEF f, J, K, n, m
  <2> QED BY <1>4, <2>1, <2>2, PileRenamed
<1>6. /\ \A j \in J : n[j] \in Nat
      /\ n[k] = reps[k].quantity /\ n[k] \in Nat
      /\ k \in J <=> reps[k].id = i /\ reps[k].type = "Fill"
  BY <1>1, <1>2, <1>3 DEF FillsOf
<1> HIDE DEF J, K, n, m, f
<1>7. /\ Cardinality(Pile(J, n)) \in Nat
      /\ Cardinality(Pile(J \ {k}, n)) \in Nat
  BY <1>3, <1>6, PileFinite, FS_Subset
<1>8. Cardinality(Pile(J, n)) = Cardinality(Pile(J \ {k}, n)) + (IF k \in J THEN n[k] ELSE 0)
  <2>1. CASE k \in J
    <3>1. Cardinality(Pile(J \ {k}, n)) = Cardinality(Pile(J, n)) - n[k] + 0
      <4> DEFINE less == J \ {k}
      <4>1. /\ k \in J \cup less /\ k \notin less /\ J \ {k} = less \ {k}
            /\ \A j \in less : n[j] \in Nat
        BY <1>6, <2>1
      <4> HIDE DEF less
      <4>2. /\ IsFiniteSet(J) /\ \A j \in J : n[j] \in Nat
            /\ \A j \in J \ {k} : n[j] = n[j]
        BY <1>3, <1>6
      <4>3. Cardinality(Pile(less, n)) =
              Cardinality(Pile(J, n)) - (IF k \in J THEN n[k] ELSE 0)
                                      + (IF k \in less THEN n[k] ELSE 0)
        BY ONLY <4>1, <4>2, PileUpdate
      <4>4. Cardinality(Pile(less, n)) = Cardinality(Pile(J, n)) - n[k] + 0
        BY <2>1, <4>1, <4>3
      <4> QED BY <4>4 DEF less
    <3> QED BY <1>6, <1>7, <2>1, <3>1
  <2>2. CASE k \notin J
    <3> DEFINE less == J \ {k}
    <3>1. less = J
      BY <2>2
    <3> HIDE DEF less
    <3>2. Cardinality(Pile(J, n)) = Cardinality(Pile(less, n)) + 0
      BY <1>7, <3>1
    <3> QED BY <2>2, <3>2 DEF less
  <2> QED BY <2>1, <2>2
<1> QED BY <1>5, <1>6, <1>7, <1>8 DEF InFlight, J, K, n, m

\* The lots on the wire can be counted.
LEMMA LotsCounted ==
  ASSUME NEW S, \A rep \in S : rep.quantity \in Nat, NEW reps \in Seq(S), NEW i
  PROVE  InFlight(reps, i) \in Nat
<1>1. Len(reps) \in Nat /\ DOMAIN reps = 1 .. Len(reps)
  BY LenProperties
<1>2. \A j \in 1 .. Len(reps) : reps[j].quantity \in Nat
  <2>1. \A j \in 1 .. Len(reps) : reps[j] \in S
    BY ElementOfSeq
  <2> QED BY <2>1
<1>3. /\ IsFiniteSet(FillsOf(reps, i))
      /\ \A j \in FillsOf(reps, i) : Quantities(reps)[j] \in Nat
  <2>1. IsFiniteSet(1 .. Len(reps))
    BY <1>1, Interval
  <2> QED BY <1>1, <1>2, <2>1, FS_Subset DEF FillsOf, Quantities
<1> QED BY <1>3, PileFinite DEF InFlight

\* No lots of an order are on the wire that no report is about.
LEMMA NothingInFlight ==
  ASSUME NEW reps, NEW i, \A k \in DOMAIN reps : reps[k].id # i
  PROVE  InFlight(reps, i) = 0
<1>1. FillsOf(reps, i) = {}
  BY DEF FillsOf
<1>2. Pile(FillsOf(reps, i), Quantities(reps)) = {}
  BY <1>1 DEF Pile
<1> QED BY <1>2, FS_EmptySet DEF InFlight
=============================================================================
