------------------------ MODULE BookStructureProofs -------------------------
(***************************************************************************)
(* What the order book relies on in two of its structures, for every band, *)
(* word width, set of ids and hash.                                        *)
(*                                                                         *)
(* The bitmap stands for the set of marked levels (Marked).  Its three     *)
(* tiers are the same thing twice: a tier holds numbers (Held) in words,   *)
(* and the tier above holds the numbers of the words in use (Layered).  So *)
(* one lemma on the greatest and the least of a tier, used twice, gives    *)
(* the greatest and the least level, and one lemma on a bit more or less   *)
(* in a tier, used twice, gives set() and clear().                         *)
(*                                                                         *)
(* The index stands for a function from ids to slots (Mapping).  A probe   *)
(* for an id finds it because no empty slot lies between its home and it   *)
(* (ChainsUnbroken), which a tombstone keeps and an erased slot would not; *)
(* it ends because an empty slot always remains (ProbesEnd), which rests   *)
(* on the two counters being exact (Counted).                              *)
(***************************************************************************)
EXTENDS LevelBitmap, IdIndex, Counting

USE WordBitsAssumption, IndexAssumption DEF WordBitsAssumption, IndexAssumption

\* The positions in a word, and the number that stands at one of them.
Position == 0 .. WordBits - 1
At(w, b) == w * WordBits + b

\* A number is at its place in its word.
LEMMA Placed ==
  ASSUME NEW i \in Nat
  PROVE  Word(i) \in Nat /\ Bit(i) \in Position /\ At(Word(i), Bit(i)) = i
<1>1. i \div WordBits \in Nat
  BY WholePart
<1>2. i = WordBits * (i \div WordBits) + (i % WordBits) /\ i % WordBits \in 0 .. WordBits - 1
  OBVIOUS
<1>3. WordBits * (i \div WordBits) = (i \div WordBits) * WordBits
  BY <1>1
<1> QED BY <1>1, <1>2, <1>3 DEF Word, Bit, At, Position

\* Numbers are ordered by word, then by position.
LEMMA Ordered ==
  ASSUME NEW v \in Nat, NEW w \in Nat, NEW a \in Position, NEW b \in Position
  PROVE  /\ At(v, a) \in Nat
         /\ v < w => At(v, a) < At(w, b)
         /\ v = w => (a <= b <=> At(v, a) <= At(w, b))
         /\ v = w => (a = b <=> At(v, a) = At(w, b))
<1>1. v * WordBits \in Nat /\ w * WordBits \in Nat /\ a \in Nat /\ b \in Nat
  BY Multiples DEF Position
<1>2. v < w => v * WordBits + WordBits <= w * WordBits
  BY Multiples
<1>3. a < WordBits
  BY DEF Position
<1> DEFINE p == v * WordBits
           q == w * WordBits
<1>4. p \in Nat /\ q \in Nat /\ (v < w => p + WordBits <= q) /\ (v = w => p = q)
  BY <1>1, <1>2
<1> HIDE DEF p, q
<1>5. /\ p + a \in Nat
      /\ v < w => p + a < q + b
      /\ v = w => (a <= b <=> p + a <= q + b)
      /\ v = w => (a = b <=> p + a = q + b)
  BY <1>1, <1>3, <1>4
<1> QED BY <1>5 DEF At, p, q

\* A place holds one number.
LEMMA PlaceOf ==
  ASSUME NEW w \in Nat, NEW b \in Position
  PROVE  At(w, b) \in Nat /\ Word(At(w, b)) = w /\ Bit(At(w, b)) = b
<1> DEFINE i == At(w, b)
           v == Word(i)
           a == Bit(i)
<1>1. i \in Nat
  BY Ordered
<1>2. v \in Nat /\ a \in Position /\ At(v, a) = At(w, b)
  BY <1>1, Placed
<1> HIDE DEF v, a
<1>3. ~(v < w) /\ ~(w < v)
  BY <1>2, Ordered
<1>4. v = w
  BY <1>2, <1>3
<1>5. a = b
  BY <1>2, <1>4, Ordered
<1> QED BY <1>1, <1>4, <1>5 DEF v, a

\* There is a word for every number below n.
LEMMA WordExists ==
  ASSUME NEW n \in Nat
  PROVE  /\ WordsFor(n) \in Nat
         /\ \A i \in 0 .. n - 1 : Word(i) \in 0 .. WordsFor(n) - 1
<1> DEFINE q == WordsFor(n)
<1>1. q \in Nat /\ n + WordBits - 1 < q * WordBits + WordBits
  <2>1. n + WordBits - 1 \in Nat
    OBVIOUS
  <2> QED BY <2>1, WholePart DEF WordsFor
<1>2. ASSUME NEW i \in 0 .. n - 1, q <= Word(i) PROVE FALSE
  <2>1. Word(i) \in Nat /\ Bit(i) \in Nat /\ Word(i) * WordBits + Bit(i) = i
    BY Placed DEF At, Position
  <2>2. q * WordBits <= Word(i) * WordBits
    <3>1. q = Word(i) \/ q * WordBits + WordBits <= Word(i) * WordBits
      BY <1>1, <1>2, <2>1, Multiples
    <3>2. q * WordBits \in Nat /\ Word(i) * WordBits \in Nat
      BY <1>1, <2>1, Multiples
    <3> QED BY <3>1, <3>2
  <2>3. q * WordBits \in Nat /\ Word(i) * WordBits \in Nat
    BY <1>1, <2>1, Multiples
  <2> HIDE DEF q
  <2> QED BY <1>1, <2>1, <2>2, <2>3
<1> HIDE DEF q
<1>3. \A i \in 0 .. n - 1 : Word(i) \in Nat
  BY Placed
<1> QED BY <1>1, <1>2, <1>3 DEF q

-----------------------------------------------------------------------------
(***************************************************************************)
(* Greatest and least.                                                     *)
(***************************************************************************)

\* Max and Min are determined by what they promise.
LEMMA OneGreatest ==
  ASSUME NEW S \in SUBSET Int, NEW x \in S
  PROVE  /\ (\A y \in S : y <= x) => Max(S) = x
         /\ (\A y \in S : x <= y) => Min(S) = x
<1>1. ASSUME \A y \in S : y <= x PROVE Max(S) = x
  <2>1. \E z \in S : \A y \in S : z >= y
    BY <1>1
  <2>2. Max(S) \in S /\ \A y \in S : Max(S) >= y
    BY <2>1, Zenon DEF Max
  <2>3. Max(S) \in Int /\ x \in Int /\ x >= Max(S) /\ Max(S) >= x
    BY <1>1, <2>2
  <2> QED BY <2>3
<1>2. ASSUME \A y \in S : x <= y PROVE Min(S) = x
  <2>1. \E z \in S : \A y \in S : z =< y
    BY <1>2
  <2>2. Min(S) \in S /\ \A y \in S : Min(S) =< y
    BY <2>1, Zenon DEF Min
  <2>3. Min(S) \in Int /\ x \in Int /\ x >= Min(S) /\ Min(S) >= x
    BY <1>2, <2>2
  <2> QED BY <2>3
<1> QED BY <1>1, <1>2

\* Numbers below a bound have a greatest and a least.
LEMMA Extremes ==
  ASSUME NEW k \in Nat, NEW S \in SUBSET (0 .. k), S # {}
  PROVE  /\ Max(S) \in S /\ \A y \in S : y <= Max(S)
         /\ Min(S) \in S /\ \A y \in S : Min(S) <= y
<1>1. S \subseteq Nat /\ S \subseteq Int
  OBVIOUS
<1>2. PICK x \in S : \A y \in S : x <= y
  BY <1>1, Least
<1>3. Min(S) = x
  BY <1>1, <1>2, OneGreatest
<1> DEFINE T == {k - y : y \in S}
<1>4. T \subseteq Nat /\ T # {}
  OBVIOUS
<1>5. PICK d \in T : \A e \in T : d <= e
  BY <1>4, Least
<1>6. PICK z \in S : d = k - z
  BY <1>5
<1>7. \A y \in S : y <= z
  <2>1. ASSUME NEW y \in S PROVE y <= z
    <3>1. k - y \in T
      OBVIOUS
    <3>2. d <= k - y
      BY <1>5, <3>1
    <3> QED BY <1>6, <3>2
  <2> QED BY <2>1
<1>8. Max(S) = z
  BY <1>1, <1>7, OneGreatest
<1> QED BY <1>2, <1>3, <1>7, <1>8

-----------------------------------------------------------------------------
(***************************************************************************)
(* One tier: words and what they hold.                                     *)
(***************************************************************************)

\* The numbers whose bit is set in the words l.
Held(l) == {i \in Nat : Word(i) \in DOMAIN l /\ Bit(i) \in l[Word(i)]}

\* The words with a bit.
InUse(l) == {w \in DOMAIN l : l[w] # {}}

Words(k) == [0 .. k - 1 -> SUBSET Position]

\* What a tier holds, by word and position.
LEMMA HeldAt ==
  ASSUME NEW k \in Nat, NEW l \in Words(k), NEW w \in 0 .. k - 1, NEW b \in Position
  PROVE  At(w, b) \in Held(l) <=> b \in l[w]
BY PlaceOf DEF Held, Words

\* The greatest number held stands at the greatest position of the greatest
\* word in use, the least at the least of the least.
LEMMA ExtremesOfTier ==
  ASSUME NEW k \in Nat, NEW l \in Words(k), InUse(l) # {}
  PROVE  /\ At(Max(InUse(l)), Max(l[Max(InUse(l))])) = Max(Held(l))
         /\ At(Min(InUse(l)), Min(l[Min(InUse(l))])) = Min(Held(l))
<1> DEFINE hi == Max(InUse(l))
           lo == Min(InUse(l))
<1>1. DOMAIN l = 0 .. k - 1 /\ \A w \in 0 .. k - 1 : l[w] \subseteq Position
  BY DEF Words
<1>2. /\ InUse(l) \subseteq 0 .. k - 1 /\ k - 1 \in Nat
  BY <1>1 DEF InUse
<1>3. /\ hi \in InUse(l) /\ \A w \in InUse(l) : w <= hi
      /\ lo \in InUse(l) /\ \A w \in InUse(l) : lo <= w
  BY <1>2, Extremes
<1> HIDE DEF hi, lo
<1>4. /\ hi \in 0 .. k - 1 /\ l[hi] # {} /\ lo \in 0 .. k - 1 /\ l[lo] # {}
  BY <1>1, <1>3 DEF InUse
<1>5. WordBits - 1 \in Nat
  OBVIOUS
<1>6. /\ Max(l[hi]) \in l[hi] /\ \A b \in l[hi] : b <= Max(l[hi])
      /\ Min(l[lo]) \in l[lo] /\ \A b \in l[lo] : Min(l[lo]) <= b
  <2>1. l[hi] \subseteq 0 .. WordBits - 1 /\ l[lo] \subseteq 0 .. WordBits - 1
    BY <1>1, <1>4 DEF Position
  <2> QED BY <1>4, <1>5, <2>1, Extremes
<1> DEFINE a == Max(l[hi])
           c == Min(l[lo])
<1>7. a \in l[hi] /\ a \in Position /\ c \in l[lo] /\ c \in Position
  BY <1>1, <1>4, <1>6
<1>8. At(hi, a) \in Held(l) /\ At(lo, c) \in Held(l)
  BY <1>4, <1>7, HeldAt
<1>9. ASSUME NEW i \in Held(l) PROVE i <= At(hi, a) /\ At(lo, c) <= i
  <2>1. /\ i \in Nat /\ Word(i) \in InUse(l) /\ Bit(i) \in l[Word(i)]
        /\ Word(i) \in Nat /\ Bit(i) \in Position /\ At(Word(i), Bit(i)) = i
    BY Placed DEF Held, InUse
  <2>2. Word(i) <= hi /\ lo <= Word(i)
    BY <1>3, <2>1
  <2>3. /\ Word(i) = hi => Bit(i) <= a
        /\ Word(i) = lo => c <= Bit(i)
    BY <1>6, <2>1
  <2> DEFINE w == Word(i)
             b == Bit(i)
  <2>4. /\ At(w, b) \in Nat /\ At(hi, a) \in Nat /\ At(lo, c) \in Nat
        /\ (w < hi => At(w, b) < At(hi, a)) /\ (w = hi => (b <= a <=> At(w, b) <= At(hi, a)))
        /\ (lo < w => At(lo, c) < At(w, b)) /\ (lo = w => (c <= b <=> At(lo, c) <= At(w, b)))
    <3>1. hi \in Nat /\ lo \in Nat
      BY <1>4
    <3> HIDE DEF a, c
    <3> QED BY <1>7, <2>1, <3>1, Ordered
  <2>5. hi \in Nat /\ lo \in Nat
    BY <1>4
  <2> HIDE DEF w, b, a, c
  <2>6. w \in Nat /\ w <= hi /\ lo <= w /\ (w = hi => b <= a) /\ (w = lo => c <= b) /\ At(w, b) = i
    BY <2>1, <2>2, <2>3 DEF w, b, a, c
  <2> QED BY <2>4, <2>5, <2>6
<1>10. Held(l) \subseteq Int
  BY DEF Held
<1> HIDE DEF a, c
<1>11. Max(Held(l)) = At(hi, a) /\ Min(Held(l)) = At(lo, c)
  BY <1>8, <1>9, <1>10, OneGreatest
<1> QED BY <1>11 DEF hi, lo, a, c
-----------------------------------------------------------------------------
(***************************************************************************)
(* The bitmap: every tier tells which words of the tier below are in use.  *)
(***************************************************************************)

Shaped(m) ==
  /\ m \in [n : Nat, l0 : Words(WordsFor(m.n)), l1 : Words(WordsFor(WordsFor(m.n))),
            l2 : SUBSET Position]
  /\ BitmapFits(m.n)

\* No bit stands past the last level.
NothingPastTheEnd(m) == \A i \in Held(m.l0) : i < m.n

Layered(m) == Held(m.l1) = InUse(m.l0) /\ m.l2 = InUse(m.l1)

BitmapSound(m) == Shaped(m) /\ NothingPastTheEnd(m) /\ Layered(m)

\* The levels whose bit is set.
Marked(m) == {i \in 0 .. m.n - 1 : TestBit(m, i)}

GreatestOf(S) == IF S = {} THEN NPos ELSE Max(S)
LeastOf(S) == IF S = {} THEN NPos ELSE Min(S)

\* The marked levels are what tier 0 holds.
LEMMA MarkedIsHeld ==
  ASSUME NEW m, BitmapSound(m)
  PROVE  /\ m.n \in Nat
         /\ Marked(m) = Held(m.l0)
         /\ Marked(m) \subseteq 0 .. m.n - 1
<1>1. m.n \in Nat /\ m.l0 \in Words(WordsFor(m.n))
  BY DEF BitmapSound, Shaped
<1>2. DOMAIN m.l0 = 0 .. WordsFor(m.n) - 1
  BY <1>1 DEF Words
<1> DEFINE n == m.n
<1>a. n \in Nat
  BY <1>1
<1> HIDE DEF n
<1>b. \A i \in 0 .. n - 1 : i \in Nat /\ Word(i) \in 0 .. WordsFor(n) - 1
  BY <1>a, WordExists
<1>3. \A i \in 0 .. m.n - 1 : i \in Nat /\ Word(i) \in DOMAIN m.l0
  BY <1>2, <1>b DEF n
<1>4. \A i \in Held(m.l0) : i \in 0 .. m.n - 1
  BY <1>1 DEF BitmapSound, NothingPastTheEnd, Held
<1> QED BY <1>1, <1>3, <1>4 DEF Marked, TestBit, Held

\* A tier holds something exactly when one of its words is in use.
LEMMA HeldIsInUse ==
  ASSUME NEW k \in Nat, NEW l \in Words(k)
  PROVE  Held(l) = {} <=> InUse(l) = {}
<1>1. DOMAIN l = 0 .. k - 1 /\ \A w \in 0 .. k - 1 : l[w] \subseteq Position
  BY DEF Words
<1>2. ASSUME NEW w \in InUse(l) PROVE Held(l) # {}
  <2>1. w \in 0 .. k - 1 /\ l[w] # {}
    BY <1>1 DEF InUse
  <2>2. PICK b \in l[w] : b \in Position
    BY <1>1, <2>1
  <2> QED BY <2>1, <2>2, HeldAt
<1>3. ASSUME NEW i \in Held(l) PROVE InUse(l) # {}
  BY <1>3 DEF Held, InUse
<1> QED BY <1>2, <1>3

\* find_highest() and find_lowest(): three words read from the top down give
\* the greatest and the least marked level, and NPos exactly when there is none.
THEOREM BestLevelIsFound ==
  ASSUME NEW m, BitmapSound(m)
  PROVE  /\ FindHighest(m) = GreatestOf(Marked(m))
         /\ FindLowest(m) = LeastOf(Marked(m))
<1> DEFINE k0 == WordsFor(m.n)
           k1 == WordsFor(k0)
<1>1. /\ m.l0 \in Words(k0) /\ m.l1 \in Words(k1)
      /\ Held(m.l1) = InUse(m.l0) /\ m.l2 = InUse(m.l1)
      /\ Marked(m) = Held(m.l0)
  BY MarkedIsHeld DEF BitmapSound, Shaped, Layered
<1>2. k0 \in Nat /\ k1 \in Nat
  BY MarkedIsHeld, WordExists
<1> HIDE DEF k0, k1
<1>3. /\ m.l2 = {} <=> InUse(m.l0) = {}
      /\ m.l2 = {} <=> Marked(m) = {}
  BY <1>1, <1>2, HeldIsInUse
<1>4. CASE m.l2 = {}
  BY <1>3, <1>4 DEF FindHighest, FindLowest, GreatestOf, LeastOf
<1>5. CASE m.l2 # {}
  <2>1. /\ At(Max(m.l2), Max(m.l1[Max(m.l2)])) = Max(InUse(m.l0))
        /\ At(Min(m.l2), Min(m.l1[Min(m.l2)])) = Min(InUse(m.l0))
    BY <1>1, <1>2, <1>5, ExtremesOfTier
  <2>2. /\ At(Max(InUse(m.l0)), Max(m.l0[Max(InUse(m.l0))])) = Max(Marked(m))
        /\ At(Min(InUse(m.l0)), Min(m.l0[Min(InUse(m.l0))])) = Min(Marked(m))
    BY <1>1, <1>2, <1>3, <1>5, ExtremesOfTier
  <2>3. FindHighest(m) = Max(Marked(m)) /\ FindLowest(m) = Min(Marked(m))
    BY <1>5, <2>1, <2>2 DEF FindHighest, FindLowest, At
  <2> QED BY <1>3, <1>5, <2>3 DEF GreatestOf, LeastOf
<1> QED BY <1>4, <1>5
-----------------------------------------------------------------------------
(***************************************************************************)
(* From one level to the next.                                             *)
(***************************************************************************)

\* Which of two numbers comes first.
LEMMA Compared ==
  ASSUME NEW i \in Nat, NEW k \in Nat
  PROVE  i <= k <=> Word(i) < Word(k) \/ (Word(i) = Word(k) /\ Bit(i) <= Bit(k))
<1> DEFINE v == Word(i)
           w == Word(k)
           a == Bit(i)
           b == Bit(k)
<1>1. /\ v \in Nat /\ w \in Nat /\ a \in Position /\ b \in Position
      /\ At(v, a) = i /\ At(w, b) = k
  BY Placed
<1> HIDE DEF v, w, a, b
<1>2. /\ v < w => i < k
      /\ w < v => k < i
      /\ v = w => (a <= b <=> i <= k)
  BY <1>1, Ordered
<1>3. i <= k <=> v < w \/ (v = w /\ a <= b)
  BY <1>1, <1>2
<1> QED BY <1>3 DEF v, w, a, b

\* scan_above() of depth(): the next marked level above i, or NPos when i is
\* the greatest.
THEOREM NextAboveIsFound ==
  ASSUME NEW m, BitmapSound(m), NEW i \in 0 .. m.n - 1
  PROVE  ScanAbove(m, i) = LeastOf({k \in Marked(m) : k > i})
<1> DEFINE S == {k \in Marked(m) : k > i}
           n == m.n
           l == m.l0
           size == WordsFor(m.n)
           j == i + 1
           v == Word(j)
           here == {b \in l[v] : b >= Bit(j)}
           later == {w \in DOMAIN l : w > v /\ l[w] # {}}
<1>1. /\ n \in Nat /\ Marked(m) = Held(l) /\ Marked(m) \subseteq 0 .. n - 1
      /\ l \in Words(size) /\ size \in Nat
  BY MarkedIsHeld, WordExists DEF BitmapSound, Shaped
<1>2. i \in Nat /\ j \in Nat /\ j = i + 1
  OBVIOUS
<1>3. ScanAbove(m, i) = IF j >= n THEN NPos
                        ELSE IF here # {} THEN At(v, Min(here))
                        ELSE IF later = {} THEN NPos
                        ELSE At(Min(later), Min(l[Min(later)]))
  BY DEF ScanAbove, At
<1>4. S \subseteq Int /\ \A k : k \in S <=> (k \in Held(l) /\ j <= k)
  BY <1>1, <1>2
<1>5. DOMAIN l = 0 .. size - 1 /\ \A w \in 0 .. size - 1 : l[w] \subseteq Position
  BY <1>1 DEF Words
<1>6. v \in Nat /\ Bit(j) \in Position
  BY <1>2, Placed
<1>7. \A k \in S : k \in Nat /\ Word(k) \in DOMAIN l /\ Bit(k) \in l[Word(k)]
                   /\ (v < Word(k) \/ (v = Word(k) /\ Bit(j) <= Bit(k)))
  BY <1>2, <1>4, Compared DEF Held
<1>8. \A w \in DOMAIN l, b \in Position :
         /\ At(w, b) \in Nat
         /\ At(w, b) \in S <=> (b \in l[w] /\ (v < w \/ (v = w /\ Bit(j) <= b)))
  <2>1. ASSUME NEW w \in DOMAIN l, NEW b \in Position
        PROVE  /\ At(w, b) \in Nat
               /\ At(w, b) \in S <=> (b \in l[w] /\ (v < w \/ (v = w /\ Bit(j) <= b)))
    <3>1. w \in Nat /\ w \in 0 .. size - 1
      BY <1>5
    <3>2. At(w, b) \in Nat /\ Word(At(w, b)) = w /\ Bit(At(w, b)) = b
      BY <3>1, PlaceOf
    <3>3. j <= At(w, b) <=> v < w \/ (v = w /\ Bit(j) <= b)
      BY <1>2, <3>2, Compared
    <3>4. At(w, b) \in Held(l) <=> b \in l[w]
      BY <1>1, <3>1, HeldAt
    <3> QED BY <1>4, <3>2, <3>3, <3>4
  <2> QED BY <2>1
<1>9. CASE j >= n
  <2>1. S = {}
    BY <1>1, <1>2, <1>9
  <2> QED BY <1>3, <1>9, <2>1 DEF LeastOf
<1>10. CASE ~(j >= n) /\ here # {}
  <2> DEFINE c == Min(here)
  <2>1. v \in DOMAIN l
    <3>1. j \in 0 .. n - 1
      BY <1>1, <1>2, <1>10
    <3>2. v \in 0 .. WordsFor(n) - 1
      <4> HIDE DEF n, j
      <4> QED BY <1>1, <3>1, WordExists
    <3> QED BY <1>5, <3>2
  <2>2. c \in here /\ \A b \in here : c <= b
    <3>1. here \subseteq 0 .. WordBits - 1 /\ WordBits - 1 \in Nat
      BY <1>5, <2>1 DEF Position
    <3> HIDE DEF here
    <3> QED BY <1>10, <3>1, Extremes
  <2>3. c \in Position /\ c \in l[v] /\ Bit(j) <= c
    BY <1>5, <1>6, <2>1, <2>2 DEF Position
  <2> HIDE DEF c
  <2>4. At(v, c) \in S
    BY <1>8, <2>1, <2>3
  <2>5. ASSUME NEW k \in S PROVE At(v, c) <= k
    <3>1. /\ k \in Nat /\ At(v, c) \in Nat
          /\ Word(At(v, c)) = v /\ Bit(At(v, c)) = c
      BY <1>4, <1>6, <1>7, <2>3, PlaceOf
    <3>2. v < Word(k) \/ (v = Word(k) /\ Bit(k) \in here)
      BY <1>7, <2>1, <2>2, <1>5, <1>6 DEF Position
    <3>3. v < Word(k) \/ (v = Word(k) /\ c <= Bit(k))
      BY <2>2, <3>2
    <3> QED BY <3>1, <3>3, Compared
  <2>6. Min(S) = At(v, c)
    <3> HIDE DEF S
    <3> QED BY <1>4, <2>4, <2>5, OneGreatest
  <2> QED BY <1>3, <1>10, <2>4, <2>6 DEF LeastOf, c
<1>11. CASE ~(j >= n) /\ here = {} /\ later = {}
  <2>1. S = {}
    BY <1>7, <1>11, <1>5, <1>6 DEF Position
  <2> QED BY <1>3, <1>11, <2>1 DEF LeastOf
<1>12. CASE ~(j >= n) /\ here = {} /\ later # {}
  <2> DEFINE u == Min(later)
             c == Min(l[u])
  <2>1. u \in later /\ \A w \in later : u <= w
    <3>1. later \subseteq 0 .. size - 1 /\ size - 1 \in Nat
      BY <1>1, <1>5, <1>12
    <3> HIDE DEF later
    <3> QED BY <1>12, <3>1, Extremes
  <2> HIDE DEF u
  <2>2. u \in DOMAIN l /\ u \in Nat /\ v < u /\ l[u] # {}
    <3>1. u \in DOMAIN l /\ u > v /\ l[u] # {}
      BY <2>1
    <3>2. u \in 0 .. size - 1
      BY <1>5, <3>1
    <3> QED BY <1>6, <3>1, <3>2
  <2>3. c \in l[u] /\ c \in Position /\ \A b \in l[u] : c <= b
    <3>1. l[u] \subseteq 0 .. WordBits - 1 /\ WordBits - 1 \in Nat
      BY <1>5, <2>2 DEF Position
    <3> QED BY <1>5, <2>2, <3>1, Extremes
  <2> HIDE DEF c
  <2>4. At(u, c) \in S
    BY <1>8, <2>2, <2>3
  <2>5. ASSUME NEW k \in S PROVE At(u, c) <= k
    <3>1. /\ k \in Nat /\ At(u, c) \in Nat
          /\ Word(At(u, c)) = u /\ Bit(At(u, c)) = c
      BY <1>7, <2>2, <2>3, PlaceOf
    <3>2. Word(k) \in later /\ Bit(k) \in l[Word(k)] /\ Word(k) \in Nat
      BY <1>5, <1>6, <1>7, <1>12 DEF Position
    <3>3. u < Word(k) \/ (u = Word(k) /\ c <= Bit(k))
      BY <2>1, <2>2, <2>3, <3>2
    <3> QED BY <3>1, <3>3, Compared
  <2>6. Min(S) = At(u, c)
    <3> HIDE DEF S
    <3> QED BY <1>4, <2>4, <2>5, OneGreatest
  <2> QED BY <1>3, <1>12, <2>4, <2>6 DEF LeastOf, u, c
<1> QED BY <1>9, <1>10, <1>11, <1>12

\* scan_below(): the next marked level below i, or NPos when i is the least.
THEOREM NextBelowIsFound ==
  ASSUME NEW m, BitmapSound(m), NEW i \in 0 .. m.n - 1
  PROVE  ScanBelow(m, i) = GreatestOf({k \in Marked(m) : k < i})
<1> DEFINE S == {k \in Marked(m) : k < i}
           n == m.n
           l == m.l0
           size == WordsFor(m.n)
           j == i - 1
           v == Word(j)
           here == {b \in l[v] : b <= Bit(j)}
           earlier == {w \in DOMAIN l : w < v /\ l[w] # {}}
<1>1. /\ n \in Nat /\ Marked(m) = Held(l) /\ Marked(m) \subseteq 0 .. n - 1
      /\ l \in Words(size) /\ size \in Nat
  BY MarkedIsHeld, WordExists DEF BitmapSound, Shaped
<1>9. CASE i = 0
  <2>1. S = {}
    BY <1>1, <1>9
  <2> QED BY <1>9, <2>1 DEF ScanBelow, GreatestOf
<1> SUFFICES ASSUME i # 0
             PROVE  ScanBelow(m, i) = GreatestOf(S)
  BY <1>9
<1>2. i \in Nat /\ j = i - 1 /\ j \in 0 .. n - 1 /\ j \in Nat
  BY <1>1
<1>3. ScanBelow(m, i) = IF here # {} THEN At(v, Max(here))
                        ELSE IF earlier = {} THEN NPos
                        ELSE At(Max(earlier), Max(l[Max(earlier)]))
  BY DEF ScanBelow, At
<1>4. S \subseteq Int /\ \A k : k \in S <=> (k \in Held(l) /\ k <= j)
  BY <1>1, <1>2
<1>5. DOMAIN l = 0 .. size - 1 /\ \A w \in 0 .. size - 1 : l[w] \subseteq Position
  BY <1>1 DEF Words
<1>6. v \in Nat /\ Bit(j) \in Position
  BY <1>2, Placed
<1>7. \A k \in S : k \in Nat /\ Word(k) \in DOMAIN l /\ Bit(k) \in l[Word(k)]
                   /\ (Word(k) < v \/ (Word(k) = v /\ Bit(k) <= Bit(j)))
  BY <1>2, <1>4, Compared DEF Held
<1>8. \A w \in DOMAIN l, b \in Position :
         /\ At(w, b) \in Nat
         /\ At(w, b) \in S <=> (b \in l[w] /\ (w < v \/ (w = v /\ b <= Bit(j))))
  <2>1. ASSUME NEW w \in DOMAIN l, NEW b \in Position
        PROVE  /\ At(w, b) \in Nat
               /\ At(w, b) \in S <=> (b \in l[w] /\ (w < v \/ (w = v /\ b <= Bit(j))))
    <3>1. w \in Nat /\ w \in 0 .. size - 1
      BY <1>5
    <3>2. At(w, b) \in Nat /\ Word(At(w, b)) = w /\ Bit(At(w, b)) = b
      BY <3>1, PlaceOf
    <3>3. At(w, b) <= j <=> w < v \/ (w = v /\ b <= Bit(j))
      BY <1>2, <3>2, Compared
    <3>4. At(w, b) \in Held(l) <=> b \in l[w]
      BY <1>1, <3>1, HeldAt
    <3> QED BY <1>4, <3>2, <3>3, <3>4
  <2> QED BY <2>1
<1>10. CASE here # {}
  <2> DEFINE c == Max(here)
  <2>1. v \in DOMAIN l
    <3>1. v \in 0 .. WordsFor(n) - 1
      <4> HIDE DEF n, j
      <4> QED BY <1>1, <1>2, WordExists
    <3> QED BY <1>5, <3>1
  <2>2. c \in here /\ \A b \in here : b <= c
    <3>1. here \subseteq 0 .. WordBits - 1 /\ WordBits - 1 \in Nat
      BY <1>5, <2>1 DEF Position
    <3> HIDE DEF here
    <3> QED BY <1>10, <3>1, Extremes
  <2>3. c \in Position /\ c \in l[v] /\ c <= Bit(j)
    BY <1>5, <1>6, <2>1, <2>2 DEF Position
  <2> HIDE DEF c
  <2>4. At(v, c) \in S
    BY <1>8, <2>1, <2>3
  <2>5. ASSUME NEW k \in S PROVE k <= At(v, c)
    <3>1. /\ k \in Nat /\ At(v, c) \in Nat
          /\ Word(At(v, c)) = v /\ Bit(At(v, c)) = c
      BY <1>4, <1>6, <1>7, <2>3, PlaceOf
    <3>2. Word(k) < v \/ (Word(k) = v /\ Bit(k) \in here)
      BY <1>7, <2>1, <2>2, <1>5, <1>6 DEF Position
    <3>3. Word(k) < v \/ (Word(k) = v /\ Bit(k) <= c)
      BY <2>2, <3>2
    <3> QED BY <3>1, <3>3, Compared
  <2>6. Max(S) = At(v, c)
    <3> HIDE DEF S
    <3> QED BY <1>4, <2>4, <2>5, OneGreatest
  <2> QED BY <1>3, <1>10, <2>4, <2>6 DEF GreatestOf, c
<1>11. CASE here = {} /\ earlier = {}
  <2>1. S = {}
    BY <1>7, <1>11, <1>5, <1>6 DEF Position
  <2> QED BY <1>3, <1>11, <2>1 DEF GreatestOf
<1>12. CASE here = {} /\ earlier # {}
  <2> DEFINE u == Max(earlier)
             c == Max(l[u])
  <2>1. u \in earlier /\ \A w \in earlier : w <= u
    <3>1. earlier \subseteq 0 .. size - 1 /\ size - 1 \in Nat
      BY <1>1, <1>5, <1>12
    <3> HIDE DEF earlier
    <3> QED BY <1>12, <3>1, Extremes
  <2> HIDE DEF u
  <2>2. u \in DOMAIN l /\ u \in Nat /\ u < v /\ l[u] # {}
    <3>1. u \in DOMAIN l /\ u < v /\ l[u] # {}
      BY <2>1
    <3>2. u \in 0 .. size - 1
      BY <1>5, <3>1
    <3> QED BY <1>6, <3>1, <3>2
  <2>3. c \in l[u] /\ c \in Position /\ \A b \in l[u] : b <= c
    <3>1. l[u] \subseteq 0 .. WordBits - 1 /\ WordBits - 1 \in Nat
      BY <1>5, <2>2 DEF Position
    <3> QED BY <1>5, <2>2, <3>1, Extremes
  <2> HIDE DEF c
  <2>4. At(u, c) \in S
    BY <1>8, <2>2, <2>3
  <2>5. ASSUME NEW k \in S PROVE k <= At(u, c)
    <3>1. /\ k \in Nat /\ At(u, c) \in Nat
          /\ Word(At(u, c)) = u /\ Bit(At(u, c)) = c
      BY <1>7, <2>2, <2>3, PlaceOf
    <3>2. Word(k) \in earlier /\ Bit(k) \in l[Word(k)] /\ Word(k) \in Nat
      BY <1>5, <1>6, <1>7, <1>12 DEF Position
    <3>3. Word(k) < u \/ (Word(k) = u /\ Bit(k) <= c)
      BY <2>1, <2>2, <2>3, <3>2
    <3> QED BY <3>1, <3>3, Compared
  <2>6. Max(S) = At(u, c)
    <3> HIDE DEF S
    <3> QED BY <1>4, <2>4, <2>5, OneGreatest
  <2> QED BY <1>3, <1>12, <2>4, <2>6 DEF GreatestOf, u, c
<1> QED BY <1>10, <1>11, <1>12
-----------------------------------------------------------------------------
(***************************************************************************)
(* The updates.                                                            *)
(***************************************************************************)

With(l, w, b) == [l EXCEPT ![w] = @ \cup {b}]
Without(l, w, b) == [l EXCEPT ![w] = @ \ {b}]

\* A bit more in a tier.
LEMMA TierWith ==
  ASSUME NEW k \in Nat, NEW l \in Words(k), NEW i \in Nat, Word(i) \in 0 .. k - 1
  PROVE  LET new == With(l, Word(i), Bit(i))
         IN /\ new \in Words(k)
            /\ Held(new) = Held(l) \cup {i}
            /\ InUse(new) = InUse(l) \cup {Word(i)}
<1> DEFINE w == Word(i)
           b == Bit(i)
           new == With(l, w, b)
<1>1. w \in 0 .. k - 1 /\ w \in Nat /\ b \in Position /\ At(w, b) = i
  BY Placed
<1>2. DOMAIN l = 0 .. k - 1 /\ \A u \in 0 .. k - 1 : l[u] \subseteq Position
  BY DEF Words
<1> HIDE DEF w, b
<1>3. /\ new \in Words(k) /\ DOMAIN new = 0 .. k - 1
      /\ \A u \in 0 .. k - 1 : new[u] = IF u = w THEN l[w] \cup {b} ELSE l[u]
  <2>1. /\ DOMAIN new = 0 .. k - 1
        /\ \A u \in 0 .. k - 1 : new[u] = IF u = w THEN l[w] \cup {b} ELSE l[u]
    BY <1>1, <1>2 DEF With, Words
  <2>2. \A u \in 0 .. k - 1 : new[u] \in SUBSET Position
    BY <1>1, <1>2, <2>1
  <2>3. new = [u \in DOMAIN new |-> new[u]]
    BY <1>2 DEF With, Words
  <2> HIDE DEF new
  <2> QED BY <2>1, <2>2, <2>3 DEF Words
<1> HIDE DEF new
<1>4. ASSUME NEW j \in Nat PROVE j \in Held(new) <=> j \in Held(l) \/ j = i
  <2>1. Word(j) \in Nat /\ Bit(j) \in Position /\ At(Word(j), Bit(j)) = j
    BY Placed
  <2>2. j = i <=> Word(j) = w /\ Bit(j) = b
    BY <1>1, <2>1 DEF w, b
  <2> QED BY <1>1, <1>2, <1>3, <2>2 DEF Held
<1>5. Held(new) = Held(l) \cup {i}
  BY <1>4 DEF Held
<1>6. InUse(new) = InUse(l) \cup {w}
  BY <1>1, <1>2, <1>3 DEF InUse
<1> QED BY <1>3, <1>5, <1>6 DEF w, b, new

\* A bit less: the word leaves use with its last bit.
LEMMA TierWithout ==
  ASSUME NEW k \in Nat, NEW l \in Words(k), NEW i \in Nat, Word(i) \in 0 .. k - 1
  PROVE  LET new == Without(l, Word(i), Bit(i))
         IN /\ new \in Words(k)
            /\ Held(new) = Held(l) \ {i}
            /\ new[Word(i)] = {} => InUse(new) = InUse(l) \ {Word(i)}
            /\ new[Word(i)] # {} => InUse(new) = InUse(l)
<1> DEFINE w == Word(i)
           b == Bit(i)
           new == Without(l, w, b)
<1>1. w \in 0 .. k - 1 /\ w \in Nat /\ b \in Position /\ At(w, b) = i
  BY Placed
<1>2. DOMAIN l = 0 .. k - 1 /\ \A u \in 0 .. k - 1 : l[u] \subseteq Position
  BY DEF Words
<1> HIDE DEF w, b
<1>3. /\ new \in Words(k) /\ DOMAIN new = 0 .. k - 1
      /\ \A u \in 0 .. k - 1 : new[u] = IF u = w THEN l[w] \ {b} ELSE l[u]
  <2>1. /\ DOMAIN new = 0 .. k - 1
        /\ \A u \in 0 .. k - 1 : new[u] = IF u = w THEN l[w] \ {b} ELSE l[u]
    BY <1>1, <1>2 DEF Without, Words
  <2>2. \A u \in 0 .. k - 1 : new[u] \in SUBSET Position
    BY <1>1, <1>2, <2>1
  <2>3. new = [u \in DOMAIN new |-> new[u]]
    BY <1>2 DEF Without, Words
  <2> HIDE DEF new
  <2> QED BY <2>1, <2>2, <2>3 DEF Words
<1> HIDE DEF new
<1>4. ASSUME NEW j \in Nat PROVE j \in Held(new) <=> j \in Held(l) /\ j # i
  <2>1. Word(j) \in Nat /\ Bit(j) \in Position /\ At(Word(j), Bit(j)) = j
    BY Placed
  <2>2. j = i <=> Word(j) = w /\ Bit(j) = b
    BY <1>1, <2>1 DEF w, b
  <2> QED BY <1>1, <1>2, <1>3, <2>2 DEF Held
<1>5. Held(new) = Held(l) \ {i}
  BY <1>4 DEF Held
<1>6. /\ new[w] = {} => InUse(new) = InUse(l) \ {w}
      /\ new[w] # {} => InUse(new) = InUse(l)
  BY <1>1, <1>2, <1>3 DEF InUse
<1> QED BY <1>3, <1>5, <1>6 DEF w, b, new

\* Where level i, its word and the word of that stand.
LEMMA Addressed ==
  ASSUME NEW m, BitmapSound(m), NEW i \in 0 .. m.n - 1
  PROVE  /\ m.n \in Nat /\ WordsFor(m.n) \in Nat /\ WordsFor(WordsFor(m.n)) \in Nat
         /\ i \in Nat /\ Word(i) \in 0 .. WordsFor(m.n) - 1 /\ Word(i) \in Nat
         /\ Word(Word(i)) \in 0 .. WordsFor(WordsFor(m.n)) - 1
         /\ Word(Word(i)) \in Position
<1> DEFINE n == m.n
           k0 == WordsFor(n)
           k1 == WordsFor(k0)
<1>1. n \in Nat /\ k1 <= WordBits /\ i \in Nat /\ i \in 0 .. n - 1
  BY DEF BitmapSound, Shaped, BitmapFits
<1> HIDE DEF n
<1>2. k0 \in Nat /\ Word(i) \in 0 .. k0 - 1
  BY <1>1, WordExists
<1> HIDE DEF k0
<1>3. k1 \in Nat /\ Word(Word(i)) \in 0 .. k1 - 1
  BY <1>2, WordExists
<1> HIDE DEF k1
<1>4. Word(Word(i)) \in Position /\ Word(i) \in Nat
  BY <1>1, <1>2, <1>3 DEF Position
<1> QED BY <1>1, <1>2, <1>3, <1>4 DEF k1, k0, n

\* An empty book's bitmap is sound and marks nothing.
THEOREM EmptyBitmapIsSound ==
  ASSUME NEW n \in Nat, BitmapFits(n)
  PROVE  BitmapSound(EmptyBitmap(n)) /\ Marked(EmptyBitmap(n)) = {}
<1> DEFINE m == EmptyBitmap(n)
<1>1. /\ m.n = n /\ m.l2 = {}
      /\ m.l0 = [w \in 0 .. WordsFor(n) - 1 |-> {}]
      /\ m.l1 = [w \in 0 .. WordsFor(WordsFor(n)) - 1 |-> {}]
  BY DEF EmptyBitmap
<1>2. m \in [n : Nat, l0 : Words(WordsFor(n)), l1 : Words(WordsFor(WordsFor(n))),
             l2 : SUBSET Position]
  BY DEF EmptyBitmap, Words
<1>3. Held(m.l0) = {} /\ Held(m.l1) = {} /\ InUse(m.l0) = {} /\ InUse(m.l1) = {}
  BY <1>1 DEF Held, InUse
<1>4. BitmapSound(m)
  <2> HIDE DEF m
  <2> QED BY <1>1, <1>2, <1>3 DEF BitmapSound, Shaped, NothingPastTheEnd, Layered
<1> QED BY <1>3, <1>4, MarkedIsHeld

\* set() keeps the tiers in step and marks its level and no other.
THEOREM SetBitMarks ==
  ASSUME NEW m, BitmapSound(m), NEW i \in 0 .. m.n - 1
  PROVE  /\ BitmapSound(SetBit(m, i)) /\ SetBit(m, i).n = m.n
         /\ Marked(SetBit(m, i)) = Marked(m) \cup {i}
<1> DEFINE n == m.n
           k0 == WordsFor(n)
           k1 == WordsFor(k0)
           w == Word(i)
           v == Word(w)
           l0 == With(m.l0, w, Bit(i))
           l1 == With(m.l1, v, Bit(w))
           l2 == m.l2 \cup {v}
           new == SetBit(m, i)
<1>1. /\ n \in Nat /\ k0 \in Nat /\ k1 \in Nat
      /\ i \in Nat /\ w \in 0 .. k0 - 1 /\ w \in Nat
      /\ v \in 0 .. k1 - 1 /\ v \in Position
  BY Addressed
<1>2. /\ m \in [n : Nat, l0 : Words(k0), l1 : Words(k1), l2 : SUBSET Position]
      /\ BitmapFits(n) /\ \A j \in Held(m.l0) : j < n
      /\ Held(m.l1) = InUse(m.l0) /\ m.l2 = InUse(m.l1)
  BY DEF BitmapSound, Shaped, NothingPastTheEnd, Layered
<1>3. new = [n |-> n, l0 |-> l0, l1 |-> l1, l2 |-> l2]
  <2>1. [m EXCEPT !.l0 = l0].l1 = m.l1
    <3> HIDE DEF l0
    <3> QED BY <1>2
  <2>2. new = [[[m EXCEPT !.l0 = l0] EXCEPT !.l1 = l1] EXCEPT !.l2 = l2]
    BY <2>1, Zenon DEF SetBit, With
  <2> HIDE DEF l0, l1, l2, new
  <2> QED BY <1>2, <2>2
<1> HIDE DEF new
<1>4. m.l0 \in Words(k0) /\ m.l1 \in Words(k1)
  BY <1>2
<1>5. l0 \in Words(k0) /\ Held(l0) = Held(m.l0) \cup {i} /\ InUse(l0) = InUse(m.l0) \cup {w}
  BY <1>1, <1>4, TierWith
<1>6. l1 \in Words(k1) /\ Held(l1) = Held(m.l1) \cup {w} /\ InUse(l1) = InUse(m.l1) \cup {v}
  BY <1>1, <1>4, TierWith
<1>7. l2 \in SUBSET Position
  BY <1>1, <1>2
<1> HIDE DEF l0, l1, l2, w, v, k0, k1
<1>8. new.n = n /\ new.l0 = l0 /\ new.l1 = l1 /\ new.l2 = l2
  BY <1>3
<1>9. Shaped(new)
  <2>1. new \in [n : Nat, l0 : Words(k0), l1 : Words(k1), l2 : SUBSET Position]
    BY <1>1, <1>3, <1>5, <1>6, <1>7
  <2> QED BY <1>2, <1>8, <2>1 DEF Shaped, k0, k1
<1>10. NothingPastTheEnd(new)
  BY <1>1, <1>2, <1>5, <1>8 DEF NothingPastTheEnd
<1>11. Layered(new)
  BY <1>2, <1>5, <1>6, <1>8 DEF Layered, l2
<1>12. BitmapSound(new)
  BY <1>9, <1>10, <1>11 DEF BitmapSound
<1>13. Marked(new) = Marked(m) \cup {i}
  BY <1>5, <1>8, <1>12, MarkedIsHeld
<1> QED BY <1>8, <1>12, <1>13 DEF new

\* clear() too, where a word empties or not: its level is no longer marked, and no
\* other is lost.
THEOREM ClearBitUnmarks ==
  ASSUME NEW m, BitmapSound(m), NEW i \in 0 .. m.n - 1
  PROVE  /\ BitmapSound(ClearBit(m, i)) /\ ClearBit(m, i).n = m.n
         /\ Marked(ClearBit(m, i)) = Marked(m) \ {i}
<1> DEFINE n == m.n
           k0 == WordsFor(n)
           k1 == WordsFor(k0)
           w == Word(i)
           v == Word(w)
           l0 == Without(m.l0, w, Bit(i))
           less == Without(m.l1, v, Bit(w))
           l1 == IF l0[w] = {} THEN less ELSE m.l1
           l2 == IF l0[w] = {} /\ l1[v] = {} THEN m.l2 \ {v} ELSE m.l2
           new == ClearBit(m, i)
<1>1. /\ n \in Nat /\ k0 \in Nat /\ k1 \in Nat
      /\ i \in Nat /\ w \in 0 .. k0 - 1 /\ w \in Nat
      /\ v \in 0 .. k1 - 1 /\ v \in Position
  BY Addressed
<1>2. /\ m \in [n : Nat, l0 : Words(k0), l1 : Words(k1), l2 : SUBSET Position]
      /\ BitmapFits(n) /\ \A j \in Held(m.l0) : j < n
      /\ Held(m.l1) = InUse(m.l0) /\ m.l2 = InUse(m.l1)
  BY DEF BitmapSound, Shaped, NothingPastTheEnd, Layered
<1>3. new = [m EXCEPT !.l0 = l0, !.l1 = l1, !.l2 = l2]
  BY DEF ClearBit, Without
<1> HIDE DEF new
<1>4. m.l0 \in Words(k0) /\ m.l1 \in Words(k1)
  BY <1>2
<1>5. /\ l0 \in Words(k0) /\ Held(l0) = Held(m.l0) \ {i}
      /\ l0[w] = {} => InUse(l0) = InUse(m.l0) \ {w}
      /\ l0[w] # {} => InUse(l0) = InUse(m.l0)
  BY <1>1, <1>4, TierWithout
<1>6. /\ less \in Words(k1) /\ Held(less) = Held(m.l1) \ {w}
      /\ less[v] = {} => InUse(less) = InUse(m.l1) \ {v}
      /\ less[v] # {} => InUse(less) = InUse(m.l1)
  BY <1>1, <1>4, TierWithout
<1> HIDE DEF l0, less, w, v, k0, k1
<1>7. /\ l1 \in Words(k1) /\ Held(l1) = InUse(l0)
      /\ l2 = InUse(l1) /\ l2 \in SUBSET Position
  BY <1>2, <1>4, <1>5, <1>6
<1> HIDE DEF l1, l2
<1>8. new = [n |-> n, l0 |-> l0, l1 |-> l1, l2 |-> l2]
  BY <1>2, <1>3
<1>9. new.n = n /\ new.l0 = l0 /\ new.l1 = l1 /\ new.l2 = l2
  BY <1>8
<1>10. Shaped(new)
  <2>1. new \in [n : Nat, l0 : Words(k0), l1 : Words(k1), l2 : SUBSET Position]
    BY <1>1, <1>5, <1>7, <1>8
  <2> QED BY <1>2, <1>9, <2>1 DEF Shaped, k0, k1
<1>11. NothingPastTheEnd(new)
  BY <1>2, <1>5, <1>9 DEF NothingPastTheEnd
<1>12. Layered(new)
  BY <1>7, <1>9 DEF Layered
<1>13. BitmapSound(new)
  BY <1>10, <1>11, <1>12 DEF BitmapSound
<1>14. Marked(new) = Marked(m) \ {i}
  BY <1>5, <1>9, <1>13, MarkedIsHeld
<1> QED BY <1>9, <1>13, <1>14 DEF new

-----------------------------------------------------------------------------
(***************************************************************************)
(* The index: where the probe for an id goes.                              *)
(***************************************************************************)

\* The d-th slot the probe for an id looks at.
Home(t, id, d) == (Mix[id] + d) % Capacity(t)

\* What is left after whole multiples are taken away.
LEMMA Remainder ==
  ASSUME NEW c \in Nat \ {0}, NEW k \in Nat, NEW a \in 0 .. c - 1
  PROVE  (k * c + a) % c = a
<1> DEFINE p == k * c
           x == p + a
           q == x \div c
           s == q * c
           r == x % c
<1>1. p \in Nat /\ x \in Nat
  BY Multiples
<1>2. q \in Nat /\ r \in 0 .. c - 1 /\ x = s + r /\ s \in Nat
  <2>1. q \in Nat
    BY <1>1, WholePart
  <2> HIDE DEF x
  <2>2. x = c * (x \div c) + (x % c) /\ x % c \in 0 .. c - 1
    BY <1>1
  <2>3. c * (x \div c) = (x \div c) * c
    BY <2>1
  <2>4. s \in Nat
    BY <2>1, Multiples
  <2> QED BY <2>1, <2>2, <2>3, <2>4
<1>3. (k < q => p + c <= s) /\ (q < k => s + c <= p)
  <2> HIDE DEF q
  <2> QED BY <1>2, Multiples
<1>4. k = q => p = s
  OBVIOUS
<1>5. (k < q \/ q < k \/ k = q)
  BY <1>2
<1> HIDE DEF p, s, q, r, x
<1>6. x = p + a
  BY DEF x
<1>7. r = a
  BY <1>1, <1>2, <1>3, <1>4, <1>5, <1>6
<1> QED BY <1>7 DEF r, x, p

\* The probe looks at every slot once.
LEMMA Rotation ==
  ASSUME NEW c \in Nat \ {0}, NEW h \in Nat
  PROVE  /\ \A d \in 0 .. c - 1 : (h + d) % c \in 0 .. c - 1
         /\ \A d, e \in 0 .. c - 1 : (h + d) % c = (h + e) % c => d = e
         /\ \A i \in 0 .. c - 1 : \E d \in 0 .. c - 1 : (h + d) % c = i
<1> DEFINE q == h \div c
           r == h % c
<1>1. q \in Nat /\ r \in 0 .. c - 1 /\ h = q * c + r /\ q * c \in Nat
      /\ (q + 1) * c = q * c + c
  <2>1. q \in Nat
    BY WholePart
  <2>2. h = c * (h \div c) + (h % c) /\ h % c \in 0 .. c - 1
    OBVIOUS
  <2>3. c * (h \div c) = (h \div c) * c
    BY <2>1
  <2>4. q * c \in Nat /\ (q + 1) * c = q * c + c
    <3> HIDE DEF q
    <3> QED BY <2>1, Multiples
  <2> QED BY <2>1, <2>2, <2>3, <2>4
<1> HIDE DEF q, r
<1>2. ASSUME NEW d \in 0 .. c - 1
      PROVE  (h + d) % c = IF r + d < c THEN r + d ELSE r + d - c
  <2>1. CASE r + d < c
    <3>1. r + d \in 0 .. c - 1 /\ h + d = q * c + (r + d)
      BY <1>1, <2>1
    <3>2. (q * c + (r + d)) % c = r + d
      BY <1>1, <3>1, Remainder
    <3> QED BY <2>1, <3>1, <3>2
  <2>2. CASE ~(r + d < c)
    <3> DEFINE a == r + d - c
               k == q + 1
    <3>1. a \in 0 .. c - 1 /\ k \in Nat /\ h + d = k * c + a
      BY <1>1, <2>2
    <3> HIDE DEF a, k
    <3>2. (k * c + a) % c = a
      BY <3>1, Remainder
    <3> QED BY <2>2, <3>1, <3>2 DEF a
  <2> QED BY <2>1, <2>2
<1>3. \A d \in 0 .. c - 1 : (h + d) % c \in 0 .. c - 1
  BY <1>1, <1>2
<1>4. \A d, e \in 0 .. c - 1 : (h + d) % c = (h + e) % c => d = e
  BY <1>1, <1>2
<1>5. ASSUME NEW i \in 0 .. c - 1 PROVE \E d \in 0 .. c - 1 : (h + d) % c = i
  <2>1. CASE r <= i
    <3>1. i - r \in 0 .. c - 1 /\ r + (i - r) = i
      BY <1>1, <2>1
    <3>2. (h + (i - r)) % c = i
      BY <1>1, <1>2, <3>1
    <3> QED BY <3>1, <3>2
  <2>2. CASE i < r
    <3>1. i - r + c \in 0 .. c - 1 /\ r + (i - r + c) - c = i /\ ~(r + (i - r + c) < c)
      BY <1>1, <2>2
    <3>2. (h + (i - r + c)) % c = i
      BY <1>1, <1>2, <3>1
    <3> QED BY <3>1, <3>2
  <2> QED BY <1>1, <2>1, <2>2
<1> QED BY <1>3, <1>4, <1>5

-----------------------------------------------------------------------------
(***************************************************************************)
(* What a sound index is, and the mapping it stands for.                   *)
(***************************************************************************)

IndexShaped(t) ==
  t \in [keys : [0 .. t.mask -> Id \cup Reserved], vals : [0 .. t.mask -> Nat],
         mask : Nat, count : Nat, tombs : Nat]

Live(t) == {i \in 0 .. t.mask : t.keys[i] \in Id}
Dead(t) == {i \in 0 .. t.mask : t.keys[i] = Tombstone}

OncePerKey(t) == \A i, j \in Live(t) : t.keys[i] = t.keys[j] => i = j

\* No empty slot lies between a key's home and the key.
ChainsUnbroken(t) ==
  \A id \in Id, d \in 0 .. t.mask :
    t.keys[Home(t, id, d)] = id => \A k \in 0 .. d - 1 : t.keys[Home(t, id, k)] # EmptyKey

Counted(t) == t.count = Cardinality(Live(t)) /\ t.tombs = Cardinality(Dead(t))

ProbesEnd(t) == \E i \in 0 .. t.mask : t.keys[i] = EmptyKey

IndexSound(t) ==
  IndexShaped(t) /\ OncePerKey(t) /\ ChainsUnbroken(t) /\ Counted(t) /\ ProbesEnd(t)

\* The ids the index holds, and the slot it holds for each.
Keyed(t) == {id \in Id : \E i \in 0 .. t.mask : t.keys[i] = id}
Mapping(t) == [id \in Keyed(t) |-> t.vals[CHOOSE i \in 0 .. t.mask : t.keys[i] = id]]

LEMMA ReservedIsNoId == Id \cap Reserved = {} /\ EmptyKey \notin Id /\ Tombstone \notin Id
BY DEF Reserved, EmptyKey, Tombstone

LEMMA IndexTypes ==
  ASSUME NEW t, IndexShaped(t)
  PROVE  /\ t.mask \in Nat /\ t.count \in Nat /\ t.tombs \in Nat
         /\ DOMAIN t.keys = 0 .. t.mask /\ DOMAIN t.vals = 0 .. t.mask
         /\ \A i \in 0 .. t.mask : t.keys[i] \in Id \cup Reserved /\ t.vals[i] \in Nat
         /\ Capacity(t) \in Nat \ {0} /\ Capacity(t) - 1 = t.mask
BY DEF IndexShaped, Capacity

\* The probe's slots.
LEMMA Homes ==
  ASSUME NEW t, t.mask \in Nat, NEW id \in Id
  PROVE  /\ \A d \in 0 .. t.mask : Home(t, id, d) \in 0 .. t.mask
         /\ \A d, e \in 0 .. t.mask : Home(t, id, d) = Home(t, id, e) => d = e
         /\ \A i \in 0 .. t.mask : \E d \in 0 .. t.mask : Home(t, id, d) = i
<1> DEFINE c == Capacity(t)
           h == Mix[id]
<1>1. c \in Nat \ {0} /\ c - 1 = t.mask /\ h \in Nat
  BY DEF Capacity
<1> HIDE DEF c, h
<1>2. /\ \A d \in 0 .. c - 1 : (h + d) % c \in 0 .. c - 1
      /\ \A d, e \in 0 .. c - 1 : (h + d) % c = (h + e) % c => d = e
      /\ \A i \in 0 .. c - 1 : \E d \in 0 .. c - 1 : (h + d) % c = i
  BY <1>1, Rotation
<1> QED BY <1>1, <1>2 DEF Home, c, h

\* A probe that stops at empty slots ends at the first slot it stops at.
LEMMA ProbeEnds ==
  ASSUME NEW t, IndexSound(t), NEW id \in Id, NEW stops, EmptyKey \in stops
  PROVE  \E d \in 0 .. t.mask :
            /\ Probe(t, id, stops) = Home(t, id, d)
            /\ t.keys[Home(t, id, d)] \in stops
            /\ \A k \in 0 .. d - 1 : t.keys[Home(t, id, k)] \notin stops
<1> DEFINE hits == {k \in 0 .. t.mask : t.keys[Home(t, id, k)] \in stops}
           d == Min(hits)
<1>1. t.mask \in Nat /\ ProbesEnd(t)
  BY IndexTypes DEF IndexSound
<1>2. hits # {}
  BY <1>1, Homes DEF ProbesEnd
<1>3. d \in hits /\ \A k \in hits : d <= k
  <2>1. hits \subseteq 0 .. t.mask
    OBVIOUS
  <2> HIDE DEF hits
  <2> QED BY <1>1, <1>2, <2>1, Extremes
<1>4. Probe(t, id, stops) = Home(t, id, d)
  BY <1>2, Zenon DEF Probe, Home
<1> HIDE DEF d
<1>5. \A k \in 0 .. d - 1 : t.keys[Home(t, id, k)] \notin stops
  <2>1. ASSUME NEW k \in 0 .. d - 1 PROVE k \notin hits /\ k \in 0 .. t.mask
    BY <1>1, <1>3
  <2> QED BY <2>1
<1> QED BY <1>3, <1>4, <1>5

\* The probe for an id ends at the id where the index holds it, else at an
\* empty slot.
LEMMA ProbeFinds ==
  ASSUME NEW t, IndexSound(t), NEW id \in Id
  PROVE  LET i == Probe(t, id, {id, EmptyKey})
         IN /\ i \in 0 .. t.mask
            /\ id \in Keyed(t) => t.keys[i] = id
            /\ id \notin Keyed(t) => t.keys[i] = EmptyKey
<1> DEFINE stops == {id, EmptyKey}
<1>1. PICK d \in 0 .. t.mask :
         /\ Probe(t, id, stops) = Home(t, id, d)
         /\ t.keys[Home(t, id, d)] \in stops
         /\ \A k \in 0 .. d - 1 : t.keys[Home(t, id, k)] \notin stops
  BY ProbeEnds
<1>2. t.mask \in Nat
  BY IndexTypes DEF IndexSound
<1>3. Home(t, id, d) \in 0 .. t.mask
  BY <1>2, Homes
<1>4. ASSUME id \in Keyed(t) PROVE t.keys[Home(t, id, d)] = id
  <2>1. PICK e \in 0 .. t.mask : t.keys[Home(t, id, e)] = id
    <3>1. PICK i \in 0 .. t.mask : t.keys[i] = id
      BY <1>4 DEF Keyed
    <3>2. PICK e \in 0 .. t.mask : Home(t, id, e) = i
      BY <1>2, Homes
    <3> QED BY <3>1, <3>2
  <2>2. \A k \in 0 .. e - 1 : t.keys[Home(t, id, k)] # EmptyKey
    BY <2>1 DEF IndexSound, ChainsUnbroken
  <2>3. ~(e < d)
    BY <1>1, <1>2, <2>1
  <2>4. d = e \/ d \in 0 .. e - 1
    BY <1>2, <2>3
  <2> QED BY <1>1, <2>1, <2>2, <2>4
<1>5. ASSUME id \notin Keyed(t) PROVE t.keys[Home(t, id, d)] = EmptyKey
  BY <1>1, <1>3, <1>5 DEF Keyed
<1> QED BY <1>1, <1>3, <1>4, <1>5

\* The key's slot is the one the mapping reads.
LEMMA MappingAt ==
  ASSUME NEW t, IndexSound(t), NEW i \in 0 .. t.mask, t.keys[i] \in Id
  PROVE  t.keys[i] \in Keyed(t) /\ Mapping(t)[t.keys[i]] = t.vals[i]
<1>1. t.keys[i] \in Keyed(t)
  BY DEF Keyed
<1> DEFINE j == CHOOSE j \in 0 .. t.mask : t.keys[j] = t.keys[i]
<1>2. j \in 0 .. t.mask /\ t.keys[j] = t.keys[i]
  OBVIOUS
<1>3. j = i
  <2> HIDE DEF j
  <2> QED BY <1>2 DEF IndexSound, OncePerKey, Live
<1> QED BY <1>1, <1>3 DEF Mapping

\* slot_for(): the slot of an id the index holds, and Nil for any other, reserved
\* ones included, wherever erasures left their tombstones.
THEOREM LookupIsTheMapping ==
  ASSUME NEW t, IndexSound(t), NEW id \in Id \cup Reserved
  PROVE  SlotFor(t, id) = IF id \in Keyed(t) THEN Mapping(t)[id] ELSE Nil
<1>1. CASE id \in Reserved
  BY <1>1, ReservedIsNoId DEF SlotFor, Keyed
<1>2. CASE id \in Id
  <2> DEFINE i == Probe(t, id, {id, EmptyKey})
  <2>1. id \notin Reserved /\ id # EmptyKey
    BY <1>2, ReservedIsNoId
  <2>2. /\ i \in 0 .. t.mask
        /\ id \in Keyed(t) => t.keys[i] = id
        /\ id \notin Keyed(t) => t.keys[i] = EmptyKey
    BY <1>2, ProbeFinds
  <2>3. SlotFor(t, id) = IF i \in DOMAIN t.keys /\ t.keys[i] = id THEN t.vals[i] ELSE Nil
    BY <2>1 DEF SlotFor
  <2> HIDE DEF i
  <2>4. i \in DOMAIN t.keys
    BY <2>2, IndexTypes DEF IndexSound
  <2>5. CASE id \in Keyed(t)
    <3>1. Mapping(t)[t.keys[i]] = t.vals[i]
      BY <1>2, <2>2, <2>5, MappingAt
    <3> QED BY <2>2, <2>3, <2>4, <2>5, <3>1
  <2>6. CASE id \notin Keyed(t)
    BY <2>1, <2>2, <2>3, <2>6
  <2> QED BY <2>5, <2>6
<1> QED BY <1>1, <1>2

\* The empty table is sound and holds nothing.
THEOREM EmptyIndexIsSound ==
  ASSUME NEW cap \in Nat \ {0}
  PROVE  IndexSound(EmptyIndex(cap)) /\ Keyed(EmptyIndex(cap)) = {}
<1> DEFINE t == EmptyIndex(cap)
<1>1. /\ t.mask = cap - 1 /\ t.mask \in Nat /\ t.count = 0 /\ t.tombs = 0
      /\ \A i \in 0 .. t.mask : t.keys[i] = EmptyKey
  BY DEF EmptyIndex
<1>2. IndexShaped(t)
  <2>1. t = [keys |-> [i \in 0 .. t.mask |-> EmptyKey], vals |-> [i \in 0 .. t.mask |-> Nil],
             mask |-> t.mask, count |-> 0, tombs |-> 0]
    BY DEF EmptyIndex
  <2>2. EmptyKey \in Id \cup Reserved /\ Nil \in Nat
    BY DEF Reserved, Nil
  <2> HIDE DEF t
  <2> QED BY <1>1, <2>1, <2>2 DEF IndexShaped
<1> HIDE DEF t
<1>3. Live(t) = {} /\ Dead(t) = {} /\ Keyed(t) = {}
  BY <1>1, ReservedIsNoId DEF Live, Dead, Keyed, EmptyKey, Tombstone
<1>4. Counted(t)
  BY <1>1, <1>3, FS_EmptySet DEF Counted
<1>5. ChainsUnbroken(t)
  <2>1. \A id \in Id, d \in 0 .. t.mask : Home(t, id, d) \in 0 .. t.mask
    BY <1>1, Homes
  <2> QED BY <1>1, <2>1, ReservedIsNoId DEF ChainsUnbroken
<1>6. OncePerKey(t) /\ ProbesEnd(t)
  BY <1>1, <1>3 DEF OncePerKey, ProbesEnd
<1> QED BY <1>2, <1>3, <1>4, <1>5, <1>6 DEF IndexSound, t

-----------------------------------------------------------------------------
(***************************************************************************)
(* Erasing and inserting.                                                  *)
(***************************************************************************)

\* One slot of the table written, and the two counters.
Written(t, i, key, slot, count, tombs) ==
  [t EXCEPT !.keys[i] = key, !.vals[i] = slot, !.count = count, !.tombs = tombs]

\* What that leaves behind.
IsWritten(new, t, i, key, slot, count, tombs) ==
  /\ IndexShaped(new)
  /\ new.mask = t.mask /\ new.count = count /\ new.tombs = tombs
  /\ \A j \in 0 .. t.mask : new.keys[j] = IF j = i THEN key ELSE t.keys[j]
  /\ \A j \in 0 .. t.mask : new.vals[j] = IF j = i THEN slot ELSE t.vals[j]

LEMMA WrittenTable ==
  ASSUME NEW t, IndexShaped(t), NEW i \in 0 .. t.mask, NEW key \in Id \cup Reserved,
         NEW slot \in Nat, NEW count \in Nat, NEW tombs \in Nat
  PROVE  IsWritten(Written(t, i, key, slot, count, tombs), t, i, key, slot, count, tombs)
<1> DEFINE keys == [t.keys EXCEPT ![i] = key]
           vals == [t.vals EXCEPT ![i] = slot]
           new == Written(t, i, key, slot, count, tombs)
<1>1. /\ keys \in [0 .. t.mask -> Id \cup Reserved]
      /\ vals \in [0 .. t.mask -> Nat]
      /\ \A j \in 0 .. t.mask : /\ keys[j] = IF j = i THEN key ELSE t.keys[j]
                                /\ vals[j] = IF j = i THEN slot ELSE t.vals[j]
  <2>1. t.keys \in [0 .. t.mask -> Id \cup Reserved] /\ t.vals \in [0 .. t.mask -> Nat]
    BY DEF IndexShaped
  <2> QED BY <2>1
<1>2. new = [t EXCEPT !.keys = keys, !.vals = vals, !.count = count, !.tombs = tombs]
  <2>1. [t EXCEPT !.keys = keys].vals = t.vals
    <3> HIDE DEF keys
    <3> QED BY DEF IndexShaped
  <2> QED BY <2>1, Zenon DEF Written
<1> HIDE DEF keys, vals, new
<1>3. new = [keys |-> keys, vals |-> vals, mask |-> t.mask, count |-> count, tombs |-> tombs]
  BY <1>2 DEF IndexShaped
<1>4. t.mask \in Nat
  BY IndexTypes
<1>5. /\ new.mask = t.mask /\ new.count = count /\ new.tombs = tombs
      /\ new.keys = keys /\ new.vals = vals
  BY <1>3
<1>6. IndexShaped(new)
  BY <1>1, <1>3, <1>4, <1>5 DEF IndexShaped
<1> QED BY <1>1, <1>5, <1>6 DEF new, IsWritten

\* The live and the dead slots are finitely many.
LEMMA TableFinite ==
  ASSUME NEW t, IndexShaped(t)
  PROVE  /\ IsFiniteSet(Live(t)) /\ IsFiniteSet(Dead(t))
         /\ IsFiniteSet(0 .. t.mask) /\ Cardinality(0 .. t.mask) = Capacity(t)
<1>1. t.mask \in Nat
  BY IndexTypes
<1>2. IsFiniteSet(0 .. t.mask) /\ Cardinality(0 .. t.mask) = t.mask + 1
  <2> DEFINE k == t.mask
  <2>1. 0 \in Int /\ k \in Int /\ k \in Nat
    BY <1>1
  <2> HIDE DEF k
  <2>2. /\ IsFiniteSet(0 .. k)
        /\ Cardinality(0 .. k) = IF 0 > k THEN 0 ELSE k - 0 + 1
    BY ONLY <2>1, FS_Interval
  <2>3. Cardinality(0 .. k) = k + 1
    BY <2>1, <2>2
  <2> QED BY <2>2, <2>3 DEF k
<1>3. Live(t) \subseteq 0 .. t.mask /\ Dead(t) \subseteq 0 .. t.mask
  BY DEF Live, Dead
<1> QED BY <1>2, <1>3, FS_Subset DEF Capacity

\* id_erase(): the id is gone from the mapping and every other entry stays as
\* it was; the tombstone keeps the chains that ran over it unbroken.
THEOREM EraseRemovesOne ==
  ASSUME NEW t, IndexSound(t), NEW id \in Id
  PROVE  LET new == IdErase(t, id)
         IN /\ IndexSound(new)
            /\ Keyed(new) = Keyed(t) \ {id}
            /\ \A other \in Keyed(new) : Mapping(new)[other] = Mapping(t)[other]
<1> DEFINE i == Probe(t, id, {id, EmptyKey})
           new == IdErase(t, id)
<1>1. /\ i \in 0 .. t.mask
      /\ id \in Keyed(t) => t.keys[i] = id
      /\ id \notin Keyed(t) => t.keys[i] = EmptyKey
  BY ProbeFinds
<1>2. new = IF t.keys[i] # id THEN t
            ELSE Written(t, i, Tombstone, Nil, t.count - 1, t.tombs + 1)
  BY DEF IdErase, Written
<1> HIDE DEF i, new
<1>3. IndexShaped(t) /\ id # EmptyKey /\ id # Tombstone
  BY ReservedIsNoId DEF IndexSound
<1>4. CASE id \notin Keyed(t)
  <2>1. new = t
    BY <1>1, <1>2, <1>3, <1>4
  <2> QED BY <1>4, <2>1 DEF new
<1>5. CASE id \in Keyed(t)
  <2>1. t.keys[i] = id /\ new = Written(t, i, Tombstone, Nil, t.count - 1, t.tombs + 1)
    BY <1>1, <1>2, <1>5
  <2>2. /\ t.mask \in Nat /\ t.count \in Nat /\ t.tombs \in Nat
        /\ t.count = Cardinality(Live(t)) /\ t.tombs = Cardinality(Dead(t))
        /\ IsFiniteSet(Live(t)) /\ IsFiniteSet(Dead(t))
    BY <1>3, IndexTypes, TableFinite DEF IndexSound, Counted
  <2>3. i \in Live(t) /\ i \notin Dead(t)
    BY <1>1, <1>3, <2>1 DEF Live, Dead
  <2>4. Cardinality(Live(t) \ {i}) = t.count - 1 /\ t.count - 1 \in Nat
    <3>1. IsFiniteSet(Live(t) \ {i}) /\ Cardinality(Live(t) \ {i}) = Cardinality(Live(t)) - 1
      BY <2>2, <2>3, FS_RemoveElement
    <3> QED BY <2>2, <3>1, FS_CardinalityType
  <2>5. Cardinality(Dead(t) \cup {i}) = t.tombs + 1
    BY <2>2, <2>3, FS_AddElement
  <2>6. IsWritten(new, t, i, Tombstone, Nil, t.count - 1, t.tombs + 1)
    <3>1. Tombstone \in Id \cup Reserved /\ Nil \in Nat /\ t.tombs + 1 \in Nat
      BY <2>2 DEF Reserved, Nil
    <3> QED BY <1>1, <1>3, <2>1, <2>4, <3>1, WrittenTable
  <2>a. /\ IndexShaped(new)
        /\ new.mask = t.mask /\ new.count = t.count - 1 /\ new.tombs = t.tombs + 1
        /\ \A j \in 0 .. t.mask : new.keys[j] = IF j = i THEN Tombstone ELSE t.keys[j]
        /\ \A j \in 0 .. t.mask : new.vals[j] = IF j = i THEN Nil ELSE t.vals[j]
    BY <2>6 DEF IsWritten
  <2>7. Live(new) = Live(t) \ {i} /\ Dead(new) = Dead(t) \cup {i}
    BY <1>1, <2>a, ReservedIsNoId DEF Live, Dead
  <2>8. Counted(new)
    BY <2>4, <2>5, <2>a, <2>7 DEF Counted
  <2>9. OncePerKey(new)
    BY <2>a, <2>7 DEF OncePerKey, IndexSound, Live
  <2>10. ChainsUnbroken(new)
    <3>1. ASSUME NEW x \in Id, NEW d \in 0 .. t.mask, new.keys[Home(new, x, d)] = x,
                 NEW k \in 0 .. d - 1
          PROVE  new.keys[Home(new, x, k)] # EmptyKey
      <4>1. /\ Home(new, x, d) = Home(t, x, d) /\ Home(new, x, k) = Home(t, x, k)
        BY <2>a DEF Home, Capacity
      <4>2. k \in 0 .. t.mask /\ Home(t, x, d) \in 0 .. t.mask /\ Home(t, x, k) \in 0 .. t.mask
        <5>1. k \in 0 .. t.mask
          BY <2>2
        <5> QED BY <2>2, <5>1, Homes
      <4>3. t.keys[Home(t, x, d)] = x
        BY <2>a, <3>1, <4>1, <4>2, ReservedIsNoId
      <4>4. t.keys[Home(t, x, k)] # EmptyKey
        BY <4>3 DEF IndexSound, ChainsUnbroken
      <4> QED BY <2>a, <4>1, <4>2, <4>4 DEF EmptyKey, Tombstone
    <3> QED BY <2>a, <3>1 DEF ChainsUnbroken
  <2>11. ProbesEnd(new)
    <3>1. PICK j \in 0 .. t.mask : t.keys[j] = EmptyKey
      BY DEF IndexSound, ProbesEnd
    <3> QED BY <1>3, <2>1, <2>a, <3>1 DEF ProbesEnd
  <2>12. IndexSound(new)
    BY <2>a, <2>8, <2>9, <2>10, <2>11 DEF IndexSound
  <2>13. Keyed(new) = Keyed(t) \ {id}
    <3>1. ASSUME NEW x \in Id PROVE x \in Keyed(new) <=> x \in Keyed(t) /\ x # id
      <4>1. x # Tombstone
        BY ReservedIsNoId
      <4>2. ASSUME x \in Keyed(t), x # id PROVE x \in Keyed(new)
        BY <2>1, <2>a, <4>2 DEF Keyed
      <4>3. ASSUME x \in Keyed(new) PROVE x \in Keyed(t) /\ x # id
        <5>1. PICK j \in 0 .. t.mask : new.keys[j] = x
          BY <2>a, <4>3 DEF Keyed
        <5>2. j # i /\ t.keys[j] = x
          BY <2>a, <4>1, <5>1
        <5>3. x # id
          BY <1>1, <2>1, <2>3, <5>2 DEF IndexSound, OncePerKey, Live
        <5> QED BY <5>2, <5>3 DEF Keyed
      <4> QED BY <4>2, <4>3
    <3> QED BY <3>1 DEF Keyed
  <2>14. ASSUME NEW x \in Keyed(new) PROVE Mapping(new)[x] = Mapping(t)[x]
    <3>1. x \in Id /\ x # Tombstone
      BY ReservedIsNoId DEF Keyed
    <3>2. PICK j \in 0 .. t.mask : new.keys[j] = x
      BY <2>a DEF Keyed
    <3>3. t.keys[j] = x /\ new.vals[j] = t.vals[j]
      BY <2>a, <3>1, <3>2
    <3>4. Mapping(new)[x] = new.vals[j]
      BY <2>a, <2>12, <3>1, <3>2, MappingAt
    <3>5. Mapping(t)[x] = t.vals[j]
      BY <3>1, <3>3, MappingAt
    <3> QED BY <3>3, <3>4, <3>5
  <2> QED BY <2>12, <2>13, <2>14 DEF new
<1> QED BY <1>4, <1>5

\* The index new holds one id more than t.
OneMore(new, t, id, slot) ==
  /\ IndexSound(new) /\ new.mask = t.mask
  /\ Keyed(new) = Keyed(t) \cup {id}
  /\ Mapping(new)[id] = slot
  /\ \A other \in Keyed(t) : Mapping(new)[other] = Mapping(t)[other]

\* A new id put where its probe stops, while a slot stays empty.
LEMMA PutAddsOne ==
  ASSUME NEW t, IndexSound(t), NEW id \in Id, id \notin Keyed(t), NEW slot \in Nat,
         NEW stops \in SUBSET (Reserved \cup {id}), EmptyKey \in stops,
         t.count + t.tombs + 1 < Capacity(t),
         NEW i, i = Probe(t, id, stops),
         NEW tombs, t.keys[i] = Tombstone => tombs = t.tombs - 1,
         t.keys[i] # Tombstone => tombs = t.tombs,
         NEW new, new = Written(t, i, id, slot, t.count + 1, tombs)
  PROVE  OneMore(new, t, id, slot) /\ new.count = t.count + 1 /\ new.tombs = tombs
<1>1. PICK d \in 0 .. t.mask : /\ i = Home(t, id, d)
                              /\ t.keys[i] \in stops
                              /\ \A k \in 0 .. d - 1 : t.keys[Home(t, id, k)] \notin stops
  BY ProbeEnds
<1>2. /\ IndexShaped(t) /\ t.mask \in Nat /\ t.count \in Nat /\ t.tombs \in Nat
      /\ t.count = Cardinality(Live(t)) /\ t.tombs = Cardinality(Dead(t))
      /\ IsFiniteSet(Live(t)) /\ IsFiniteSet(Dead(t))
  BY IndexTypes, TableFinite DEF IndexSound, Counted
<1>3. i \in 0 .. t.mask
  BY <1>1, <1>2, Homes
<1>4. /\ t.keys[i] \in Reserved /\ t.keys[i] \notin Id
      /\ t.keys[i] = EmptyKey \/ t.keys[i] = Tombstone
      /\ EmptyKey # Tombstone /\ id # EmptyKey /\ id # Tombstone
  <2>1. t.keys[i] # id
    BY <1>3 DEF Keyed
  <2>2. t.keys[i] \in Reserved
    BY <1>1, <2>1
  <2>3. EmptyKey # Tombstone
    BY DEF EmptyKey, Tombstone
  <2> QED BY <2>2, <2>3, ReservedIsNoId DEF Reserved
<1>5. i \notin Live(t) /\ (i \in Dead(t) <=> t.keys[i] = Tombstone)
  BY <1>3, <1>4 DEF Live, Dead
<1>6. /\ Cardinality(Live(t) \cup {i}) = t.count + 1
      /\ Cardinality(Dead(t) \ {i}) = tombs /\ tombs \in Nat /\ tombs <= t.tombs
  <2>1. Cardinality(Live(t) \cup {i}) = t.count + 1
    <3> DEFINE A == Live(t)
    <3>1. IsFiniteSet(A) /\ i \notin A /\ Cardinality(A) = t.count
      BY <1>2, <1>5
    <3> HIDE DEF A
    <3>2. Cardinality(A \cup {i}) = Cardinality(A) + 1
      BY ONLY <3>1, FS_AddElement
    <3> QED BY <3>1, <3>2 DEF A
  <2>2. CASE t.keys[i] = Tombstone
    <3>1. IsFiniteSet(Dead(t) \ {i}) /\ Cardinality(Dead(t) \ {i}) = t.tombs - 1
      BY <1>2, <1>5, <2>2, FS_RemoveElement
    <3>2. Cardinality(Dead(t) \ {i}) \in Nat
      BY <3>1, FS_CardinalityType
    <3> QED BY <1>2, <2>1, <2>2, <3>1, <3>2
  <2>3. CASE t.keys[i] # Tombstone
    <3>1. Dead(t) \ {i} = Dead(t)
      BY <1>5, <2>3
    <3>2. Cardinality(Dead(t) \ {i}) = t.tombs
      BY <1>2, <3>1
    <3>3. tombs = t.tombs
      BY <2>3
    <3> QED BY <1>2, <2>1, <3>2, <3>3
  <2> QED BY <2>2, <2>3
<1>7. IsWritten(new, t, i, id, slot, t.count + 1, tombs)
  <2>1. t.count + 1 \in Nat /\ id \in Id \cup Reserved
    BY <1>2
  <2> QED BY <1>2, <1>3, <1>6, <2>1, WrittenTable
<1>8. /\ IndexShaped(new)
      /\ new.mask = t.mask /\ new.count = t.count + 1 /\ new.tombs = tombs
      /\ \A j \in 0 .. t.mask : new.keys[j] = IF j = i THEN id ELSE t.keys[j]
      /\ \A j \in 0 .. t.mask : new.vals[j] = IF j = i THEN slot ELSE t.vals[j]
  BY <1>7 DEF IsWritten
<1>9. Live(new) = Live(t) \cup {i} /\ Dead(new) = Dead(t) \ {i}
  BY <1>3, <1>4, <1>8 DEF Live, Dead
<1>10. Counted(new)
  BY <1>6, <1>8, <1>9 DEF Counted
<1>11. OncePerKey(new)
  <2>1. \A j \in Live(t) : j \in 0 .. t.mask /\ t.keys[j] # id /\ new.keys[j] = t.keys[j]
    BY <1>5, <1>8 DEF Live, Keyed
  <2>2. \A j, k \in Live(t) : t.keys[j] = t.keys[k] => j = k
    BY DEF IndexSound, OncePerKey
  <2>3. new.keys[i] = id
    BY <1>3, <1>8
  <2> QED BY <1>9, <2>1, <2>2, <2>3 DEF OncePerKey
<1>12. ChainsUnbroken(new)
  <2>1. ASSUME NEW x \in Id, NEW e \in 0 .. t.mask, new.keys[Home(new, x, e)] = x,
               NEW k \in 0 .. e - 1
        PROVE  new.keys[Home(new, x, k)] # EmptyKey
    <3>1. Home(new, x, e) = Home(t, x, e) /\ Home(new, x, k) = Home(t, x, k)
      BY <1>8 DEF Home, Capacity
    <3>2. k \in 0 .. t.mask /\ Home(t, x, e) \in 0 .. t.mask /\ Home(t, x, k) \in 0 .. t.mask
      <4>1. k \in 0 .. t.mask
        BY <1>2
      <4> QED BY <1>2, <4>1, Homes
    <3>3. t.keys[Home(t, x, k)] # EmptyKey \/ Home(t, x, k) = i
      <4>1. CASE x = id
        <5>1. Home(t, x, e) = i
          BY <1>8, <2>1, <3>1, <3>2, <4>1 DEF Keyed
        <5>2. e = d
          BY <1>1, <1>2, <4>1, <5>1, Homes
        <5> QED BY <1>1, <4>1, <5>2
      <4>2. CASE x # id
        <5>1. t.keys[Home(t, x, e)] = x
          BY <1>8, <2>1, <3>1, <3>2, <4>2
        <5> QED BY <5>1 DEF IndexSound, ChainsUnbroken
      <4> QED BY <4>1, <4>2
    <3> QED BY <1>4, <1>8, <3>1, <3>2, <3>3
  <2> QED BY <1>8, <2>1 DEF ChainsUnbroken
<1>13. ProbesEnd(new)
  <2> SUFFICES ASSUME \A j \in 0 .. t.mask : new.keys[j] # EmptyKey
               PROVE  FALSE
    BY <1>8 DEF ProbesEnd
  <2>1. 0 .. t.mask = Live(new) \cup Dead(new)
    <3>1. \A j \in 0 .. t.mask : new.keys[j] \in Id \cup Reserved
      BY <1>8, IndexTypes
    <3> QED BY <1>8, <3>1 DEF Live, Dead, Reserved
  <2> DEFINE A == Live(new)
             B == Dead(new)
  <2>2. IsFiniteSet(A) /\ IsFiniteSet(B) /\ Cardinality(A \cup B) = Capacity(t)
    BY <1>2, <1>8, <2>1, TableFinite
  <2>3. Cardinality(A) = t.count + 1 /\ Cardinality(B) = tombs
    BY <1>6, <1>9
  <2> HIDE DEF A, B
  <2>4. Cardinality(A \cup B) = Cardinality(A) + Cardinality(B) - Cardinality(A \cap B)
    BY ONLY <2>2, FS_Union
  <2>5. Cardinality(A \cap B) \in Nat
    <3>1. IsFiniteSet(A \cap B)
      BY <2>2, FS_Subset
    <3> QED BY <3>1, FS_CardinalityType
  <2>6. Capacity(t) \in Nat
    BY <1>2, IndexTypes
  <2> QED BY <1>2, <1>6, <2>2, <2>3, <2>4, <2>5, <2>6
<1>14. IndexSound(new)
  BY <1>8, <1>10, <1>11, <1>12, <1>13 DEF IndexSound
<1>15. Keyed(new) = Keyed(t) \cup {id}
  <2>1. ASSUME NEW x \in Id PROVE x \in Keyed(new) <=> x \in Keyed(t) \/ x = id
    <3>1. new.keys[i] = id
      BY <1>3, <1>8
    <3>2. ASSUME x \in Keyed(t) PROVE x \in Keyed(new)
      <4>1. PICK j \in 0 .. t.mask : t.keys[j] = x
        BY <3>2 DEF Keyed
      <4>2. new.keys[j] = x
        BY <1>4, <1>8, <4>1
      <4> QED BY <1>8, <4>2 DEF Keyed
    <3>3. ASSUME x \in Keyed(new), x # id PROVE x \in Keyed(t)
      <4>1. PICK j \in 0 .. t.mask : new.keys[j] = x
        BY <1>8, <3>3 DEF Keyed
      <4>2. t.keys[j] = x
        BY <1>8, <3>3, <4>1
      <4> QED BY <4>2 DEF Keyed
    <3> QED BY <1>3, <1>8, <3>1, <3>2, <3>3 DEF Keyed
  <2> QED BY <2>1 DEF Keyed
<1>16. Mapping(new)[id] = slot
  <2>1. i \in 0 .. new.mask /\ new.keys[i] = id /\ new.vals[i] = slot
    BY <1>3, <1>8
  <2> QED BY <1>14, <2>1, MappingAt
<1>17. ASSUME NEW x \in Keyed(t) PROVE Mapping(new)[x] = Mapping(t)[x]
  <2>1. PICK j \in 0 .. t.mask : t.keys[j] = x
    BY DEF Keyed
  <2>2. x \in Id
    BY DEF Keyed
  <2>3. j # i /\ new.keys[j] = x /\ new.vals[j] = t.vals[j]
    BY <1>4, <1>8, <2>1, <2>2
  <2>4. Mapping(t)[x] = t.vals[j]
    BY <2>1, <2>2, MappingAt
  <2>5. Mapping(new)[x] = new.vals[j]
    BY <1>8, <1>14, <2>2, <2>3, MappingAt
  <2> QED BY <2>3, <2>4, <2>5
<1> QED BY <1>8, <1>14, <1>15, <1>16, <1>17 DEF OneMore

-----------------------------------------------------------------------------
(***************************************************************************)
(* Growing.                                                                *)
(***************************************************************************)

\* The rounds of the doubling loop, one from the other.
LEMMA RoundsDefined ==
  ASSUME NEW cap \in Nat \ {0}, NEW n \in Nat
  PROVE  \A k \in 0 .. n :
           Rounds(cap, n)[k] = IF k = 0 THEN cap
                               ELSE IF Rounds(cap, n)[k - 1] < n THEN 2 * Rounds(cap, n)[k - 1]
                               ELSE Rounds(cap, n)[k - 1]
<1> DEFINE next(x) == IF x < n THEN 2 * x ELSE x
           run(m, g) == g = [k \in 0 .. m |-> IF k = 0 THEN cap ELSE next(g[k - 1])]
           bad == {m \in Nat : ~\E g : run(m, g)}
<1> HIDE DEF next
<1>1. bad = {}
  <2> SUFFICES ASSUME bad # {} PROVE FALSE
    OBVIOUS
  <2>1. PICK m \in bad : \A o \in bad : m <= o
    <3>1. bad \in SUBSET Nat
      OBVIOUS
    <3> HIDE DEF bad
    <3> QED BY <3>1, Least
  <2>2. m # 0
    <3>1. ASSUME m = 0 PROVE run(m, [k \in 0 .. 0 |-> cap])
      BY <3>1
    <3> QED BY <3>1
  <2>3. PICK g : run(m - 1, g)
    <3>1. m - 1 \in Nat /\ ~(m <= m - 1)
      BY <2>2
    <3> QED BY <2>1, <3>1
  <2> DEFINE h == [k \in 0 .. m |-> IF k = m THEN next(g[m - 1]) ELSE g[k]]
  <2>4. run(m, h)
    <3>1. ASSUME NEW k \in 0 .. m PROVE h[k] = IF k = 0 THEN cap ELSE next(h[k - 1])
      <4>1. CASE k = m
        <5>1. m - 1 \in 0 .. m /\ m - 1 # m
          BY <2>2
        <5> QED BY <2>2, <4>1, <5>1
      <4>2. CASE k # m
        <5>1. k \in 0 .. m - 1 /\ (k # 0 => k - 1 \in 0 .. m /\ k - 1 # m)
          BY <4>2
        <5>2. g[k] = IF k = 0 THEN cap ELSE next(g[k - 1])
          BY <2>3, <5>1
        <5> QED BY <4>2, <5>1, <5>2
      <4> QED BY <4>1, <4>2
    <3>2. h = [k \in 0 .. m |-> h[k]]
      OBVIOUS
    <3> HIDE DEF h
    <3> QED BY <3>1, <3>2
  <2> QED BY <2>1, <2>4
<1>2. \E g : run(n, g)
  BY <1>1
<1> DEFINE size == Rounds(cap, n)
<1>3. run(n, size)
  <2>1. Rounds(cap, n) = CHOOSE g : run(n, g)
    BY DEF Rounds, next
  <2> HIDE DEF run
  <2> QED BY <1>2, <2>1
<1>4. \A k \in 0 .. n : size[k] = IF k = 0 THEN cap ELSE next(size[k - 1])
  <2> HIDE DEF size
  <2> QED BY <1>3
<1> QED BY <1>4 DEF next

\* The loop ends with as many slots as asked for.
LEMMA RoomIsEnough ==
  ASSUME NEW cap \in Nat \ {0}, NEW n \in Nat
  PROVE  RoomFor(cap, n) \in Nat \ {0} /\ RoomFor(cap, n) >= n
<1> DEFINE size == Rounds(cap, n)
           fine(k) == size[k] \in Nat \ {0} /\ (size[k] >= n \/ size[k] > k)
           bad == {k \in 0 .. n : ~fine(k)}
<1>1. \A k \in 0 .. n : size[k] = IF k = 0 THEN cap
                                  ELSE IF size[k - 1] < n THEN 2 * size[k - 1] ELSE size[k - 1]
  BY RoundsDefined
<1> HIDE DEF size
<1>2. bad = {}
  <2> SUFFICES ASSUME bad # {} PROVE FALSE
    OBVIOUS
  <2>1. PICK k \in bad : \A j \in bad : k <= j
    <3>1. bad \in SUBSET Nat
      OBVIOUS
    <3> HIDE DEF bad
    <3> QED BY <3>1, Least
  <2>2. CASE k = 0
    BY <1>1, <2>1, <2>2
  <2>3. CASE k # 0
    <3>1. k - 1 \in 0 .. n /\ ~(k <= k - 1) /\ k \in Nat
      BY <2>3
    <3>2. fine(k - 1)
      BY <2>1, <3>1
    <3>3. size[k] = IF size[k - 1] < n THEN 2 * size[k - 1] ELSE size[k - 1]
      BY <1>1, <2>3
    <3> QED BY <2>1, <3>1, <3>2, <3>3
  <2> QED BY <2>2, <2>3
<1>3. n \in 0 .. n /\ fine(n)
  BY <1>2
<1> QED BY <1>3 DEF RoomFor, size

\* The tables of a rehash, one from the other.
LEMMA RehashDefined ==
  ASSUME NEW t, t.mask \in Nat, NEW cap
  PROVE  /\ Rehash(t, cap)[0] = EmptyIndex(cap)
         /\ \A j \in 0 .. t.mask : Rehash(t, cap)[j + 1] = Reinsert(Rehash(t, cap)[j], t, j)
<1> DEFINE next(x, j) == Reinsert(x, t, j)
           first == EmptyIndex(cap)
           n == Capacity(t)
           run(m, g) == g = [k \in 0 .. m |-> IF k = 0 THEN first ELSE next(g[k - 1], k - 1)]
           bad == {m \in Nat : ~\E g : run(m, g)}
<1>0. n \in Nat /\ n = t.mask + 1
  BY DEF Capacity
<1> HIDE DEF next, first, n
<1>1. bad = {}
  <2> SUFFICES ASSUME bad # {} PROVE FALSE
    OBVIOUS
  <2>1. PICK m \in bad : \A o \in bad : m <= o
    <3>1. bad \in SUBSET Nat
      OBVIOUS
    <3> HIDE DEF bad
    <3> QED BY <3>1, Least
  <2>2. m # 0
    <3>1. ASSUME m = 0 PROVE run(m, [k \in 0 .. 0 |-> first])
      BY <3>1
    <3> QED BY <3>1
  <2>3. PICK g : run(m - 1, g)
    <3>1. m - 1 \in Nat /\ ~(m <= m - 1)
      BY <2>2
    <3> QED BY <2>1, <3>1
  <2> DEFINE h == [k \in 0 .. m |-> IF k = m THEN next(g[m - 1], m - 1) ELSE g[k]]
  <2>4. run(m, h)
    <3>1. ASSUME NEW k \in 0 .. m PROVE h[k] = IF k = 0 THEN first ELSE next(h[k - 1], k - 1)
      <4>1. CASE k = m
        <5>1. m - 1 \in 0 .. m /\ m - 1 # m
          BY <2>2
        <5> QED BY <2>2, <4>1, <5>1
      <4>2. CASE k # m
        <5>1. k \in 0 .. m - 1 /\ (k # 0 => k - 1 \in 0 .. m /\ k - 1 # m)
          BY <4>2
        <5>2. g[k] = IF k = 0 THEN first ELSE next(g[k - 1], k - 1)
          BY <2>3, <5>1
        <5> QED BY <4>2, <5>1, <5>2
      <4> QED BY <4>1, <4>2
    <3>2. h = [k \in 0 .. m |-> h[k]]
      OBVIOUS
    <3> HIDE DEF h
    <3> QED BY <3>1, <3>2
  <2> QED BY <2>1, <2>4
<1>2. \E g : run(n, g)
  BY <1>0, <1>1
<1> DEFINE table == Rehash(t, cap)
<1>3. run(n, table)
  <2>1. Rehash(t, cap) = CHOOSE g : run(n, g)
    BY DEF Rehash, next, first, n
  <2> HIDE DEF run
  <2> QED BY <1>2, <2>1
<1>4. \A k \in 0 .. n : table[k] = IF k = 0 THEN first ELSE next(table[k - 1], k - 1)
  <2> HIDE DEF table
  <2> QED BY <1>3
<1> HIDE DEF table
<1>5. table[0] = first
  BY <1>0, <1>4
<1>6. ASSUME NEW j \in 0 .. t.mask PROVE table[j + 1] = next(table[j], j)
  <2>1. j + 1 \in 0 .. n /\ j + 1 # 0 /\ (j + 1) - 1 = j
    BY <1>0
  <2> QED BY <1>4, <2>1
<1> QED BY <1>5, <1>6 DEF next, first, table

\* The slots with a live key among the first j.
LiveBelow(t, j) == {i \in Live(t) : i < j}

\* A table into which the first j slots of another have been moved.
Moved(new, t, j, cap) ==
  /\ IndexSound(new)
  /\ Capacity(new) = cap /\ new.tombs = 0
  /\ new.count = Cardinality(LiveBelow(t, j))
  /\ Keyed(new) = {t.keys[i] : i \in LiveBelow(t, j)}
  /\ \A x \in Keyed(new) : Mapping(new)[x] = Mapping(t)[x]

\* One more slot moved.
LEMMA MovesOneMore ==
  ASSUME NEW t, IndexSound(t), NEW cap, t.count + 1 < cap, NEW j \in 0 .. t.mask,
         NEW new, Moved(new, t, j, cap)
  PROVE  Moved(Reinsert(new, t, j), t, j + 1, cap)
<1>1. /\ IndexShaped(t) /\ t.mask \in Nat /\ t.count \in Nat
      /\ t.count = Cardinality(Live(t)) /\ IsFiniteSet(Live(t))
      /\ t.keys[j] \in Id \cup Reserved /\ t.vals[j] \in Nat
  BY IndexTypes, TableFinite DEF IndexSound, Counted
<1>2. CASE t.keys[j] \in Reserved
  <2>1. j \notin Live(t)
    BY <1>2, ReservedIsNoId DEF Live
  <2>2. LiveBelow(t, j + 1) = LiveBelow(t, j)
    BY <2>1 DEF LiveBelow, Live
  <2>3. Reinsert(new, t, j) = new
    BY <1>2 DEF Reinsert
  <2> QED BY <2>2, <2>3 DEF Moved
<1>3. CASE t.keys[j] \notin Reserved
  <2> DEFINE id == t.keys[j]
             i == Probe(new, id, {EmptyKey})
             old == LiveBelow(t, j)
             more == LiveBelow(t, j + 1)
             after == Reinsert(new, t, j)
  <2>1. id \in Id /\ j \in Live(t)
    BY <1>1, <1>3 DEF Live
  <2>2. j \notin old /\ more = old \cup {j} /\ IsFiniteSet(old) /\ old \subseteq Live(t)
    <3>1. j \notin old /\ more = old \cup {j}
      BY <1>1, <2>1 DEF LiveBelow, Live
    <3>2. old \subseteq Live(t)
      BY DEF LiveBelow
    <3> QED BY <1>1, <3>1, <3>2, FS_Subset
  <2> HIDE DEF old, more
  <2>3. /\ Cardinality(more) = Cardinality(old) + 1
        /\ Cardinality(old) \in Nat /\ Cardinality(old) <= t.count
    BY <1>1, <2>2, FS_AddElement, FS_CardinalityType, FS_Subset
  <2>4. /\ IndexSound(new) /\ Capacity(new) = cap /\ new.tombs = 0
        /\ new.count = Cardinality(old) /\ Keyed(new) = {t.keys[k] : k \in old}
        /\ \A x \in Keyed(new) : Mapping(new)[x] = Mapping(t)[x]
    BY DEF Moved, old
  <2>5. id \notin Keyed(new)
    BY <2>1, <2>2, <2>4 DEF IndexSound, OncePerKey
  <2>6. /\ new.mask \in Nat /\ new.count \in Nat /\ Capacity(new) \in Nat
        /\ new.count + new.tombs + 1 < Capacity(new)
    <3>1. /\ new.mask \in Nat /\ new.count \in Nat /\ Capacity(new) \in Nat
      BY <2>4, IndexTypes DEF IndexSound
    <3> QED BY <1>1, <2>3, <2>4, <3>1
  <2>7. t.keys[j] # EmptyKey /\ EmptyKey # Tombstone
    BY <1>3 DEF Reserved, EmptyKey, Tombstone
  <2>8. i \in 0 .. new.mask /\ new.keys[i] = EmptyKey
    <3> DEFINE stops == {EmptyKey}
    <3>1. EmptyKey \in stops /\ i = Probe(new, id, stops)
      OBVIOUS
    <3> HIDE DEF i, id, stops
    <3>2. PICK d \in 0 .. new.mask :
             i = Home(new, id, d) /\ new.keys[Home(new, id, d)] \in stops
      BY <2>1, <2>4, <3>1, ProbeEnds
    <3>3. Home(new, id, d) \in 0 .. new.mask
      BY <2>1, <2>6, Homes
    <3> QED BY <3>2, <3>3 DEF stops
  <2>9. after = Written(new, i, id, t.vals[j], new.count + 1, new.tombs)
    <3>1. after = [new EXCEPT !.keys[i] = id, !.vals[i] = t.vals[j], !.count = new.count + 1]
      BY <1>3 DEF Reinsert
    <3>2. new = [new EXCEPT !.tombs = new.tombs]
      BY <2>4 DEF IndexSound, IndexShaped
    <3> QED BY <2>4, <3>1, <3>2 DEF Written, IndexSound, IndexShaped
  <2> HIDE DEF after
  <2>10. OneMore(after, new, id, t.vals[j]) /\ after.count = new.count + 1
         /\ after.tombs = new.tombs
    <3>1. {EmptyKey} \in SUBSET (Reserved \cup {id}) /\ EmptyKey \in {EmptyKey}
      BY DEF Reserved
    <3>2. new.keys[i] # Tombstone
      BY <2>7, <2>8
    <3> DEFINE stops == {EmptyKey}
               slot == t.vals[j]
               tombs == new.tombs
    <3>3. slot \in Nat /\ i = Probe(new, id, stops) /\ tombs = new.tombs
      BY <1>1
    <3>4. after = Written(new, i, id, slot, new.count + 1, tombs)
      BY <2>9
    <3>5. stops \in SUBSET (Reserved \cup {id}) /\ EmptyKey \in stops
      BY <3>1
    <3>6. /\ new.keys[i] = Tombstone => tombs = new.tombs - 1
          /\ new.keys[i] # Tombstone => tombs = new.tombs
      BY <3>2
    <3> HIDE DEF stops, slot, i, id, tombs
    <3>7. OneMore(after, new, id, slot) /\ after.count = new.count + 1 /\ after.tombs = tombs
      BY <2>1, <2>4, <2>5, <2>6, <3>3, <3>4, <3>5, <3>6, PutAddsOne
    <3> QED BY <3>7 DEF slot, tombs
  <2>a. /\ IndexSound(after) /\ after.mask = new.mask
        /\ Keyed(after) = Keyed(new) \cup {id}
        /\ Mapping(after)[id] = t.vals[j]
        /\ \A other \in Keyed(new) : Mapping(after)[other] = Mapping(new)[other]
    BY <2>10 DEF OneMore
  <2>11. Mapping(t)[id] = t.vals[j]
    BY <2>1, MappingAt
  <2>12. Keyed(after) = {t.keys[k] : k \in more}
    BY <2>2, <2>4, <2>a
  <2>13. \A x \in Keyed(after) : Mapping(after)[x] = Mapping(t)[x]
    BY <2>4, <2>a, <2>11
  <2>14. Capacity(after) = cap /\ after.tombs = 0 /\ after.count = Cardinality(more)
    BY <2>3, <2>4, <2>10, <2>a DEF Capacity
  <2> QED BY <2>a, <2>12, <2>13, <2>14 DEF Moved, after, more
<1> QED BY <1>2, <1>3

\* id_grow(): the new table holds every id of the old one with its slot and no
\* other, its tombstones are gone, and it is not loaded again.
THEOREM GrowingLosesNothing ==
  ASSUME NEW t, IndexSound(t)
  PROVE  LET new == IdGrow(t)
         IN /\ IndexSound(new)
            /\ Keyed(new) = Keyed(t)
            /\ \A id \in Keyed(t) : Mapping(new)[id] = Mapping(t)[id]
            /\ new.count = t.count /\ new.tombs = 0 /\ ~Loaded(new)
<1> DEFINE cap == RoomFor(IndexSlots, (t.count + 1) * 4)
           size == Capacity(t)
           table == Rehash(t, cap)
           bad == {j \in 0 .. size : ~Moved(table[j], t, j, cap)}
<1>1. /\ IndexShaped(t) /\ t.mask \in Nat /\ t.count \in Nat
      /\ t.count = Cardinality(Live(t))
      /\ size \in Nat /\ size - 1 = t.mask
  BY IndexTypes DEF IndexSound, Counted
<1>2. cap \in Nat \ {0} /\ cap >= (t.count + 1) * 4
  <2> DEFINE n == (t.count + 1) * 4
  <2>1. n \in Nat
    BY <1>1
  <2> HIDE DEF n
  <2>2. RoomFor(IndexSlots, n) \in Nat \ {0} /\ RoomFor(IndexSlots, n) >= n
    BY <2>1, RoomIsEnough
  <2> QED BY <2>2 DEF n
<1> HIDE DEF cap, size
<1>3. /\ table[0] = EmptyIndex(cap)
      /\ \A j \in 0 .. t.mask : table[j + 1] = Reinsert(table[j], t, j)
  BY <1>1, RehashDefined
<1> HIDE DEF table
<1>4. Moved(EmptyIndex(cap), t, 0, cap)
  <2>1. IndexSound(EmptyIndex(cap)) /\ Keyed(EmptyIndex(cap)) = {}
    BY <1>2, EmptyIndexIsSound
  <2>2. LiveBelow(t, 0) = {}
    BY <1>1 DEF LiveBelow, Live
  <2>3. /\ Capacity(EmptyIndex(cap)) = cap /\ EmptyIndex(cap).tombs = 0
        /\ EmptyIndex(cap).count = 0
    BY <1>2 DEF Capacity, EmptyIndex
  <2> QED BY <2>1, <2>2, <2>3, FS_EmptySet DEF Moved
<1>5. bad = {}
  <2> SUFFICES ASSUME bad # {} PROVE FALSE
    OBVIOUS
  <2>1. PICK j \in bad : \A k \in bad : j <= k
    <3>1. bad \in SUBSET Nat
      BY <1>1
    <3> HIDE DEF bad
    <3> QED BY <3>1, Least
  <2>2. j \in Nat /\ j \in 0 .. size /\ ~Moved(table[j], t, j, cap)
    BY <1>1, <2>1
  <2>3. j # 0
    BY <1>3, <1>4, <2>2
  <2> DEFINE k == j - 1
  <2>4. k \in 0 .. t.mask /\ k \in 0 .. size /\ k + 1 = j /\ ~(j <= k)
    BY <1>1, <2>2, <2>3
  <2> HIDE DEF k
  <2>5. Moved(table[k], t, k, cap)
    BY <2>1, <2>4
  <2>6. t.count + 1 < cap
    BY <1>1, <1>2
  <2>7. Moved(Reinsert(table[k], t, k), t, k + 1, cap)
    BY <2>4, <2>5, <2>6, MovesOneMore
  <2> QED BY <1>3, <2>2, <2>4, <2>7
<1> DEFINE new == IdGrow(t)
<1>6. Moved(new, t, size, cap)
  <2>1. size \in 0 .. size
    BY <1>1
  <2>2. new = table[size]
    BY DEF IdGrow, table, cap, size
  <2> QED BY <1>5, <2>1, <2>2
<1> HIDE DEF new
<1>7. LiveBelow(t, size) = Live(t)
  BY <1>1 DEF LiveBelow, Live
<1>8. {t.keys[i] : i \in Live(t)} = Keyed(t)
  BY DEF Live, Keyed
<1>9. /\ IndexSound(new) /\ Capacity(new) = cap /\ new.tombs = 0 /\ new.count = t.count
      /\ Keyed(new) = Keyed(t)
      /\ \A id \in Keyed(new) : Mapping(new)[id] = Mapping(t)[id]
  BY <1>1, <1>6, <1>7, <1>8 DEF Moved
<1>10. ~Loaded(new)
  BY <1>1, <1>2, <1>9 DEF Loaded
<1> QED BY <1>9, <1>10 DEF new

\* id_insert(): the new id and its slot join the mapping and every other entry
\* stays as it was, whether the id takes an empty slot or a tombstone and whether
\* the table grows first or not; a probe still always ends.
THEOREM InsertAddsOne ==
  ASSUME NEW t, IndexSound(t), NEW id \in Id, id \notin Keyed(t), NEW slot \in Nat
  PROVE  LET new == IdInsert(t, id, slot)
         IN /\ IndexSound(new)
            /\ Keyed(new) = Keyed(t) \cup {id}
            /\ Mapping(new)[id] = slot
            /\ \A other \in Keyed(t) : Mapping(new)[other] = Mapping(t)[other]
<1> DEFINE r == IF Loaded(t) THEN IdGrow(t) ELSE t
           stops == Reserved \cup {id}
           i == Probe(r, id, stops)
           tombs == IF r.keys[i] = Tombstone THEN r.tombs - 1 ELSE r.tombs
           new == IdInsert(t, id, slot)
<1>1. /\ IndexSound(r) /\ Keyed(r) = Keyed(t) /\ ~Loaded(r)
      /\ \A other \in Keyed(t) : Mapping(r)[other] = Mapping(t)[other]
  <2>1. CASE Loaded(t)
    BY <2>1, GrowingLosesNothing
  <2>2. CASE ~Loaded(t)
    BY <2>2
  <2> QED BY <2>1, <2>2
<1>2. new = [r EXCEPT !.keys[i] = id, !.vals[i] = slot, !.tombs = tombs,
                      !.count = IF r.keys[i] = id THEN r.count ELSE r.count + 1]
  BY DEF IdInsert
<1> HIDE DEF r, i, new
<1>3. /\ r.mask \in Nat /\ r.count \in Nat /\ r.tombs \in Nat /\ Capacity(r) \in Nat
      /\ IndexShaped(r)
  BY <1>1, IndexTypes DEF IndexSound
<1>4. r.count + r.tombs + 1 < Capacity(r)
  BY <1>1, <1>3 DEF Loaded
<1>5. EmptyKey \in stops /\ stops \in SUBSET (Reserved \cup {id})
  BY DEF Reserved
<1> HIDE DEF stops
<1>6. i \in 0 .. r.mask
  <2>1. PICK d \in 0 .. r.mask : Probe(r, id, stops) = Home(r, id, d)
    BY <1>1, <1>5, ProbeEnds
  <2> QED BY <1>3, <2>1, Homes DEF i
<1>7. r.keys[i] # id
  BY <1>1, <1>6 DEF Keyed
<1> HIDE DEF tombs
<1>8. new = Written(r, i, id, slot, r.count + 1, tombs)
  BY <1>2, <1>3, <1>7 DEF Written, IndexShaped
<1>9. /\ r.keys[i] = Tombstone => tombs = r.tombs - 1
      /\ r.keys[i] # Tombstone => tombs = r.tombs
  BY DEF tombs
<1>10. i = Probe(r, id, stops)
  BY DEF i
<1>11. OneMore(new, r, id, slot)
  BY <1>1, <1>4, <1>5, <1>8, <1>9, <1>10, PutAddsOne
<1> QED BY <1>1, <1>11 DEF OneMore, new

=============================================================================
