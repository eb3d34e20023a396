---------------------------- MODULE LevelBitmap ----------------------------
(***************************************************************************)
(* The bitmap of non-empty price levels (cpp/src/order_book.cpp,           *)
(* LevelBitmap).  A word is the set of the positions of its one bits.      *)
(* Tier 0 has a bit per level, tier 1 a bit per tier-0 word, tier 2 is one *)
(* word with a bit per tier-1 word.                                        *)
(***************************************************************************)
EXTENDS Integers, FiniteSets, FiniteSetsExt

CONSTANT WordBits   \* 64 in the code

ASSUME WordBitsAssumption == WordBits \in Nat \ {0, 1}

NPos == -1

WordsFor(n) == (n + WordBits - 1) \div WordBits

\* The constructor throws when tier 2 would need a second word.
BitmapFits(n) == WordsFor(WordsFor(n)) <= WordBits

EmptyBitmap(n) ==
  [n  |-> n,
   l0 |-> [w \in 0..WordsFor(n) - 1 |-> {}],
   l1 |-> [w \in 0..WordsFor(WordsFor(n)) - 1 |-> {}],
   l2 |-> {}]

Bit(i) == i % WordBits
Word(i) == i \div WordBits

SetBit(m, i) ==
  [m EXCEPT !.l0[Word(i)] = @ \cup {Bit(i)},
            !.l1[Word(Word(i))] = @ \cup {Bit(Word(i))},
            !.l2 = @ \cup {Word(Word(i))}]

\* A tier is cleared only when the word below it became empty.
ClearBit(m, i) ==
  LET w0 == Word(i)
      w1 == Word(w0)
      l0 == [m.l0 EXCEPT ![w0] = @ \ {Bit(i)}]
      l1 == IF l0[w0] = {} THEN [m.l1 EXCEPT ![w1] = @ \ {Bit(w0)}] ELSE m.l1
      l2 == IF l0[w0] = {} /\ l1[w1] = {} THEN m.l2 \ {w1} ELSE m.l2
  IN [m EXCEPT !.l0 = l0, !.l1 = l1, !.l2 = l2]

TestBit(m, i) == Bit(i) \in m.l0[Word(i)]

\* From the top tier down.
FindHighest(m) ==
  IF m.l2 = {} THEN NPos
  ELSE LET w1 == Max(m.l2)
           w0 == w1 * WordBits + Max(m.l1[w1])
       IN w0 * WordBits + Max(m.l0[w0])

FindLowest(m) ==
  IF m.l2 = {} THEN NPos
  ELSE LET w1 == Min(m.l2)
           w0 == w1 * WordBits + Min(m.l1[w1])
       IN w0 * WordBits + Min(m.l0[w0])

\* Mutant: the bits at and below i are not masked off.
ScanAboveUnmasked(m, i) ==
  LET w == {v \in DOMAIN m.l0 : v >= Word(i + 1) /\ m.l0[v] # {}}
  IN IF i + 1 >= m.n \/ w = {} THEN NPos ELSE Min(w) * WordBits + Min(m.l0[Min(w)])

\* The next set bit above i: in the rest of its own word, else in the next
\* word that has one.
ScanAbove(m, i) ==
  LET j == i + 1
      here == {b \in m.l0[Word(j)] : b >= Bit(j)}
      later == {w \in DOMAIN m.l0 : w > Word(j) /\ m.l0[w] # {}}
  IN IF j >= m.n THEN NPos
     ELSE IF here # {} THEN Word(j) * WordBits + Min(here)
     ELSE IF later = {} THEN NPos
     ELSE Min(later) * WordBits + Min(m.l0[Min(later)])

\* And the next set bit below i.
ScanBelow(m, i) ==
  LET j == i - 1
      here == {b \in m.l0[Word(j)] : b <= Bit(j)}
      earlier == {w \in DOMAIN m.l0 : w < Word(j) /\ m.l0[w] # {}}
  IN IF i = 0 THEN NPos
     ELSE IF here # {} THEN Word(j) * WordBits + Max(here)
     ELSE IF earlier = {} THEN NPos
     ELSE Max(earlier) * WordBits + Max(m.l0[Max(earlier)])

=============================================================================
