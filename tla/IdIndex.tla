------------------------------ MODULE IdIndex ------------------------------
(***************************************************************************)
(* The open-addressed index from an order's id to its slot in the pool:    *)
(* linear probing, deletion by tombstone, growth by rehashing              *)
(* (cpp/src/order_book.cpp, slot_for to id_grow).  An index is a record of *)
(* the key and the value of each slot, the number of live keys and the     *)
(* number of tombstones.                                                   *)
(***************************************************************************)
EXTENDS Integers, FiniteSets, FiniteSetsExt, SequencesExt

CONSTANTS
  Id,          \* the ids orders carry
  Mix,         \* mix(), the hash of an id
  IndexSlots   \* the smallest table: 1024 in the code, a power of two

ASSUME IndexAssumption ==
  /\ Id \subseteq Nat \ {0}
  /\ Mix \in [Id -> Nat]
  /\ IndexSlots \in Nat \ {0}

EmptyKey == 0       \* the id of no order
Tombstone == -1     \* the largest id of the code, no order's either
Reserved == {EmptyKey, Tombstone}
Nil == 0                   \* kNilNode; the slots of the pool count from 1
NoSlot == -1

EmptyIndex(cap) ==
  [keys  |-> [i \in 0..cap - 1 |-> EmptyKey],
   vals  |-> [i \in 0..cap - 1 |-> Nil],
   mask  |-> cap - 1,
   count |-> 0,
   tombs |-> 0]

Capacity(t) == t.mask + 1

\* The slot where the probe for an id ends: the first one, from the id's home
\* on, whose key is among those the loop stops at.  With no such key the loop
\* never ends; the operators below then find nothing.
Probe(t, id, stops) ==
  LET cap == Capacity(t)
      At(k) == (Mix[id] + k) % cap
      hits == {k \in 0..t.mask : t.keys[At(k)] \in stops}
  IN IF hits = {} THEN NoSlot ELSE At(Min(hits))

SlotFor(t, id) ==
  IF id \in Reserved THEN Nil
  ELSE LET i == Probe(t, id, {id, EmptyKey})
       IN IF i \in DOMAIN t.keys /\ t.keys[i] = id THEN t.vals[i] ELSE Nil

\* The loop that doubles cap while it is less than n, by its rounds: n are enough.
Rounds(cap, n) ==
  LET size[k \in 0..n] ==
        IF k = 0 THEN cap ELSE LET last == size[k - 1] IN IF last < n THEN 2 * last ELSE last
  IN size

RoomFor(cap, n) == Rounds(cap, n)[n]

\* One slot of the old table moved to the new one.
Reinsert(new, t, j) ==
  LET i == Probe(new, t.keys[j], {EmptyKey})
  IN IF t.keys[j] \in Reserved THEN new
     ELSE [new EXCEPT !.keys[i] = t.keys[j], !.vals[i] = t.vals[j], !.count = @ + 1]

\* The new table after each slot of the old one.
Rehash(t, cap) ==
  LET new[j \in 0..Capacity(t)] ==
        IF j = 0 THEN EmptyIndex(cap) ELSE Reinsert(new[j - 1], t, j - 1)
  IN new

\* Every live key is put into a new table of at least four times their number,
\* in the order of the old one; the tombstones are swept out.
IdGrow(t) == Rehash(t, RoomFor(IndexSlots, (t.count + 1) * 4))[Capacity(t)]

\* Mutant: only live keys count against the load.
LoadOfLive(t) == (t.count + 1) * 2 >= Capacity(t)

\* Whether one more key makes the table half full.
Loaded(t) == (t.count + t.tombs + 1) * 2 >= Capacity(t)

IdInsert(t, id, slot) ==
  LET r == IF Loaded(t) THEN IdGrow(t) ELSE t
      i == Probe(r, id, Reserved \cup {id})
  IN [r EXCEPT !.keys[i] = id,
               !.vals[i] = slot,
               !.tombs = IF r.keys[i] = Tombstone THEN @ - 1 ELSE @,
               !.count = IF r.keys[i] = id THEN @ ELSE @ + 1]

IdErase(t, id) ==
  LET i == Probe(t, id, {id, EmptyKey})
  IN IF t.keys[i] # id THEN t
     ELSE [t EXCEPT !.keys[i] = Tombstone, !.vals[i] = Nil,
                    !.count = @ - 1, !.tombs = @ + 1]

=============================================================================
