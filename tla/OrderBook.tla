----------------------------- MODULE OrderBook -----------------------------
(***************************************************************************)
(* hft::OrderBook (cpp/src/order_book.cpp): one instrument's book as the   *)
(* code keeps it.  Orders are nodes of a slab with a free list, linked     *)
(* into one list per price level; a bitmap per side marks the levels that  *)
(* have orders; an index finds an order's node by its id.                  *)
(*                                                                         *)
(* The operations are operators from one book to a record of the book      *)
(* after, the value returned and the trades appended.  self_match_         *)
(* preventions, a counter nothing reads back, is left out, and so is the   *)
(* hash: any function of the ids will do.                                  *)
(***************************************************************************)
EXTENDS LevelBitmap, IdIndex

CONSTANTS
  MinPrice, MaxPrice, TickSize,  \* the constructor's arguments
  Price,          \* the prices asked for, in the band and on the grid or not
  Quantity,       \* the quantities asked for, beside 0
  Owner,          \* whose orders an id's are; 0 is nobody
  Policy,         \* the self-match policies set
  MaxResting      \* bound: orders that may rest at once

Side == {"Buy", "Sell"}
Opposite(side) == IF side = "Buy" THEN "Sell" ELSE "Buy"
NoPrice == -1000000   \* the least Price of the code

(***************************************************************************)
(* The price band.                                                         *)
(***************************************************************************)

\* The lowest price on the absolute tick grid at or above the minimum.
GridBase ==
  LET off == MinPrice % TickSize
  IN IF TickSize <= 1 \/ off = 0 THEN MinPrice ELSE MinPrice + (TickSize - off)

GridLevels == (MaxPrice - GridBase) \div TickSize + 1

\* What InstrumentRegistry::add() lets through.
RegistryAccepts ==
  /\ 0 < MinPrice /\ MinPrice < MaxPrice
  /\ TickSize > 0
  /\ GridBase <= MaxPrice
  /\ GridLevels <= WordBits * WordBits * WordBits

\* Where neither check_band() nor the constructor of the bitmap throws.
ConstructorAccepts ==
  /\ TickSize > 0 /\ MinPrice <= MaxPrice /\ GridBase <= MaxPrice
  /\ BitmapFits(GridLevels)

\* The engine has a book for every instrument of the registry.
ASSUME BandIsUsable ==
  /\ MinPrice \in Int /\ MaxPrice \in Int /\ TickSize \in Int
  /\ NoPrice < MinPrice
  /\ RegistryAccepts /\ ConstructorAccepts

ASSUME BookInputs ==
  /\ Price \subseteq Int /\ Quantity \subseteq Nat \ {0} /\ Owner \in [Id -> Nat]
  /\ MaxResting \in Nat \ {0}

\* Instrument::price_is_valid(): the grid of the instrument, not of the book.
PriceIsValid(p) == p \in MinPrice..MaxPrice /\ p % TickSize = 0

Level == 0..GridLevels - 1

InBand(p) == p >= GridBase /\ p <= MaxPrice /\ (p - GridBase) % TickSize = 0
IndexOf(p) == (p - GridBase) \div TickSize
PriceAt(i) == GridBase + i * TickSize

(***************************************************************************)
(* The slab, its free list and the levels' lists.                          *)
(***************************************************************************)

BlankNode == [id |-> EmptyKey, price |-> 0, quantity |-> 0, prev |-> Nil, next |-> Nil,
              owner |-> 0, side |-> "Buy", live |-> FALSE]

BlankLevel == [total |-> 0, count |-> 0, head |-> Nil, tail |-> Nil]

EmptyBook(policy) ==
  [levels  |-> [s \in Side |-> [i \in Level |-> BlankLevel]],
   map     |-> [s \in Side |-> EmptyBitmap(GridLevels)],
   pool    |-> <<>>,
   free    |-> Nil,
   ids     |-> EmptyIndex(IndexSlots),
   live    |-> 0,
   smp     |-> policy,
   stopped |-> FALSE]

\* The slot alloc_node() hands out, and the book after.
AllocatedSlot(b) == IF b.free # Nil THEN b.free ELSE Len(b.pool) + 1

AllocNode(b) ==
  IF b.free # Nil
  THEN [b EXCEPT !.free = b.pool[b.free].next, !.pool[b.free] = BlankNode]
  ELSE [b EXCEPT !.pool = Append(@, BlankNode)]

\* What else a free node still holds is never read: alloc_node() blanks it.
FreeNode(b, slot) ==
  [b EXCEPT !.pool[slot] = [BlankNode EXCEPT !.next = b.free], !.free = slot]

LinkBack(b, side, i, slot) ==
  LET tail == b.levels[side][i].tail
      last == [b EXCEPT !.pool[slot].prev = tail, !.pool[slot].next = Nil,
                        !.levels[side][i].tail = slot, !.levels[side][i].count = @ + 1]
  IN IF tail # Nil THEN [last EXCEPT !.pool[tail].next = slot]
     ELSE [last EXCEPT !.levels[side][i].head = slot]

Unlink(b, side, i, slot) ==
  LET prev == b.pool[slot].prev
      next == b.pool[slot].next
      before == IF prev # Nil THEN [b EXCEPT !.pool[prev].next = next]
                ELSE [b EXCEPT !.levels[side][i].head = next]
      after == IF next # Nil THEN [before EXCEPT !.pool[next].prev = prev]
               ELSE [before EXCEPT !.levels[side][i].tail = prev]
  IN [after EXCEPT !.levels[side][i].count = @ - 1]

\* An order leaves the book: out of its list, the index and the slab.
Drop(b, side, i, slot) ==
  LET unlinked == Unlink(b, side, i, slot)
  IN [FreeNode([unlinked EXCEPT !.ids = IdErase(@, b.pool[slot].id)], slot)
      EXCEPT !.live = @ - 1]

(***************************************************************************)
(* Matching.  A match in progress is the book, the quantity still to fill  *)
(* and the trades so far; a is the incoming order, its price NoPrice for a *)
(* market order.                                                           *)
(***************************************************************************)

SelfMatch(b, a, node) == b.smp # "None" /\ a.owner # 0 /\ node.owner = a.owner

\* Mutant: the whole of what is left trades with the first order met.
TradedInFull(left, node) == left

Traded(left, node) == Min({left, node.quantity})

\* The inner loop: the orders of level i, oldest first.
RECURSIVE FillLevel(_, _, _)
FillLevel(m, a, i) ==
  LET side == Opposite(a.side)
      slot == m.book.levels[side][i].head
      node == m.book.pool[slot]
      traded == Traded(m.left, node)
      less(b, q) == [b EXCEPT !.levels[side][i].total = @ - q, !.pool[slot].quantity = @ - q]
      reduced == less(m.book, traded)
  IN IF m.left = 0 \/ slot = Nil THEN m
     ELSE IF SelfMatch(m.book, a, node)
       THEN IF m.book.smp = "CancelResting"
            THEN FillLevel([m EXCEPT !.book = Drop(less(@, node.quantity), side, i, slot)], a, i)
            ELSE [m EXCEPT !.book.stopped = TRUE]
       ELSE FillLevel([book   |-> IF traded = node.quantity THEN Drop(reduced, side, i, slot)
                                  ELSE reduced,
                       left   |-> m.left - traded,
                       trades |-> Append(m.trades, [maker |-> node.id, price |-> PriceAt(i),
                                                    quantity |-> traded])],
                      a, i)

\* The best level of the side the incoming order trades against.
BestLevel(b, side) == IF side = "Buy" THEN FindHighest(b.map[side]) ELSE FindLowest(b.map[side])

Beyond(a, p) == a.price # NoPrice /\ (IF a.side = "Buy" THEN p > a.price ELSE p < a.price)

\* The outer loop, from the best level on while prices allow.
RECURSIVE Sweep(_, _)
Sweep(m, a) ==
  LET side == Opposite(a.side)
      i == BestLevel(m.book, side)
      filled == FillLevel(m, a, i)
      swept == IF filled.book.levels[side][i].count = 0
               THEN [filled EXCEPT !.book.levels[side][i].total = 0,
                                   !.book.map[side] = ClearBit(@, i)]
               ELSE filled
  IN IF m.left = 0 \/ i = NPos \/ Beyond(a, PriceAt(i)) THEN m
     ELSE IF swept.book.stopped THEN swept
     ELSE Sweep(swept, a)

Match(b, a) ==
  Sweep([book |-> [b EXCEPT !.stopped = FALSE], left |-> a.quantity, trades |-> <<>>], a)

(***************************************************************************)
(* The operations.                                                         *)
(***************************************************************************)

Unchanged(b, answer) == [book |-> b, answer |-> answer, trades |-> <<>>]

\* What an incoming order leaves rests at the back of its level.
Rest(b, a, quantity) ==
  LET i == IndexOf(a.price)
      slot == AllocatedSlot(b)
      node == [id |-> a.id, price |-> a.price, quantity |-> quantity, prev |-> Nil, next |-> Nil,
               owner |-> a.owner, side |-> a.side, live |-> TRUE]
      linked == LinkBack([AllocNode(b) EXCEPT !.pool[slot] = node], a.side, i, slot)
  IN [linked EXCEPT !.levels[a.side][i].total = @ + quantity,
                    !.map[a.side] = SetBit(@, i),
                    !.ids = IdInsert(@, a.id, slot),
                    !.live = @ + 1]

AddLimit(b, a) ==
  LET m == Match(b, a)
      filled == a.quantity - m.left
  IN IF a.quantity = 0 \/ a.id \in Reserved \/ ~InBand(a.price) \/ SlotFor(b.ids, a.id) # Nil
     THEN Unchanged(b, -1)
     ELSE [book   |-> IF m.left = 0 \/ m.book.stopped THEN m.book ELSE Rest(m.book, a, m.left),
           answer |-> filled,
           trades |-> m.trades]

ExecuteMarket(b, a) ==
  LET m == Match(b, a)
  IN IF a.quantity = 0 THEN Unchanged(b, 0)
     ELSE [book |-> m.book, answer |-> a.quantity - m.left, trades |-> m.trades]

Cancel(b, id) ==
  LET slot == SlotFor(b.ids, id)
      node == b.pool[slot]
      i == IndexOf(node.price)
      dropped == Drop([b EXCEPT !.levels[node.side][i].total = @ - node.quantity],
                      node.side, i, slot)
  IN IF slot = Nil THEN Unchanged(b, FALSE)
     ELSE Unchanged(IF dropped.levels[node.side][i].count = 0
                    THEN [dropped EXCEPT !.map[node.side] = ClearBit(@, i)]
                    ELSE dropped, TRUE)

\* Mutant: a larger quantity keeps its place too.
ReducibleAtPrice(node, price, quantity) == price = node.price

\* A reduction at the same price is made in place.
Reducible(node, price, quantity) == price = node.price /\ quantity <= node.quantity

Modify(b, id, price, quantity) ==
  LET slot == SlotFor(b.ids, id)
      node == b.pool[slot]
      i == IndexOf(node.price)
  IN IF slot = Nil THEN Unchanged(b, FALSE)
     ELSE IF quantity = 0 THEN Cancel(b, id)
     ELSE IF ~InBand(price) THEN Unchanged(b, FALSE)
     ELSE IF Reducible(node, price, quantity)
       THEN Unchanged([b EXCEPT !.pool[slot].quantity = quantity,
                                !.levels[node.side][i].total = @ - (node.quantity - quantity)],
                      TRUE)
     ELSE [AddLimit(Cancel(b, id).book,
                    [id |-> id, side |-> node.side, price |-> price, quantity |-> quantity,
                     owner |-> node.owner])
           EXCEPT !.answer = TRUE]

\* clear() keeps the policy, and the index at the size it has grown to.
Cleared(b) == [EmptyBook(b.smp) EXCEPT !.ids = EmptyIndex(Capacity(b.ids))]

BestPrice(b, side) ==
  LET i == BestLevel(b, side) IN IF i = NPos THEN NoPrice ELSE PriceAt(i)

BestQuantity(b, side) ==
  LET i == BestLevel(b, side) IN IF i = NPos THEN 0 ELSE b.levels[side][i].total

QuantityAt(b, side, p) == IF InBand(p) THEN b.levels[side][IndexOf(p)].total ELSE 0

\* spread(), where both sides have orders.
TwoSided(b) == \A s \in Side : BestPrice(b, s) # NoPrice
Spread(b) == BestPrice(b, "Sell") - BestPrice(b, "Buy")

\* depth(): the levels of a side, best first, by walking the bitmap's words.
RECURSIVE DepthFrom(_, _, _, _)
DepthFrom(b, side, i, n) ==
  IF i = NPos \/ n = 0 THEN <<>>
  ELSE <<[price |-> PriceAt(i), quantity |-> b.levels[side][i].total,
          count |-> b.levels[side][i].count]>>
       \o DepthFrom(b, side,
                    IF side = "Buy" THEN ScanBelow(b.map[side], i) ELSE ScanAbove(b.map[side], i),
                    n - 1)

Depth(b, side, n) == DepthFrom(b, side, BestLevel(b, side), n)

(***************************************************************************)
(* The state machine: any call after any other.                            *)
(***************************************************************************)
VARIABLE book

vars == <<book>>

\* Limit orders with every id, side, price on the grid and quantity; those that are
\* refused before the rest of them is looked at (the largest reserved id is refused as
\* the smallest is); market orders, whose id is stored nowhere.
OwnerId == {Owner[id] : id \in Id}
OnGrid == {p \in Price : PriceIsValid(p)}
Refused == [id : {EmptyKey, Min(Id)}, side : {"Buy"}, price : (Price \ OnGrid) \cup {GridBase},
            quantity : {0, 1}, owner : {0}]
Incoming ==
  Refused \cup {a \in [id : Id, side : Side, price : OnGrid, quantity : Quantity,
                       owner : OwnerId] : a.owner = Owner[a.id]}
Taking == [id : {EmptyKey}, side : Side, price : {NoPrice}, quantity : Quantity \cup {0},
           owner : OwnerId]
Amended == (OnGrid \X (Quantity \cup {0})) \cup ((Price \ OnGrid) \X {0, 1})

Init == \E p \in Policy : book = EmptyBook(p)

DoAddLimit(a) == book.live < MaxResting /\ book' = AddLimit(book, a).book
DoExecuteMarket(a) == book' = ExecuteMarket(book, a).book
DoCancel(id) == book' = Cancel(book, id).book
DoModify(id, price, quantity) == book' = Modify(book, id, price, quantity).book
Clear == book' = Cleared(book)
SetSelfMatchPolicy(p) == book' = [book EXCEPT !.smp = p]

Next ==
  \/ \E a \in Incoming : DoAddLimit(a)
  \/ \E a \in Taking : DoExecuteMarket(a)
  \/ \E id \in Id : DoCancel(id)
  \/ \E id \in Id, terms \in Amended : DoModify(id, terms[1], terms[2])
  \/ Clear
  \/ \E p \in Policy : SetSelfMatchPolicy(p)

Spec == Init /\ [][Next]_vars

-----------------------------------------------------------------------------
(***************************************************************************)
(* Properties.                                                             *)
(***************************************************************************)

\* The list of a level from a slot on; a list longer than the slab is a loop
\* and is cut there.
RECURSIVE Walk(_, _, _)
Walk(pool, slot, list) ==
  IF slot = Nil \/ Len(list) > Len(pool) THEN list
  ELSE Walk(pool, pool[slot].next, Append(list, slot))

Slots(b, side, i) == Walk(b.pool, b.levels[side][i].head, <<>>)

Chain(b, side, i) ==
  LET list == Slots(b, side, i)
      order(node) == [id |-> node.id, price |-> node.price, quantity |-> node.quantity,
                      owner |-> node.owner]
  IN [k \in DOMAIN list |-> order(b.pool[list[k]])]

\* The levels' lists one after the other, best level first: k levels are left.
RECURSIVE QueueFrom(_, _, _)
QueueFrom(b, side, k) ==
  IF k = 0 THEN <<>>
  ELSE Chain(b, side, IF side = "Buy" THEN k - 1 ELSE GridLevels - k) \o QueueFrom(b, side, k - 1)

\* The book as its two queues.
Queues(b) == [s \in Side |-> QueueFrom(b, s, GridLevels)]

Promise == INSTANCE PriceTime

\* Type correctness: every link and every index value is a slot of the slab.
TypeOK ==
  LET Slot == 0..Len(book.pool)
  IN /\ book.pool \in Seq([id : Id \cup {EmptyKey}, price : Int, quantity : Nat, prev : Slot,
                            next : Slot, owner : OwnerId \cup {0}, side : Side, live : BOOLEAN])
     /\ book.levels \in [Side -> [Level -> [total : Int, count : Nat, head : Slot, tail : Slot]]]
     /\ book.free \in Slot
     /\ \A i \in DOMAIN book.ids.keys : /\ book.ids.keys[i] \in Id \cup Reserved
                                        /\ book.ids.vals[i] \in Slot
     /\ book.live \in Nat /\ book.smp \in Policy /\ book.stopped \in BOOLEAN

\* Each level's list reads the same backwards, ends at its tail, holds the
\* level's own live orders, and adds up to the count and the total that
\* best_bid_quantity() and depth() report.
LevelsAreLists ==
  \A s \in Side, i \in Level :
    LET level == book.levels[s][i]
        list == Slots(book, s, i)
    IN /\ level.count = Len(list)
       /\ level.tail = IF list = <<>> THEN Nil ELSE Last(list)
       /\ \A k \in DOMAIN list : book.pool[list[k]].prev = IF k = 1 THEN Nil ELSE list[k - 1]
       /\ \A k \in DOMAIN list : LET node == book.pool[list[k]]
                                 IN node.live /\ node.side = s /\ IndexOf(node.price) = i
                                    /\ node.quantity > 0
       /\ level.total = FoldLeft(LAMBDA sum, slot : sum + book.pool[slot].quantity, 0, list)

\* A node is either in one level's list or on the free list, once: an order
\* that left is never reached again, and no slot is handed out twice.
SlabIsPartitioned ==
  LET free == Walk(book.pool, book.free, <<>>)
      linked == FlattenSeq([k \in 1..GridLevels |-> Slots(book, "Buy", k - 1)
                                                    \o Slots(book, "Sell", k - 1)])
      all == linked \o free
  IN /\ Len(all) = Len(book.pool) /\ ToSet(all) = DOMAIN book.pool
     /\ \A k \in DOMAIN free : ~book.pool[free[k]].live
     /\ book.live = Len(linked)

\* A bit is set exactly for the levels with orders and the words with bits:
\* the best price is found from the top word down, without looking further.
BitmapIsExact ==
  \A s \in Side :
    LET m == book.map[s]
    IN /\ \A i \in Level : TestBit(m, i) <=> book.levels[s][i].count > 0
       /\ \A w \in DOMAIN m.l0 : (m.l0[w] # {}) <=> Bit(w) \in m.l1[Word(w)]
       /\ \A w \in DOMAIN m.l1 : (m.l1[w] # {}) <=> w \in m.l2

\* Through any history of insertions, tombstones and growth the index finds
\* the node of every resting order and of no other, and some key is always
\* empty: without one the probe for an absent id would never end.
IndexIsExact ==
  /\ \E i \in DOMAIN book.ids.keys : book.ids.keys[i] = EmptyKey
  /\ \A id \in Id :
       LET holders == {slot \in DOMAIN book.pool : book.pool[slot].live /\ book.pool[slot].id = id}
       IN IF holders = {} THEN SlotFor(book.ids, id) = Nil ELSE holders = {SlotFor(book.ids, id)}
  /\ book.ids.count = book.live
  /\ book.ids.tombs = Cardinality({i \in DOMAIN book.ids.keys : book.ids.keys[i] = Tombstone})

\* The four structures that hold the book tell the same story after any
\* sequence of calls: lists, slab, bitmap and index.
StructureIsSound == LevelsAreLists /\ SlabIsPartitioned /\ BitmapIsExact /\ IndexIsExact

\* The best bid stays below the best ask: no call leaves two orders that
\* should have traded, whatever self-match prevention took out of the way.
NeverCrossed == TwoSided(book) => Spread(book) > 0

\* Whatever is called next, the code answers, trades and leaves the queues as
\* price-time priority says; a rejected call changes nothing.
ImplementsPriceTime ==
  LET q == Queues(book)
      Same(r, p) == Queues(r.book) = p.book /\ r.answer = p.answer /\ r.trades = p.trades
  IN /\ \A a \in Incoming :
          Same(AddLimit(book, a),
               IF a.quantity = 0 \/ a.id = EmptyKey \/ ~PriceIsValid(a.price) \/ Promise!Rests(q, a.id)
               THEN Promise!Nothing(q, -1) ELSE Promise!Limit(q, book.smp, a))
     /\ \A a \in Taking : Same(ExecuteMarket(book, a), Promise!Market(q, book.smp, a))
     /\ \A id \in Id : Same(Cancel(book, id), Promise!Cancel(q, id))
     /\ \A id \in Id, terms \in Amended :
          LET price == terms[1]  quantity == terms[2]
          IN Same(Modify(book, id, price, quantity),
                  IF quantity = 0 THEN Promise!Cancel(q, id)
                  ELSE IF ~PriceIsValid(price) THEN Promise!Nothing(q, FALSE)
                  ELSE Promise!Modify(q, book.smp, id, price, quantity))

\* depth() lists every level that has orders, best first and once, with the
\* quantity quantity_at() reports for its price, and the two sides never cross.
DepthIsTheBook ==
  /\ NeverCrossed
  /\ \A s \in Side :
       LET d == Depth(book, s, GridLevels)
           levels == {i \in Level : book.levels[s][i].count > 0}
       IN /\ Len(d) = Cardinality(levels)
          /\ {d[k].price : k \in DOMAIN d} = {PriceAt(i) : i \in levels}
          /\ \A k \in DOMAIN d : /\ d[k].quantity = QuantityAt(book, s, d[k].price)
                                 /\ k > 1 => Promise!Better(s, d[k - 1].price, d[k].price)
          /\ d = <<>> \/ d[1].quantity = BestQuantity(book, s)

=============================================================================
