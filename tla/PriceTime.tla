----------------------------- MODULE PriceTime -----------------------------
(***************************************************************************)
(* What an order book promises, with no levels, lists, bitmap or index.    *)
(* Each side is one sequence of resting orders by priority: better price   *)
(* first, and at one price the older first.  An order that comes in trades *)
(* down the other side while the prices allow it; what each resting order  *)
(* gives is stated directly from the quantity ahead of it.                 *)
(***************************************************************************)
EXTENDS Integers, Sequences, FiniteSets, SequencesExt

Side == {"Buy", "Sell"}
SelfMatchPolicy == {"None", "CancelResting", "CancelAggressor"}
Opposite(side) == IF side = "Buy" THEN "Sell" ELSE "Buy"
Smaller(m, n) == IF m < n THEN m ELSE n

\* A market order, which takes any price, has no limit.
NoPrice == -1000000

Better(side, p, q) == IF side = "Buy" THEN p > q ELSE p < q

\* a, an order coming in, may trade with the resting order r.
Marketable(a, r) == a.price = NoPrice \/ ~Better(a.side, r.price, a.price)

\* The two belong to one owner, and the policy forbids that they trade.
SelfMatch(policy, a, r) == policy # "None" /\ a.owner # 0 /\ r.owner = a.owner

\* The quantity in front of each resting order that an incoming one may take,
\* and after the last of them all there is.
QuantityAhead(queue, policy, a) ==
  LET ahead[i \in 1..Len(queue) + 1] ==
        IF i = 1 THEN 0
        ELSE ahead[i - 1]
             + (IF SelfMatch(policy, a, queue[i - 1]) THEN 0 ELSE queue[i - 1].quantity)
  IN ahead

\* The incoming order gets to the i-th resting order with quantity left, and
\* with no order of its own in front of it that would have stopped it.
Reaches(queue, policy, a, ahead, i) ==
  /\ Marketable(a, queue[i])
  /\ ahead[i] < a.quantity
  /\ policy = "CancelAggressor" => \A j \in 1..i - 1 : ~SelfMatch(policy, a, queue[j])

Matched(queue, policy, a) ==
  LET ahead == QuantityAhead(queue, policy, a)
      reached == {i \in DOMAIN queue : Reaches(queue, policy, a, ahead, i)}
      own == {i \in reached : SelfMatch(policy, a, queue[i])}
      given == [i \in DOMAIN queue |->
                  IF i \in reached \ own THEN Smaller(a.quantity - ahead[i], queue[i].quantity)
                  ELSE 0]
      left == [i \in DOMAIN queue |->
                 [queue[i] EXCEPT !.quantity =
                    IF i \in own /\ policy = "CancelResting" THEN 0 ELSE @ - given[i]]]
      trades == [i \in DOMAIN queue |->
                   [maker |-> queue[i].id, price |-> queue[i].price, quantity |-> given[i]]]
      last == {i \in reached \ own : \A j \in reached \ own : j <= i}
  IN [queue   |-> SelectSeq(left, LAMBDA r : r.quantity > 0),
      trades  |-> SelectSeq(trades, LAMBDA t : t.quantity > 0),
      filled  |-> IF last = {} THEN 0 ELSE CHOOSE f \in {ahead[i] + given[i] : i \in last} : TRUE,
      stopped |-> policy = "CancelAggressor" /\ own # {}]

\* Behind every order of its side whose price is at least as good.
Queued(queue, r, side) ==
  InsertAt(queue, Cardinality({i \in DOMAIN queue : ~Better(side, r.price, queue[i].price)}) + 1, r)

Places(b, id) ==
  UNION {{<<s, i>> : i \in {j \in DOMAIN b[s] : b[s][j].id = id}} : s \in Side}

Rests(b, id) == Places(b, id) # {}

Nothing(b, answer) == [book |-> b, answer |-> answer, trades |-> <<>>]

Market(b, policy, a) ==
  LET m == Matched(b[Opposite(a.side)], policy, a)
  IN [book |-> [b EXCEPT ![Opposite(a.side)] = m.queue], answer |-> m.filled, trades |-> m.trades]

Limit(b, policy, a) ==
  LET m == Matched(b[Opposite(a.side)], policy, a)
      rest == [id |-> a.id, price |-> a.price, quantity |-> a.quantity - m.filled, owner |-> a.owner]
      crossed == [b EXCEPT ![Opposite(a.side)] = m.queue]
  IN [book   |-> IF m.filled = a.quantity \/ m.stopped THEN crossed
                 ELSE [crossed EXCEPT ![a.side] = Queued(@, rest, a.side)],
      answer |-> m.filled,
      trades |-> m.trades]

Cancel(b, id) ==
  IF ~Rests(b, id) THEN Nothing(b, FALSE)
  ELSE Nothing([s \in Side |-> SelectSeq(b[s], LAMBDA r : r.id # id)], TRUE)

\* A smaller quantity at the same price keeps the place in the queue; any other
\* change gives it up, and the new terms may trade.
Modify(b, policy, id, price, quantity) ==
  IF ~Rests(b, id) THEN Nothing(b, FALSE)
  ELSE LET at == CHOOSE p \in Places(b, id) : TRUE
           side == at[1]
           r == b[side][at[2]]
       IN IF price = r.price /\ quantity <= r.quantity
          THEN Nothing([b EXCEPT ![side][at[2]].quantity = quantity], TRUE)
          ELSE [Limit(Cancel(b, id).book, policy,
                      [id |-> id, side |-> side, price |-> price,
                       quantity |-> quantity, owner |-> r.owner])
                EXCEPT !.answer = TRUE]

=============================================================================
