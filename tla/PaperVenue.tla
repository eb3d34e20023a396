----------------------------- MODULE PaperVenue ------------------------------
(***************************************************************************)
(* hft::PaperVenue (cpp/src/execution.cpp): what the venue makes of a fill *)
(* - the position, its cost at the average price, and what was earned.     *)
(* The code computes with doubles; here prices are whole numbers large     *)
(* enough that no average and no fee is rounded, so what is modelled is    *)
(* the bookkeeping and not the rounding.  How much of an order is filled,  *)
(* and at which average price, is up to the book: see OrderBook.           *)
(***************************************************************************)
EXTENDS Oms

CONSTANTS
  Price,    \* the prices a fill may have
  FeeBps    \* PaperVenue::Config::fee_bps

ASSUME PaperVenueConstants == Price \subseteq Nat \ {0} /\ FeeBps \in Nat

Signed(d, n) == IF d = "Buy" THEN n ELSE -n

\* cash is history: what was paid and received, fees included.
InitVenue ==
  [position |-> [s \in Symbol |-> 0], cost |-> [s \in Symbol |-> 0],
   realized |-> 0, cash |-> 0]

Fee(px, quantity) == (px * quantity * FeeBps) \div 10000

\* The average price of what is held of s; position and cost have one sign.
AverageEntry(v, s) == Magnitude(v.cost[s]) \div Magnitude(v.position[s])

\* Mutant of CostAfter: a flipped position keeps the average it was opened at.
CostCarriedOver(v, s, signed, px) ==
  LET prev == v.position[s]
      new  == prev + signed
  IN  IF prev = 0 \/ (prev > 0) = (signed > 0) THEN v.cost[s] + px * signed
      ELSE AverageEntry(v, s) * new

\* What the position costs once signed lots are added to it at px: adding
\* buys at px, reducing leaves the average alone, and what is beyond a flip is
\* a new position at px.
CostAfter(v, s, signed, px) ==
  LET prev == v.position[s]
      new  == prev + signed
  IN  IF prev = 0 \/ (prev > 0) = (signed > 0) THEN v.cost[s] + px * signed
      ELSE IF new = 0 \/ (new > 0) = (prev > 0) THEN AverageEntry(v, s) * new
      ELSE px * new

\* What is earned on the part of the position that a fill closes.
Realized(v, s, signed, px) ==
  LET prev == v.position[s]
      closing == Min({Magnitude(signed), Magnitude(prev)})
  IN  IF prev = 0 \/ (prev > 0) = (signed > 0) THEN 0
      ELSE (px - AverageEntry(v, s)) * closing * (IF prev > 0 THEN 1 ELSE -1)

\* apply_pnl(), if anything was filled.
ApplyPnl(v, s, d, quantity, px) ==
  LET signed == Signed(d, quantity)
      fee    == Fee(px, quantity)
  IN  IF quantity = 0 THEN v
      ELSE [position |-> [v.position EXCEPT ![s] = @ + signed],
            cost     |-> [v.cost EXCEPT ![s] = CostAfter(v, s, signed, px)],
            realized |-> v.realized + Realized(v, s, signed, px) - fee,
            cash     |-> v.cash - px * signed - fee]

\* Realized PnL, and what the position of one instrument has gained at a price.
Equity(v, s, mark) == v.realized + mark * v.position[s] - v.cost[s]
=============================================================================
