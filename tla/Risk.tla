-------------------------------- MODULE Risk ---------------------------------
(***************************************************************************)
(* The pre-trade gate hft::RiskManager (cpp/src/risk.cpp) as operators     *)
(* from one state of it to the next.  Prices are abstracted to one bit: an *)
(* order is `sane' when its price is usable, inside the collar and below   *)
(* the notional cap.  The clock of the throttle is abstracted to whether a *)
(* second has passed since the window was opened.                          *)
(* The gate reads the order manager as its ExposureSource.                 *)
(***************************************************************************)
EXTENDS PaperVenue

CONSTANTS
  RiskEnabled,         \* RiskLimits::enabled
  MaxOrderQuantity,    \* max_order_quantity
  MaxPosition,         \* max_position_per_symbol
  InstrumentLimit,     \* the instrument's own max_position; 0 for none
  MaxGrossPosition,    \* max_gross_position
  MaxDailyOrders,      \* max_daily_orders
  MaxOrdersPerSecond,  \* max_orders_per_second; 0 for no throttle
  MaxDrawdown          \* max_drawdown; 0 for none

ASSUME RiskConstants ==
  /\ RiskEnabled \in BOOLEAN
  /\ MaxOrderQuantity \in Nat /\ MaxPosition \in Nat /\ MaxGrossPosition \in Nat
  /\ InstrumentLimit \in [Symbol -> Nat]
  /\ MaxDailyOrders \in Nat /\ MaxOrdersPerSecond \in Nat /\ MaxDrawdown \in Nat

HaltReason == {"NotHalted", "Manual", "DrawdownBreach", "DailyOrderLimit", "OrderTimeout"}

RiskState ==
  [position : [Symbol -> Int], gross : Nat, daily : Nat,
   window : Nat, over : BOOLEAN, peak : Nat, halt : HaltReason]

\* `over' stands for window_start_ns_ = 0 as well: the next order opens a window.
InitRisk ==
  [position |-> [s \in Symbol |-> 0], gross |-> 0, daily |-> 0,
   window |-> 0, over |-> TRUE, peak |-> 0, halt |-> "NotHalted"]

Halted(r) == r.halt # "NotHalted"

\* The first reason sticks.
Engage(r, reason) == [r EXCEPT !.halt = IF @ = "NotHalted" THEN reason ELSE @]

\* set_symbol_limit() and symbol_limit(): an instrument may only tighten.
SymbolLimit(s) ==
  IF InstrumentLimit[s] > 0 THEN Min({InstrumentLimit[s], MaxPosition}) ELSE MaxPosition

\* The window an order would be counted in.
OpenWindow(r) == IF r.over THEN [r EXCEPT !.window = 0, !.over = FALSE] ELSE r

\* Mutant of Projected: the position as it is, not as this order would make it.
ProjectedWithoutOrder(r, o, s, d, quantity) == r.position[s] + WorkingExposure(o, s)

\* The position this order would create, with everything sent and unanswered.
Projected(r, o, s, d, quantity) ==
  r.position[s] + WorkingExposure(o, s) + Signed(d, quantity)

\* check(): the first test the order fails, given what the order manager o
\* says is still working.
Verdict(r, o, s, d, quantity, sane) ==
  LET projected == Projected(r, o, s, d, quantity)
      others    == (r.gross - Magnitude(r.position[s]))
                     + (o.gross - Magnitude(WorkingExposure(o, s)))
  IN  CASE quantity <= 0                                   -> "InvalidOrder"
        [] ~RiskEnabled                                    -> "None"
        [] Halted(r)                                       -> "KillSwitchEngaged"
        [] quantity > MaxOrderQuantity                     -> "OrderQuantityTooLarge"
        [] ~sane                                           -> "PriceOutsideCollar"
        [] Magnitude(projected) > SymbolLimit(s)                 -> "PositionLimitExceeded"
        [] others + Magnitude(projected) > MaxGrossPosition      -> "GrossPositionLimitExceeded"
        [] r.daily >= MaxDailyOrders                       -> "DailyOrderLimitExceeded"
        [] /\ MaxOrdersPerSecond > 0
           /\ OpenWindow(r).window >= MaxOrdersPerSecond   -> "ThrottleExceeded"
        [] OTHER                                           -> "None"

\* What check() leaves behind.
Checked(r, verdict) ==
  CASE verdict = "DailyOrderLimitExceeded" -> Engage(r, "DailyOrderLimit")
    [] verdict = "ThrottleExceeded"        -> OpenWindow(r)
    [] verdict = "None" /\ RiskEnabled /\ MaxOrdersPerSecond > 0 ->
         [OpenWindow(r) EXCEPT !.window = @ + 1, !.daily = @ + 1]
    [] verdict = "None"                    -> [r EXCEPT !.daily = @ + 1]
    [] OTHER                               -> r

\* Mutants of OnFill: gross as the turnover, and as the net.
OnFillCountsTurnover(r, s, d, quantity) ==
  [r EXCEPT !.position[s] = @ + Signed(d, quantity), !.gross = @ + quantity]

OnFillNets(r, s, d, quantity) ==
  [r EXCEPT !.position[s] = @ + Signed(d, quantity), !.gross = @ + Signed(d, quantity)]

OnFill(r, s, d, quantity) ==
  LET after == r.position[s] + Signed(d, quantity)
  IN  [r EXCEPT !.position[s] = after, !.gross = @ + Magnitude(after) - Magnitude(r.position[s])]

OnEquity(r, equity) ==
  LET marked == [r EXCEPT !.peak = Max({@, equity})]
  IN  IF RiskEnabled /\ MaxDrawdown > 0 /\ marked.peak - equity > MaxDrawdown
      THEN Engage(marked, "DrawdownBreach") ELSE marked
=============================================================================
