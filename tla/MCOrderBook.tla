---------------------------- MODULE MCOrderBook -----------------------------
(* Small instances of OrderBook for TLC. *)
EXTENDS OrderBook

\* The first two ids collide in every table; four of the homes fill one of four.
FiveIds == 1..5
FiveHomes == [id \in FiveIds |-> CASE id = 1 -> 0 [] id = 2 -> 8 [] OTHER -> id - 2]

\* Two owners, one of them nobody.
Owners == [id \in FiveIds |-> id % 2]
=============================================================================
