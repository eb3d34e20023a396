--------------------------- MODULE MCTradingEngine ---------------------------
(* Small instances of TradingEngine for TLC. *)
EXTENDS TradingEngine

CONSTANTS A, B   \* instruments

OneSymbol == {A}
TwoSymbols == {A, B}

NoInstrumentLimit == [s \in Symbol |-> 0]
OneTightInstrument == [s \in Symbol |-> IF s = A THEN 2 ELSE 4]

=============================================================================
