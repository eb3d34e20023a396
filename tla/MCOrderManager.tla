--------------------------- MODULE MCOrderManager ----------------------------
(* Small instances of OrderManager for TLC. *)
EXTENDS OrderManager

CONSTANT A   \* the instrument

OneSymbol == {A}

=============================================================================
