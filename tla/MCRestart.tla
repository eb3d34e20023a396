------------------------------ MODULE MCRestart ------------------------------
(* Small instances of Restart for TLC. *)
EXTENDS Restart

OneSymbol == {0}
AnyPolicy == SyncPolicy
Buys == {"Buy"}
OnWriteOnly == {"OnWrite"}
IntervalOnly == {"Interval"}
=============================================================================
