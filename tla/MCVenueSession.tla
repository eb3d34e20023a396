--------------------------- MODULE MCVenueSession ----------------------------
(* Small instances of VenueSession for TLC. *)
EXTENDS VenueSession

CONSTANT A   \* the instrument

OneSymbol == {A}
=============================================================================
