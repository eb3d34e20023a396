---------------------------- MODULE FeedMonitor ----------------------------
(***************************************************************************)
(* hft::FeedMonitor (cpp/src/feed_health.cpp) as operators on its state:   *)
(* the sequence check of each message and the watchdog for a feed that     *)
(* went silent.  require_sequence is on; of the statistics only            *)
(* messages_missing is kept.                                               *)
(***************************************************************************)
EXTENDS Integers

CONSTANTS
  HaltOnGap,      \* FeedHealthConfig::halt_on_gap
  ToleratedGap,   \* FeedHealthConfig::tolerated_gap
  StaleAfter      \* FeedHealthConfig::stale_after_ns in clock ticks, 0 for none

ASSUME MonitorAssumption ==
  HaltOnGap \in BOOLEAN /\ ToleratedGap \in Nat /\ StaleAfter \in Nat

\* quiet is now_ns - last_message_ns_, no more than StaleAfter of it; seen is
\* seen_any_, heard that some message came at all.
NewMonitor ==
  [last |-> 0, seen |-> FALSE, heard |-> FALSE, quiet |-> 0,
   stale |-> FALSE, faulted |-> FALSE, missing |-> 0]

Unsequenced == 0

\* What on_tick() makes of a sequence number.
Status(f, sequence) ==
  CASE sequence = Unsequenced -> "Unsequenced"
    [] sequence # Unsequenced /\ (~f.seen \/ sequence = f.last + 1) -> "Ok"
    [] f.seen /\ sequence # Unsequenced /\ sequence = f.last -> "Duplicate"
    [] f.seen /\ sequence # Unsequenced /\ sequence < f.last -> "Reordered"
    [] OTHER -> "Gap"

\* Whether a message becomes the last one in sequence.
Advances(f, sequence) == Status(f, sequence) \in {"Ok", "Gap"}

\* Mutant: the message that shows a gap is counted as one that is missing.
LostWithShown(f, sequence) == sequence - f.last

Lost(f, sequence) == sequence - (f.last + 1)

\* Mutant: a gap as large as the tolerated one and one more is let pass.
IntolerableLate(missing) == HaltOnGap /\ missing > ToleratedGap + 1

Intolerable(missing) == HaltOnGap /\ missing > ToleratedGap

\* on_tick() for a message that was received age ticks ago.
OnTick(f, sequence, age) ==
  LET gap == Status(f, sequence) = "Gap"
      missing == IF gap THEN Lost(f, sequence) ELSE 0
  IN [f EXCEPT !.heard = TRUE,
               !.quiet = age,
               !.stale = FALSE,
               !.seen = @ \/ (sequence # Unsequenced),
               !.last = IF Advances(f, sequence) THEN sequence ELSE @,
               !.missing = @ + missing,
               !.faulted = @ \/ (gap /\ Intolerable(missing))]

\* Mutant: the watchdog waits for a message with a sequence number.
SilentOnceSequenced(f) == StaleAfter > 0 /\ f.seen /\ f.quiet >= StaleAfter

Silent(f) == StaleAfter > 0 /\ f.heard /\ f.quiet >= StaleAfter

\* check_stale() returns Silent(f); only the transition is a fault.
CheckStale(f) ==
  IF Silent(f) /\ ~f.stale THEN [f EXCEPT !.stale = TRUE, !.faulted = TRUE] ELSE f

=============================================================================
