------------------------------- MODULE Logger -------------------------------
(***************************************************************************)
(* hft::Logger (cpp/src/log.cpp) between start() and the end of stop(),    *)
(* with the threads the program gives it: the engine's, the signal watcher *)
(* of main.cpp and the logger's own writer.  emit() pushes into the ring   *)
(* of ring_buffer.hpp, which is made for a single producer: a push loads   *)
(* head_ into a local, decides, writes the slot and stores head_, and here *)
(* the steps of two pushes may interleave.  A record is the name of the    *)
(* thread that logs it; main joins the watcher before it calls stop().     *)
(***************************************************************************)
EXTENDS Integers, Sequences, FiniteSets

CONSTANTS
  Caller,     \* the threads that log
  Records,    \* bound: how many records each of them logs
  Capacity    \* of the ring

VARIABLES
  slots, head, tail, cachedTail, cachedHead,
  dropped,    \* dropped_
  at, seen,   \* where each caller is in its push, and its local copy of head_
  left,       \* the records it has still to log
  running,    \* running_
  phase,      \* of the ring's reader: the writer thread's loop, the drain in stop(), the end
  reader,     \* whether it is inside a pop, and with which record
  written     \* history: what write_one() printed

callerVars == <<at, seen, left>>
readerVars == <<tail, cachedHead, phase, reader, written>>
vars == <<slots, head, cachedTail, dropped, running, callerVars, readerVars>>

NoRecord == "none"

Init ==
  /\ slots = [i \in 0..Capacity - 1 |-> NoRecord]
  /\ head = 0 /\ tail = 0 /\ cachedTail = 0 /\ cachedHead = 0 /\ dropped = 0
  /\ at = [c \in Caller |-> "idle"] /\ seen = [c \in Caller |-> 0]
  /\ left = [c \in Caller |-> Records]
  /\ running = TRUE /\ phase = "logging" /\ reader = "idle" /\ written = <<>>

\* push_or_drop() up to its decision: a record that finds no room is counted.
Emit(c) ==
  LET Full(tailSeen) == head + 1 - tailSeen > Capacity
  IN /\ running /\ at[c] = "idle" /\ left[c] > 0
     /\ left' = [left EXCEPT ![c] = @ - 1]
     /\ cachedTail' = IF Full(cachedTail) THEN tail ELSE cachedTail
     /\ IF Full(cachedTail')
        THEN dropped' = dropped + 1 /\ UNCHANGED <<at, seen>>
        ELSE /\ at' = [at EXCEPT ![c] = "writing"]
             /\ seen' = [seen EXCEPT ![c] = head]
             /\ UNCHANGED dropped
     /\ UNCHANGED <<slots, head, running, readerVars>>

WriteSlot(c) ==
  /\ at[c] = "writing"
  /\ slots' = [slots EXCEPT ![seen[c] % Capacity] = c]
  /\ at' = [at EXCEPT ![c] = "publishing"]
  /\ UNCHANGED <<head, cachedTail, dropped, running, seen, left, readerVars>>

Publish(c) ==
  /\ at[c] = "publishing"
  /\ head' = seen[c] + 1
  /\ at' = [at EXCEPT ![c] = "idle"]
  /\ UNCHANGED <<slots, cachedTail, dropped, running, seen, left, readerVars>>

\* A pop that finds nothing ends the writer's batch, and the loop when stop()
\* was called; the drain that follows ends with the first such pop.
TryPop ==
  LET Empty(headSeen) == tail = headSeen
  IN /\ reader = "idle" /\ phase # "stopped"
     /\ cachedHead' = IF Empty(cachedHead) THEN head ELSE cachedHead
     /\ IF Empty(cachedHead')
        THEN /\ phase' = CASE phase = "draining" -> "stopped"
                           [] phase = "logging" /\ ~running -> "draining"
                           [] OTHER -> phase
             /\ UNCHANGED reader
        ELSE reader' = slots[tail % Capacity] /\ UNCHANGED phase
     /\ UNCHANGED <<slots, head, cachedTail, dropped, running, callerVars, tail, written>>

\* The record is released and written.
WriteOne ==
  /\ reader # "idle"
  /\ tail' = tail + 1
  /\ written' = Append(written, reader)
  /\ reader' = "idle"
  /\ UNCHANGED <<slots, head, cachedTail, dropped, running, callerVars, cachedHead, phase>>

Stop ==
  /\ running /\ \A c \in Caller : at[c] = "idle" /\ left[c] = 0
  /\ running' = FALSE
  /\ UNCHANGED <<slots, head, cachedTail, dropped, callerVars, readerVars>>

Next ==
  \/ \E c \in Caller : Emit(c) \/ WriteSlot(c) \/ Publish(c)
  \/ TryPop
  \/ WriteOne
  \/ Stop

Spec == Init /\ [][Next]_vars

-----------------------------------------------------------------------------

\* What log.hpp promises at shutdown: every record was written, or is in the
\* drop count that main.cpp reports.
NothingIsLostSilently ==
  phase = "stopped" => Len(written) + dropped = Records * Cardinality(Caller)

=============================================================================
