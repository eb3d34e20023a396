------------------------------ MODULE SpscRing ------------------------------
(***************************************************************************)
(* hft::SpscRingBuffer (cpp/include/hft/ring_buffer.hpp): one thread       *)
(* pushes, another pops, with no lock.  try_push() and try_pop() are cut   *)
(* at their accesses to what both threads touch: the other side's index,   *)
(* the slot, and the publication of the own index.  Release and acquire on *)
(* the indices order the slot accesses, so steps may be interleaved as if  *)
(* memory were sequentially consistent.  The indices count up for ever, as *)
(* in the code, where they have 64 bits; a slot is the index modulo the    *)
(* capacity, which mask_ computes for a power of two.                      *)
(***************************************************************************)
EXTENDS Integers, Sequences

CONSTANTS
  Item,       \* what is pushed
  Blank,      \* what a slot holds before it was ever written
  Capacity    \* capacity_, after round_up_pow2()

ASSUME RingAssumption == Capacity \in Nat \ {0}

VARIABLES
  slots, head, tail,
  cachedTail, writer, item,    \* the producer's: its copy of tail_, where it is, the argument
  cachedHead, reader, out,     \* the consumer's: its copy of head_, where it is, the result
  pushed, popped               \* history: everything published and everything taken

producerVars == <<head, cachedTail, writer, item, pushed>>
consumerVars == <<tail, cachedHead, reader, out, popped>>
ringVars == <<slots, producerVars, consumerVars>>

RingInit ==
  /\ slots = [i \in 0..Capacity - 1 |-> Blank]
  /\ head = 0 /\ tail = 0
  /\ cachedTail = 0 /\ writer = "idle" /\ item = Blank
  /\ cachedHead = 0 /\ reader = "idle" /\ out = Blank
  /\ pushed = <<>> /\ popped = <<>>

\* Mutant: one item too many is taken for room.
FullAtOneMore(tailSeen) == head + 1 - tailSeen > Capacity + 1

Full(tailSeen) == head + 1 - tailSeen > Capacity

\* try_push() up to its decision.  tail_ is loaded only when the copy says full;
\* when it is full indeed, the call returns false and nothing else changed.
TryPush(x) ==
  /\ writer = "idle"
  /\ cachedTail' = IF Full(cachedTail) THEN tail ELSE cachedTail
  /\ IF Full(cachedTail') THEN UNCHANGED <<writer, item>> ELSE writer' = "writing" /\ item' = x
  /\ UNCHANGED <<slots, head, pushed, consumerVars>>

\* Mutant: what was pushed is not in its slot yet when it is published.
WriteNothing ==
  /\ writer = "writing"
  /\ writer' = "publishing"
  /\ UNCHANGED <<slots, head, cachedTail, item, pushed, consumerVars>>

WriteSlot ==
  /\ writer = "writing"
  /\ slots' = [slots EXCEPT ![head % Capacity] = item]
  /\ writer' = "publishing"
  /\ UNCHANGED <<head, cachedTail, item, pushed, consumerVars>>

Publish ==
  /\ writer = "publishing"
  /\ head' = head + 1
  /\ pushed' = Append(pushed, item)
  /\ writer' = "idle"
  /\ UNCHANGED <<slots, cachedTail, item, consumerVars>>

Empty(headSeen) == tail = headSeen

\* try_pop() up to its decision: false when there is nothing to take.
TryPop ==
  /\ reader = "idle"
  /\ cachedHead' = IF Empty(cachedHead) THEN head ELSE cachedHead
  /\ reader' = IF Empty(cachedHead') THEN "idle" ELSE "reading"
  /\ UNCHANGED <<slots, tail, out, popped, producerVars>>

ReadSlot ==
  /\ reader = "reading"
  /\ out' = slots[tail % Capacity]
  /\ reader' = "releasing"
  /\ UNCHANGED <<slots, tail, cachedHead, popped, producerVars>>

Release ==
  /\ reader = "releasing"
  /\ tail' = tail + 1
  /\ popped' = Append(popped, out)
  /\ reader' = "idle"
  /\ UNCHANGED <<slots, cachedHead, out, producerVars>>

RingNext ==
  \/ \E x \in Item : TryPush(x)
  \/ WriteSlot
  \/ Publish
  \/ TryPop
  \/ ReadSlot
  \/ Release

RingSpec == RingInit /\ [][RingNext]_ringVars

-----------------------------------------------------------------------------

Queue == INSTANCE Channel WITH entered <- pushed, left <- popped

\* The ring is a bounded first-in first-out channel: no slot is overwritten
\* before it was read or read before it was written, whatever either side's
\* copy of the other's index says.
ImplementsChannel == Queue!Spec

\* Everything a push and a pop in progress rely on.
RingTypeOK ==
  /\ slots \in [0..Capacity - 1 -> Item \cup {Blank}]
  /\ head \in Nat /\ tail \in Nat /\ cachedTail \in Nat /\ cachedHead \in Nat
  /\ writer \in {"idle", "writing", "publishing"} /\ item \in Item \cup {Blank}
  /\ reader \in {"idle", "reading", "releasing"} /\ out \in Item \cup {Blank}
  /\ pushed \in Seq(Item) /\ popped \in Seq(Item)

\* A copy is never ahead of the index it copies, and the indices count what
\* went in and what came out.
CopiesLagBehind ==
  /\ cachedTail <= tail /\ tail <= cachedHead /\ cachedHead <= head
  /\ head - tail <= Capacity
  /\ Len(pushed) = head /\ Len(popped) = tail

\* The slots between the indices hold what was pushed and not yet popped, and
\* neither side is at work on a slot of the other's.
SlotsHoldTheQueue ==
  /\ \A i \in 1..head : i > tail => slots[(i - 1) % Capacity] = pushed[i]
  /\ writer # "idle" => item \in Item /\ head + 1 - tail <= Capacity
  /\ writer = "publishing" => slots[head % Capacity] = item
  /\ reader # "idle" => tail < cachedHead
  /\ reader = "releasing" => out = pushed[tail + 1]

RingInv == RingTypeOK /\ CopiesLagBehind /\ SlotsHoldTheQueue

=============================================================================
