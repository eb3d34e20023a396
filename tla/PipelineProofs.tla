--------------------------- MODULE PipelineProofs ---------------------------
(***************************************************************************)
(* The ring buffer is a bounded first-in first-out channel, for every      *)
(* capacity and every interleaving of its two threads; the two threads of  *)
(* run_threaded() use it as it must be used, so that this holds in the     *)
(* engine too, and no message of the feed is left behind at the end of a   *)
(* run nobody stopped.                                                     *)
(*                                                                         *)
(* That what is popped is what was pushed follows from what the slots      *)
(* between the two indices hold, and this is kept because a slot being     *)
(* written is never one of them: the window is no wider than the capacity, *)
(* so no two of its indices fall on one slot.  That the window is no wider *)
(* rests on the copies never being ahead of what they copy.                *)
(*                                                                         *)
(* That none is left behind: the producer's messages are all published     *)
(* but the one it is pushing (Accounted); producer_done is set after the   *)
(* last of them, so once it was seen the indices say all there is to say   *)
(* (DoneMeansPublished); and the loop is left only after it was seen.      *)
(*                                                                         *)
(* What the monitor says of the feed then follows in three steps: the ring *)
(* carries ordinals, so the consumer processes what the feed gave, in      *)
(* order (InOrder); the monitor's last number and its count of what is     *)
(* missing are those of the book (Follows), since the book grows upwards   *)
(* only; and a gap wider than tolerated faults it, which halts trading     *)
(* (SessionSound).                                                         *)
(***************************************************************************)
EXTENDS Pipeline, FiniteSetTheorems, TLAPS

-----------------------------------------------------------------------------
(***************************************************************************)
(* The ring alone.                                                         *)
(***************************************************************************)

\* Two indices less than a capacity apart fall on different slots.
LEMMA DifferentSlots ==
  ASSUME NEW c \in Nat \ {0}, NEW i \in Nat, NEW j \in Nat, i < j, j - i < c
  PROVE  i % c # j % c
<1> DEFINE p == i \div c
           q == j \div c
<1>1. p \in Int /\ q \in Int /\ i = c * p + (i % c) /\ j = c * q + (j % c)
  OBVIOUS
<1>2. SUFFICES ASSUME i % c = j % c PROVE FALSE
  OBVIOUS
<1>3. j - i = c * (q - p)
  BY <1>1, <1>2, SMT
<1> HIDE DEF p, q
<1>4. q - p \in Int
  BY <1>1
<1>5. CASE q - p <= 0
  <2>1. c * (q - p) <= 0
    BY <1>1, <1>5, SMT
  <2> QED BY <2>1, <1>3
<1>6. CASE q - p >= 1
  <2>1. c * (q - p) >= c
    BY <1>1, <1>6, SMT
  <2> QED BY <2>1, <1>3
<1> QED BY <1>4, <1>5, <1>6

\* A slot's number is one of the slots.
LEMMA SlotInRange ==
  ASSUME NEW c \in Nat \ {0}, NEW i \in Nat
  PROVE  i % c \in 0..c - 1
OBVIOUS

-----------------------------------------------------------------------------

USE RingAssumption

\* Nothing is in the ring to begin with.
LEMMA RingStarts == RingInit => RingInv
<1> SUFFICES ASSUME RingInit PROVE RingInv
  OBVIOUS
<1>1. RingTypeOK
  BY DEF RingInit, RingTypeOK
<1>2. CopiesLagBehind
  BY DEF RingInit, CopiesLagBehind
<1>3. SlotsHoldTheQueue
  BY DEF RingInit, SlotsHoldTheQueue
<1> QED BY <1>1, <1>2, <1>3 DEF RingInv

\* A push decides that there is room only when there is: its copy of the
\* consumer's index may be old, but never ahead.
LEMMA TryPushKeeps ==
  ASSUME RingInv, NEW x \in Item, TryPush(x) PROVE RingInv'
<1> USE DEF RingInv, TryPush, Full, producerVars, consumerVars
<1>1. RingTypeOK'
  BY DEF RingTypeOK
<1>2. CopiesLagBehind'
  BY DEF RingTypeOK, CopiesLagBehind
<1>3. SlotsHoldTheQueue'
  <2>1. writer' # "idle" => item' \in Item /\ head + 1 - tail <= Capacity
    BY DEF RingTypeOK, CopiesLagBehind
  <2>2. writer' # "publishing"
    OBVIOUS
  <2> QED BY <2>1, <2>2 DEF SlotsHoldTheQueue
<1> QED BY <1>1, <1>2, <1>3

\* The slot written is none of those between the indices.
LEMMA WriteSlotKeeps ==
  ASSUME RingInv, WriteSlot PROVE RingInv'
<1> USE DEF RingInv, WriteSlot, producerVars, consumerVars
<1>1. RingTypeOK'
  <2>1. head % Capacity \in 0..Capacity - 1
    BY SlotInRange DEF RingTypeOK
  <2> QED BY <2>1 DEF RingTypeOK, SlotsHoldTheQueue
<1>2. CopiesLagBehind'
  BY DEF CopiesLagBehind
<1>3. SlotsHoldTheQueue'
  <2>1. ASSUME NEW i \in 1..head, i > tail
        PROVE  slots'[(i - 1) % Capacity] = pushed[i]
    <3>1. i - 1 \in Nat /\ i - 1 < head /\ head - (i - 1) < Capacity
      BY <2>1 DEF RingTypeOK, CopiesLagBehind, SlotsHoldTheQueue
    <3>2. (i - 1) % Capacity # head % Capacity
      BY <3>1, DifferentSlots DEF RingTypeOK
    <3>3. (i - 1) % Capacity \in 0..Capacity - 1
      BY <3>1, SlotInRange
    <3>4. slots'[(i - 1) % Capacity] = slots[(i - 1) % Capacity]
      BY <3>2, <3>3 DEF RingTypeOK
    <3> QED BY <2>1, <3>4 DEF SlotsHoldTheQueue
  <2>2. slots'[head % Capacity] = item
    <3>1. head % Capacity \in 0..Capacity - 1
      BY SlotInRange DEF RingTypeOK
    <3> QED BY <3>1 DEF RingTypeOK
  <2> QED BY <2>1, <2>2 DEF SlotsHoldTheQueue
<1> QED BY <1>1, <1>2, <1>3

LEMMA PublishKeeps ==
  ASSUME RingInv, Publish PROVE RingInv'
<1> USE DEF RingInv, Publish, producerVars, consumerVars
<1>1. item \in Item
  BY DEF SlotsHoldTheQueue
<1>2. RingTypeOK'
  BY <1>1 DEF RingTypeOK
<1>3. CopiesLagBehind'
  <2>1. head + 1 - tail <= Capacity
    BY DEF SlotsHoldTheQueue
  <2>2. Len(pushed') = Len(pushed) + 1
    BY <1>1 DEF RingTypeOK
  <2> QED BY <2>1, <2>2 DEF RingTypeOK, CopiesLagBehind
<1>4. /\ \A i \in 1..head : pushed'[i] = pushed[i]
      /\ pushed'[head + 1] = item
  BY <1>1 DEF RingTypeOK, CopiesLagBehind
<1>5. SlotsHoldTheQueue'
  <2>1. ASSUME NEW i \in 1..head + 1, i > tail
        PROVE  slots[(i - 1) % Capacity] = pushed'[i]
    <3>1. CASE i = head + 1
      BY <3>1, <1>4 DEF RingTypeOK, SlotsHoldTheQueue
    <3>2. CASE i # head + 1
      <4>1. i \in 1..head
        BY <3>2 DEF RingTypeOK
      <4> QED BY <4>1, <2>1, <1>4 DEF SlotsHoldTheQueue
    <3> QED BY <3>1, <3>2
  <2>2. reader = "releasing" => out = pushed'[tail + 1]
    BY <1>4 DEF RingTypeOK, CopiesLagBehind, SlotsHoldTheQueue
  <2> QED BY <2>1, <2>2 DEF SlotsHoldTheQueue
<1> QED BY <1>2, <1>3, <1>5

LEMMA TryPopKeeps ==
  ASSUME RingInv, TryPop PROVE RingInv'
<1> USE DEF RingInv, TryPop, Empty, producerVars, consumerVars
<1>1. RingTypeOK'
  BY DEF RingTypeOK
<1>2. CopiesLagBehind'
  BY DEF RingTypeOK, CopiesLagBehind
<1>3. SlotsHoldTheQueue'
  <2>1. reader' # "idle" => tail < cachedHead'
    BY DEF RingTypeOK, CopiesLagBehind
  <2>2. reader' # "releasing"
    OBVIOUS
  <2> QED BY <2>1, <2>2 DEF SlotsHoldTheQueue
<1> QED BY <1>1, <1>2, <1>3

\* What is read is the oldest of what was pushed and not yet popped.
LEMMA ReadSlotKeeps ==
  ASSUME RingInv, ReadSlot PROVE RingInv'
<1> USE DEF RingInv, ReadSlot, producerVars, consumerVars
<1>1. tail + 1 \in 1..head /\ tail + 1 > tail /\ (tail + 1) - 1 = tail
  BY DEF RingTypeOK, CopiesLagBehind, SlotsHoldTheQueue
<1>2. slots[tail % Capacity] = pushed[tail + 1]
  BY <1>1 DEF SlotsHoldTheQueue
<1>3. pushed[tail + 1] \in Item
  BY <1>1 DEF RingTypeOK, CopiesLagBehind
<1>4. RingTypeOK'
  BY <1>2, <1>3 DEF RingTypeOK
<1>5. CopiesLagBehind'
  BY DEF CopiesLagBehind
<1>6. SlotsHoldTheQueue'
  BY <1>2 DEF SlotsHoldTheQueue
<1> QED BY <1>4, <1>5, <1>6

LEMMA ReleaseKeeps ==
  ASSUME RingInv, Release PROVE RingInv'
<1> USE DEF RingInv, Release, producerVars, consumerVars
<1>1. tail + 1 \in 1..head /\ tail < cachedHead
  BY DEF RingTypeOK, CopiesLagBehind, SlotsHoldTheQueue
<1>2. out \in Item
  BY <1>1 DEF RingTypeOK, CopiesLagBehind, SlotsHoldTheQueue
<1>3. RingTypeOK'
  BY <1>2 DEF RingTypeOK
<1>4. CopiesLagBehind'
  BY <1>1, <1>2 DEF RingTypeOK, CopiesLagBehind
<1>5. SlotsHoldTheQueue'
  BY DEF RingTypeOK, CopiesLagBehind, SlotsHoldTheQueue
<1> QED BY <1>3, <1>4, <1>5

LEMMA RingStep == RingInv /\ [RingNext]_ringVars => RingInv'
<1> SUFFICES ASSUME RingInv, [RingNext]_ringVars PROVE RingInv'
  OBVIOUS
<1>1. ASSUME NEW x \in Item, TryPush(x) PROVE RingInv'
  BY <1>1, TryPushKeeps
<1>2. CASE WriteSlot
  BY <1>2, WriteSlotKeeps
<1>3. CASE Publish
  BY <1>3, PublishKeeps
<1>4. CASE TryPop
  BY <1>4, TryPopKeeps
<1>5. CASE ReadSlot
  BY <1>5, ReadSlotKeeps
<1>6. CASE Release
  BY <1>6, ReleaseKeeps
<1>7. CASE UNCHANGED ringVars
  BY <1>7 DEF RingInv, RingTypeOK, CopiesLagBehind, SlotsHoldTheQueue, ringVars, producerVars,
              consumerVars
<1> QED BY <1>1, <1>2, <1>3, <1>4, <1>5, <1>6, <1>7 DEF RingNext

\* The slots between the indices hold what was pushed and not yet popped, and no
\* side works on a slot of the other's, for every capacity.
THEOREM RingIsSound == RingSpec => []RingInv
<1>1. RingInit => RingInv
  BY RingStarts
<1>2. RingInv /\ [RingNext]_ringVars => RingInv'
  BY RingStep
<1> QED BY <1>1, <1>2, PTL DEF RingSpec

\* Each step of the ring is one of the channel or none: an item enters when it is
\* published, in room there is, and leaves when its slot is given back, in order.
LEMMA RingStepIsChannelStep ==
  RingInv /\ [RingNext]_ringVars => [Queue!Next]_<<pushed, popped>>
<1> SUFFICES ASSUME RingInv, [RingNext]_ringVars PROVE [Queue!Next]_<<pushed, popped>>
  OBVIOUS
<1>1. CASE Publish
  <2>1. item \in Item /\ Len(pushed) - Len(popped) < Capacity
    BY <1>1 DEF Publish, RingInv, RingTypeOK, CopiesLagBehind, SlotsHoldTheQueue
  <2>2. pushed' = Append(pushed, item) /\ popped' = popped
    BY <1>1 DEF Publish, consumerVars
  <2> QED BY <2>1, <2>2 DEF Queue!Next, Queue!Enter
<1>2. CASE Release
  <2>1. Len(popped) < Len(pushed) /\ out = pushed[Len(popped) + 1]
    BY <1>2 DEF Release, RingInv, RingTypeOK, CopiesLagBehind, SlotsHoldTheQueue
  <2>2. popped' = Append(popped, out) /\ pushed' = pushed
    BY <1>2 DEF Release, producerVars
  <2> QED BY <2>1, <2>2 DEF Queue!Next, Queue!Leave
<1>3. ASSUME NEW x \in Item, TryPush(x) PROVE UNCHANGED <<pushed, popped>>
  BY <1>3 DEF TryPush, consumerVars
<1>4. CASE WriteSlot \/ TryPop \/ ReadSlot \/ UNCHANGED ringVars
  BY <1>4 DEF WriteSlot, TryPop, ReadSlot, ringVars, producerVars, consumerVars
<1> QED BY <1>1, <1>2, <1>3, <1>4 DEF RingNext

\* Whatever its capacity and however the two threads interleave, the ring is a
\* bounded first-in first-out channel.
THEOREM RingImplementsChannel == RingSpec => ImplementsChannel
<1>1. RingInit => Queue!Init
  BY DEF RingInit, Queue!Init
<1>2. RingInv /\ [RingNext]_ringVars => [Queue!Next]_<<pushed, popped>>
  BY RingStepIsChannelStep
<1> QED BY <1>1, <1>2, RingIsSound, PTL DEF RingSpec, ImplementsChannel, Queue!Spec

-----------------------------------------------------------------------------
(***************************************************************************)
(* The threads and the feed.                                               *)
(***************************************************************************)

USE PipelineAssumption

InPush == producer \in {"push", "pushing"}

\* The threads are inside a call of the ring just when their loops are.
CallsMatch ==
  /\ producer \in {"test", "next", "push", "pushing", "finish", "finished"}
  /\ (producer = "pushing") = (writer # "idle")
  /\ (consumer = "popping") = (reader # "idle")

\* What the feed gave is published, but for the message being pushed.
Accounted ==
  /\ given \in Seq(0..MaxSequence) /\ Len(given) <= MaxMessages
  /\ Len(given) = IF InPush THEN head + 1 ELSE head

DoneMeansPublished ==
  /\ producerDone = (producer = "finished")
  /\ consumer = "last look" => producerDone
  /\ consumer = "ended" => producerDone /\ (head = tail \/ stop)
  /\ stop \in BOOLEAN

PipelineInv == RingInv /\ CallsMatch /\ Accounted /\ DoneMeansPublished

-----------------------------------------------------------------------------

LEMMA Appending ==
  ASSUME NEW S, NEW q \in Seq(S), NEW x \in S
  PROVE  Append(q, x) \in Seq(S) /\ Len(Append(q, x)) = Len(q) + 1
OBVIOUS

\* The entries of a sequence, and those of one as long.
LEMMA Remapping ==
  ASSUME NEW S, NEW q \in Seq(S)
  PROVE  /\ Len(q) \in Nat /\ DOMAIN q = 1..Len(q) /\ \A n \in 1..Len(q) : q[n] \in S
         /\ \A T, r : r \in [1..Len(q) -> T] => r \in Seq(T) /\ Len(r) = Len(q)
OBVIOUS

LEMMA PipelineStarts == Init => RingInit /\ PipelineInv
<1> SUFFICES ASSUME Init PROVE RingInit /\ PipelineInv
  OBVIOUS
<1>1. RingInit
  BY DEF Init
<1>2. RingInv
  BY <1>1, RingStarts
<1>3. CallsMatch /\ DoneMeansPublished
  BY <1>1 DEF Init, RingInit, CallsMatch, DoneMeansPublished
<1>4. Accounted
  <2>1. given = <<>> /\ head = 0 /\ producer = "test"
    BY DEF Init, RingInit
  <2>2. given \in Seq(0..MaxSequence) /\ Len(given) = 0
    BY <2>1
  <2>3. ~InPush
    BY <2>1 DEF InPush
  <2> QED BY <2>1, <2>2, <2>3 DEF Accounted
<1> QED BY <1>1, <1>2, <1>3, <1>4 DEF PipelineInv

\* Every step of the engine is a step of the ring, or leaves it alone.
LEMMA PipelineStepIsRingStep == PipelineInv /\ [Next]_vars => [RingNext]_ringVars
<1> SUFFICES ASSUME PipelineInv, [Next]_vars PROVE [RingNext]_ringVars
  OBVIOUS
<1>1. CASE PushStep
  <2>1. Len(given) \in Item
    BY <1>1 DEF PushStep, PipelineInv, Accounted, InPush, RingInv, RingTypeOK
  <2> QED BY <1>1, <2>1 DEF PushStep, RingNext
<1>2. CASE WriteStep \/ PublishStep \/ PopStep \/ ReadStep \/ ReleaseStep
  BY <1>2 DEF WriteStep, PublishStep, PopStep, ReadStep, ReleaseStep, RingNext
<1>3. CASE TestStop \/ (\E s \in 0..MaxSequence : FeedNext(s)) \/ FeedEnds \/ FinishProducer
  BY <1>3 DEF TestStop, FeedNext, FeedEnds, FinishProducer
<1>4. CASE Process \/ TestDone \/ LastLook \/ TestStopRequest \/ Idle
  BY <1>4 DEF Process, TestDone, LastLook, TestStopRequest, Idle
<1>5. CASE RequestStop \/ Tick \/ Ended \/ UNCHANGED vars
  BY <1>5 DEF RequestStop, Tick, Ended, vars
<1> QED BY <1>1, <1>2, <1>3, <1>4, <1>5 DEF Next, ProducerNext, ConsumerNext

LEMMA ProducerKeeps ==
  ASSUME PipelineInv, RingInv', ProducerNext
  PROVE  CallsMatch' /\ Accounted' /\ DoneMeansPublished'
<1> USE DEF PipelineInv, CallsMatch, Accounted, DoneMeansPublished, InPush
<1> head \in Nat
  BY DEF RingInv, RingTypeOK
<1>1. CASE TestStop \/ FeedEnds \/ FinishProducer
  BY <1>1 DEF TestStop, FeedEnds, FinishProducer, ringVars, producerVars, consumerVars, feedVars
<1>2. ASSUME NEW s \in 0..MaxSequence, FeedNext(s)
      PROVE  CallsMatch' /\ Accounted' /\ DoneMeansPublished'
  <2>1. given' = Append(given, s) /\ Len(given) < MaxMessages /\ Len(given) = head
    BY <1>2 DEF FeedNext
  <2>2. given' \in Seq(0..MaxSequence) /\ Len(given') = head + 1
    BY <2>1, Appending
  <2>3. producer' = "push" /\ head' = head
    BY <1>2 DEF FeedNext, ringVars, producerVars
  <2>4. Accounted'
    <3>1. Len(given') <= MaxMessages
      <4> HIDE DEF PipelineInv
      <4>1. head < MaxMessages
        BY <2>1
      <4> QED BY <2>2, <4>1
    <3> QED BY <2>2, <2>3, <3>1
  <2>5. CallsMatch' /\ DoneMeansPublished'
    BY <1>2 DEF FeedNext, ringVars, producerVars, consumerVars
  <2> QED BY <2>4, <2>5
<1>3. CASE PushStep
  <2>1. writer = "idle" /\ head' = head /\ UNCHANGED <<tail, reader>>
    BY <1>3 DEF PushStep, TryPush, consumerVars
  <2>2. writer' \in {"idle", "writing"}
    BY <1>3, <2>1 DEF PushStep, TryPush
  <2> QED BY <1>3, <2>1, <2>2 DEF PushStep, feedVars
<1>4. CASE WriteStep
  BY <1>4 DEF WriteStep, WriteSlot, controlVars, producerVars, consumerVars
<1>5. CASE PublishStep
  BY <1>5 DEF PublishStep, Publish, feedVars, consumerVars
<1> QED BY <1>1, <1>2, <1>3, <1>4, <1>5 DEF ProducerNext

LEMMA ConsumerKeeps ==
  ASSUME PipelineInv, RingInv', ConsumerNext
  PROVE  CallsMatch' /\ Accounted' /\ DoneMeansPublished'
<1> USE DEF PipelineInv, CallsMatch, Accounted, DoneMeansPublished, InPush
<1>1. CASE PopStep
  <2>1. UNCHANGED <<head, tail, writer>> /\ reader = "idle" /\ reader' \in {"idle", "reading"}
    BY <1>1 DEF PopStep, TryPop, producerVars
  <2> QED BY <1>1, <2>1 DEF PopStep, feedVars
<1>2. CASE ReadStep
  BY <1>2 DEF ReadStep, ReadSlot, controlVars, producerVars
<1>3. CASE ReleaseStep
  BY <1>3 DEF ReleaseStep, Release, feedVars, producerVars
<1>4. CASE Process \/ Idle
  BY <1>4 DEF Process, Idle, ringVars, producerVars, consumerVars, feedVars
<1>5. CASE TestDone \/ LastLook \/ TestStopRequest
  BY <1>5 DEF TestDone, LastLook, TestStopRequest, ringVars, producerVars, consumerVars, feedVars
<1> QED BY <1>1, <1>2, <1>3, <1>4, <1>5 DEF ConsumerNext

LEMMA PipelineStep == PipelineInv /\ [Next]_vars => PipelineInv'
<1> SUFFICES ASSUME PipelineInv, [Next]_vars PROVE PipelineInv'
  OBVIOUS
<1>1. RingInv'
  BY PipelineStepIsRingStep, RingStep DEF PipelineInv
<1>2. CallsMatch' /\ Accounted' /\ DoneMeansPublished'
  <2> USE DEF PipelineInv, CallsMatch, Accounted, DoneMeansPublished, InPush
  <2>1. CASE ProducerNext
    BY <2>1, <1>1, ProducerKeeps
  <2>2. CASE ConsumerNext
    BY <2>2, <1>1, ConsumerKeeps
  <2>3. CASE RequestStop \/ Tick \/ Ended \/ UNCHANGED vars
    BY <2>3 DEF RequestStop, Tick, Ended, vars, controlVars, feedVars, ringVars, producerVars,
                consumerVars
  <2> QED BY <2>1, <2>2, <2>3 DEF Next
<1> QED BY <1>1, <1>2 DEF PipelineInv

\* The engine's two threads keep to the ring's rules in every run.
THEOREM PipelineIsSound == Spec => []PipelineInv
<1>1. Init => PipelineInv
  BY PipelineStarts
<1>2. PipelineInv /\ [Next]_vars => PipelineInv'
  BY PipelineStep
<1> QED BY <1>1, <1>2, PTL DEF Spec

\* From the feed to process() the ticks of the engine go through a bounded
\* first-in first-out channel, whatever its capacity and the interleaving.
THEOREM PipelineImplementsChannel == Spec => ImplementsChannel
<1>1. Init => RingInit
  BY PipelineStarts
<1>2. PipelineInv /\ [Next]_vars => [RingNext]_ringVars
  BY PipelineStepIsRingStep
<1>3. Spec => RingSpec
  BY <1>1, <1>2, PipelineIsSound, PTL DEF Spec, RingSpec
<1> QED BY <1>3, RingImplementsChannel

\* When the consumer's loop has ended, all the feed gave was processed, unless a
\* stop was asked for, and even then only what the ring holds was not.
THEOREM PipelineLeavesNothing == Spec => []NothingIsLeftBehind
<1>1. PipelineInv => NothingIsLeftBehind
  <2> SUFFICES ASSUME PipelineInv, consumer = "ended"
               PROVE  /\ head = Len(given) /\ producer \in {"finish", "finished"}
                      /\ Processed = Len(given) \/ stop
                      /\ Len(given) - Processed <= Capacity
    BY DEF NothingIsLeftBehind
  <2>1. producer = "finished" /\ head = Len(given) /\ (head = tail \/ stop)
    BY DEF PipelineInv, DoneMeansPublished, Accounted, InPush
  <2>2. Processed = tail
    BY DEF Processed, PipelineInv, RingInv, RingTypeOK, CopiesLagBehind
  <2>3. head - tail <= Capacity
    BY DEF PipelineInv, RingInv, CopiesLagBehind
  <2> QED BY <2>1, <2>2, <2>3
<1> QED BY <1>1, PipelineIsSound, PTL

-----------------------------------------------------------------------------
(***************************************************************************)
(* The monitor and the book.                                               *)
(***************************************************************************)

MonitorRecord ==
  [last : 0..MaxSequence, seen : BOOLEAN, heard : BOOLEAN, quiet : 0..StaleAfter,
   stale : BOOLEAN, faulted : BOOLEAN, missing : Nat]

Entries(a) == {a[i] : i \in DOMAIN a}

\* The messages carry their ordinals through the ring, so what the consumer
\* processes is one the feed gave.
InOrder ==
  /\ \A i \in 1..head : pushed[i] = i
  /\ writer # "idle" => item = head + 1
  /\ consumer = "process" => out \in 1..head

\* The monitor f has followed the book a: it knows the last number in it and how
\* many are missing, and it is faulted if a gap was wider than tolerated.
Follows(f, a) ==
  /\ a \in Seq(1..MaxSequence)
  /\ \A i, j \in DOMAIN a : i < j => a[i] < a[j]
  /\ f.seen <=> a # <<>>
  /\ a = <<>> => f.missing = 0
  /\ a # <<>> => /\ f.last = a[Len(a)]
                 /\ f.missing = Cardinality((a[1]..f.last) \ Entries(a))
  /\ ~f.faulted /\ HaltOnGap => \A i \in 2..Len(a) : a[i] - a[i - 1] <= ToleratedGap + 1

\* A faulted feed has halted the engine.
SessionSound ==
  /\ consumer \in {"pop", "nothing", "popping", "process", "last look", "test stop", "idle", "ended"}
  /\ halted \in BOOLEAN
  /\ age \in Seq(0..StaleAfter) /\ Len(age) = Len(given)
  /\ monitor \in MonitorRecord
  /\ Follows(monitor, applied)
  /\ monitor.faulted => halted

SessionInv == InOrder /\ SessionSound

-----------------------------------------------------------------------------

\* The numbers from first to next that are not in the book, one of them being next,
\* are those up to last and all between last and next.
LEMMA Skipping ==
  ASSUME NEW first \in Nat, NEW last \in Nat, NEW next \in Nat, first <= last, last < next,
         NEW S \in SUBSET (first..last)
  PROVE  Cardinality((first..next) \ (S \cup {next})) =
           Cardinality((first..last) \ S) + (next - last - 1)
<1> DEFINE old == (first..last) \ S
           lost == (last + 1)..(next - 1)
<1>1. (first..next) \ (S \cup {next}) = old \cup lost
  OBVIOUS
<1>2. old \cap lost = {}
  OBVIOUS
<1>3. IsFiniteSet(old) /\ Cardinality(old) \in Nat
  <2>1. IsFiniteSet(first..last)
    <3>1. first \in Int /\ last \in Int
      OBVIOUS
    <3> QED BY ONLY <3>1, FS_Interval
  <2> QED BY <2>1, FS_Subset, FS_CardinalityType
<1>4. IsFiniteSet(lost) /\ Cardinality(lost) = next - last - 1
  <2>1. last + 1 \in Int /\ next - 1 \in Int
    OBVIOUS
  <2>2. /\ IsFiniteSet(lost)
        /\ Cardinality(lost) = IF last + 1 > next - 1 THEN 0 ELSE next - 1 - (last + 1) + 1
    BY ONLY <2>1, FS_Interval
  <2> HIDE DEF lost
  <2> QED BY <2>2
<1> HIDE DEF old, lost
<1>5. Cardinality(old \cup lost) =
        Cardinality(old) + Cardinality(lost) - Cardinality(old \cap lost)
  BY <1>3, <1>4, FS_Union
<1>6. Cardinality(old \cap lost) = 0
  BY <1>2, FS_EmptySet
<1>7. Cardinality(old \cup lost) = Cardinality(old) + (next - last - 1)
  BY <1>3, <1>4, <1>5, <1>6
<1> QED BY <1>1, <1>7 DEF old

\* A number beyond the last one enters the book.
LEMMA BookGrows ==
  ASSUME NEW f \in MonitorRecord, NEW a, Follows(f, a),
         NEW sequence \in 1..MaxSequence, a # <<>> => f.last < sequence,
         NEW n \in MonitorRecord, n.seen = TRUE, n.last = sequence,
         n.missing = IF a = <<>> THEN 0 ELSE f.missing + (sequence - f.last - 1),
         ~n.faulted => ~f.faulted,
         ~n.faulted /\ HaltOnGap /\ a # <<>> => sequence - f.last <= ToleratedGap + 1
  PROVE  Follows(n, Append(a, sequence))
<1> DEFINE b == Append(a, sequence)
           k == Len(a)
<1>1. a \in Seq(1..MaxSequence) /\ k \in Nat /\ (a = <<>> <=> k = 0)
  BY DEF Follows
<1>2. /\ b \in Seq(1..MaxSequence) /\ Len(b) = k + 1 /\ DOMAIN b = 1..k + 1 /\ DOMAIN a = 1..k
      /\ b[k + 1] = sequence /\ \A i \in 1..k : b[i] = a[i] /\ a[i] \in 1..MaxSequence
  BY <1>1
<1> HIDE DEF b, k
<1>3. k # 0 => f.last = a[k] /\ a[k] < sequence /\ \A i \in 1..k : a[i] <= a[k] /\ a[1] <= a[i]
  <2> SUFFICES ASSUME k # 0 PROVE f.last = a[k] /\ a[k] < sequence
                                  /\ \A i \in 1..k : a[i] <= a[k] /\ a[1] <= a[i]
    OBVIOUS
  <2>1. f.last = a[k] /\ f.last < sequence /\ 1 \in 1..k /\ k \in 1..k
    BY <1>1 DEF Follows, k
  <2>2. \A i, j \in 1..k : i < j => a[i] < a[j]
    BY <1>2 DEF Follows
  <2>3. ASSUME NEW i \in 1..k PROVE a[i] <= a[k] /\ a[1] <= a[i]
    <3>1. i = k \/ i < k
      BY <1>1
    <3>2. i = 1 \/ 1 < i
      BY <1>1
    <3>3. a[i] \in Int /\ a[k] \in Int /\ a[1] \in Int
      BY <1>2, <2>1
    <3> QED BY <2>1, <2>2, <3>1, <3>2, <3>3
  <2> QED BY <2>1, <2>3
<1>4. \A i, j \in DOMAIN b : i < j => b[i] < b[j]
  <2> SUFFICES ASSUME NEW i \in 1..k + 1, NEW j \in 1..k + 1, i < j PROVE b[i] < b[j]
    BY <1>2
  <2>1. i \in 1..k /\ (j = k + 1 \/ j \in 1..k)
    BY <1>1
  <2>2. CASE j \in 1..k
    BY <1>2, <2>1, <2>2 DEF Follows
  <2>3. CASE j = k + 1
    <3>1. a[i] <= a[k] /\ a[k] < sequence /\ k \in 1..k
      BY <1>1, <1>3, <2>1
    <3>2. a[i] \in Int /\ a[k] \in Int
      BY <1>2, <2>1, <3>1
    <3> QED BY <1>2, <2>1, <2>3, <3>1, <3>2
  <2> QED BY <2>1, <2>2, <2>3
<1>5. Entries(b) = Entries(a) \cup {sequence}
  <2>1. \A i \in 1..k + 1 : i \in 1..k \/ i = k + 1
    BY <1>1
  <2>2. k + 1 \in 1..k + 1 /\ 1..k \subseteq 1..k + 1
    BY <1>1
  <2> QED BY <1>2, <2>1, <2>2 DEF Entries
<1>6. n.missing = Cardinality((b[1]..sequence) \ Entries(b))
  <2>1. CASE k = 0
    <3>1. b[1] = sequence
      BY <1>2, <2>1
    <3>2. (b[1]..sequence) \ Entries(b) = {}
      BY <1>5, <3>1
    <3> QED BY <1>1, <2>1, <3>2, FS_EmptySet
  <2>2. CASE k # 0
    <3>1. 1 \in 1..k /\ k \in 1..k
      BY <1>1, <2>2
    <3>2. b[1] = a[1] /\ f.last = a[k] /\ a[1] \in Nat /\ a[k] \in Nat /\ sequence \in Nat
          /\ a[1] <= a[k] /\ a[k] < sequence
      BY <1>2, <1>3, <2>2, <3>1
    <3>3. Entries(a) \subseteq a[1]..a[k]
      <4>1. ASSUME NEW i \in 1..k PROVE a[i] \in a[1]..a[k]
        BY <1>2, <1>3, <2>2, <3>1
      <4> QED BY <1>2, <4>1 DEF Entries
    <3>4. f.missing = Cardinality((a[1]..a[k]) \ Entries(a))
      BY <1>1, <2>2, <3>2 DEF Follows
    <3>5. n.missing = f.missing + (sequence - a[k] - 1)
      BY <1>1, <2>2, <3>2
    <3>6. Cardinality((a[1]..sequence) \ (Entries(a) \cup {sequence})) =
            Cardinality((a[1]..a[k]) \ Entries(a)) + (sequence - a[k] - 1)
      <4> DEFINE first == a[1]
                 last == a[k]
                 S == Entries(a)
      <4>1. /\ first \in Nat /\ last \in Nat /\ sequence \in Nat
            /\ first <= last /\ last < sequence /\ S \in SUBSET (first..last)
        BY <3>2, <3>3
      <4> HIDE DEF first, last, S
      <4>2. Cardinality((first..sequence) \ (S \cup {sequence})) =
              Cardinality((first..last) \ S) + (sequence - last - 1)
        BY ONLY <4>1, Skipping
      <4> QED BY <4>2 DEF first, last, S
    <3> QED BY <1>5, <3>2, <3>4, <3>5, <3>6
  <2> QED BY <2>1, <2>2
<1>7. ASSUME ~n.faulted, HaltOnGap, NEW i \in 2..Len(b)
      PROVE  b[i] - b[i - 1] <= ToleratedGap + 1
  <2>1. i \in 2..k \/ (i = k + 1 /\ k # 0)
    BY <1>1, <1>2
  <2>2. CASE i \in 2..k
    <3>1. a[i] - a[i - 1] <= ToleratedGap + 1
      BY <1>7, <2>2 DEF Follows, k
    <3>2. i \in 1..k /\ i - 1 \in 1..k
      BY <1>1, <2>2
    <3> QED BY <1>2, <3>1, <3>2
  <2>3. CASE i = k + 1 /\ k # 0
    <3>1. k \in 1..k /\ i - 1 = k
      BY <1>1, <2>3
    <3> QED BY <1>1, <1>2, <1>3, <1>7, <2>3, <3>1
  <2> QED BY <2>1, <2>2, <2>3
<1>8. b # <<>> /\ b[Len(b)] = sequence
  BY <1>1, <1>2
<1> QED BY <1>2, <1>4, <1>6, <1>7, <1>8 DEF Follows, b

\* on_tick() follows the book, if process() keeps what is not usable out of it; only
\* a usable message can make it faulted.
LEMMA OnTickFollows ==
  ASSUME NEW f \in MonitorRecord, NEW a, Follows(f, a),
         NEW sequence \in 0..MaxSequence, NEW g \in 0..StaleAfter
  PROVE  LET n == OnTick(f, sequence, g)
             b == IF Usable(Status(f, sequence)) /\ sequence # Unsequenced
                  THEN Append(a, sequence) ELSE a
         IN  /\ n \in MonitorRecord /\ Follows(n, b)
             /\ ~Usable(Status(f, sequence)) => (n.faulted <=> f.faulted)
<1> DEFINE n == OnTick(f, sequence, g)
           b == IF Usable(Status(f, sequence)) /\ sequence # Unsequenced
                THEN Append(a, sequence) ELSE a
           gap == Status(f, sequence) = "Gap"
           missing == IF gap THEN Lost(f, sequence) ELSE 0
<1> USE DEF Unsequenced
<1>1. /\ f.last \in 0..MaxSequence /\ f.missing \in Nat /\ MaxSequence \in Nat
      /\ f.seen \in BOOLEAN /\ f.faulted \in BOOLEAN /\ ToleratedGap \in Nat
      /\ HaltOnGap \in BOOLEAN
  BY MonitorAssumption DEF MonitorRecord
<1>2. (f.seen <=> a # <<>>) /\ (a = <<>> => f.missing = 0)
  BY DEF Follows
<1>3. /\ n.seen <=> f.seen \/ sequence # 0
      /\ n.last = IF Advances(f, sequence) THEN sequence ELSE f.last
      /\ n.missing = f.missing + missing
      /\ n.faulted <=> f.faulted \/ (gap /\ Intolerable(missing))
  BY DEF OnTick, MonitorRecord
<1>4. missing \in Nat
  BY <1>1 DEF Status, Lost
<1>5. n \in MonitorRecord
  <2> DEFINE seen == f.seen \/ sequence # 0
             last == IF Advances(f, sequence) THEN sequence ELSE f.last
             total == f.missing + missing
             faulted == f.faulted \/ (gap /\ Intolerable(missing))
  <2>1. n = [f EXCEPT !.heard = TRUE, !.quiet = g, !.stale = FALSE,
                      !.seen = seen, !.last = last, !.missing = total, !.faulted = faulted]
    BY DEF OnTick
  <2>2. seen \in BOOLEAN /\ faulted \in BOOLEAN
    OBVIOUS
  <2>3. last \in 0..MaxSequence /\ total \in Nat
    <3> HIDE DEF missing
    <3> QED BY <1>1, <1>4
  <2> HIDE DEF n, seen, last, total, faulted
  <2> QED BY <2>1, <2>2, <2>3 DEF MonitorRecord
<1> HIDE DEF n
<1>6. CASE sequence = 0
  <2>1. Status(f, sequence) = "Unsequenced"
    BY <1>6 DEF Status
  <2>2. b = a /\ ~gap /\ missing = 0 /\ ~Advances(f, sequence)
    BY <1>6, <2>1 DEF Advances
  <2>3. (n.seen <=> f.seen) /\ n.last = f.last /\ n.missing = f.missing
        /\ (n.faulted <=> f.faulted)
    BY <1>1, <1>3, <1>6, <2>2
  <2> QED BY <1>5, <2>2, <2>3 DEF Follows, n
<1>7. CASE sequence # 0 /\ f.seen /\ sequence <= f.last
  <2>1. Status(f, sequence) \in {"Duplicate", "Reordered"}
    BY <1>1, <1>7 DEF Status
  <2>2. b = a /\ ~gap /\ missing = 0 /\ ~Advances(f, sequence)
    BY <2>1 DEF Usable, Advances
  <2>3. (n.seen <=> f.seen) /\ n.last = f.last /\ n.missing = f.missing
        /\ (n.faulted <=> f.faulted)
    BY <1>1, <1>3, <1>7, <2>2
  <2> QED BY <1>5, <2>2, <2>3 DEF Follows, n
<1>8. CASE sequence # 0 /\ (f.seen => sequence > f.last)
  <2>1. Status(f, sequence) = IF ~f.seen \/ sequence = f.last + 1 THEN "Ok" ELSE "Gap"
    BY <1>1, <1>8 DEF Status
  <2>2. Usable(Status(f, sequence)) /\ Advances(f, sequence) /\ b = Append(a, sequence)
    BY <1>8, <2>1 DEF Usable, Advances
  <2>3. missing = IF f.seen THEN sequence - f.last - 1 ELSE 0
    BY <1>1, <1>8, <2>1 DEF Lost
  <2>4. n.missing = IF a = <<>> THEN 0 ELSE f.missing + (sequence - f.last - 1)
    BY <1>2, <1>3, <2>3
  <2>5. n.seen = TRUE /\ n.last = sequence /\ (~n.faulted => ~f.faulted)
    BY <1>3, <1>8, <2>2
  <2>6. ~n.faulted /\ HaltOnGap /\ a # <<>> => sequence - f.last <= ToleratedGap + 1
    <3> HIDE DEF gap
    <3>1. CASE gap
      BY <1>1, <1>2, <1>3, <2>3, <3>1 DEF Intolerable
    <3>2. CASE ~gap
      BY <1>1, <1>2, <2>1, <3>2 DEF gap
    <3> QED BY <3>1, <3>2
  <2>7. sequence \in 1..MaxSequence /\ (a # <<>> => f.last < sequence)
    BY <1>1, <1>2, <1>8
  <2> HIDE DEF b, missing, gap
  <2>8. Follows(n, b)
    BY <1>5, <2>2, <2>4, <2>5, <2>6, <2>7, BookGrows
  <2> QED BY <1>5, <2>2, <2>8 DEF n, b
<1> QED BY <1>1, <1>6, <1>7, <1>8

\* The watchdog follows the book too, and only silence makes it faulted.
LEMMA CheckStaleFollows ==
  ASSUME NEW f \in MonitorRecord, NEW a, Follows(f, a)
  PROVE  LET n == CheckStale(f)
         IN  n \in MonitorRecord /\ Follows(n, a) /\ (n.faulted => f.faulted \/ Silent(f))
BY DEF CheckStale, MonitorRecord, Follows

-----------------------------------------------------------------------------

LEMMA SessionStarts == Init => SessionInv
<1> SUFFICES ASSUME Init PROVE SessionInv
  OBVIOUS
<1>1. InOrder
  BY DEF Init, RingInit, InOrder
<1>2. monitor \in MonitorRecord
  BY MonitorAssumption DEF Init, NewMonitor, MonitorRecord
<1>3. Follows(monitor, applied)
  BY DEF Init, NewMonitor, Follows
<1>4. ~monitor.faulted
  BY DEF Init, NewMonitor
<1>5. age \in Seq(0..StaleAfter) /\ Len(age) = Len(given)
  BY DEF Init
<1>6. SessionSound
  BY <1>2, <1>3, <1>4, <1>5 DEF Init, SessionSound
<1> QED BY <1>1, <1>6 DEF SessionInv

\* The ordinals come through the ring in order.
LEMMA InOrderKeeps ==
  ASSUME PipelineInv, InOrder, [Next]_vars
  PROVE  InOrder'
<1>1. /\ head \in Nat /\ tail \in Nat /\ pushed \in Seq(Item) /\ Len(pushed) = head
      /\ CallsMatch /\ Accounted
      /\ reader = "releasing" => out = pushed[tail + 1]
      /\ reader # "idle" => tail + 1 \in 1..head
  BY DEF PipelineInv, RingInv, RingTypeOK, CopiesLagBehind, SlotsHoldTheQueue
<1>2. CASE PushStep
  <2>1. /\ producer = "push" /\ TryPush(Len(given))
        /\ head' = head /\ pushed' = pushed /\ out' = out /\ consumer' = consumer
    BY <1>2 DEF PushStep, TryPush, consumerVars
  <2>2. writer = "idle" /\ (writer' = writer \/ item' = head + 1)
    BY <1>1, <2>1 DEF TryPush, Accounted, InPush
  <2> QED BY <2>1, <2>2 DEF InOrder
<1>3. CASE PublishStep
  <2>1. /\ writer = "publishing" /\ writer' = "idle" /\ head' = head + 1
        /\ pushed' = Append(pushed, item) /\ out' = out /\ consumer' = consumer
    BY <1>3 DEF PublishStep, Publish, consumerVars
  <2>2. item = head + 1
    BY <2>1 DEF InOrder
  <2>3. \A i \in 1..head + 1 : i = head + 1 \/ i \in 1..head
    BY <1>1
  <2>4. pushed'[head + 1] = item /\ \A i \in 1..head : pushed'[i] = pushed[i]
    <3>1. item \in Item
      BY <2>1 DEF PipelineInv, RingInv, SlotsHoldTheQueue
    <3> QED BY <1>1, <2>1, <3>1
  <2>5. \A i \in 1..head' : pushed'[i] = i
    BY <2>1, <2>2, <2>3, <2>4 DEF InOrder
  <2>6. consumer' = "process" => out' \in 1..head'
    BY <1>1, <2>1 DEF InOrder
  <2> QED BY <2>1, <2>5, <2>6 DEF InOrder
<1>4. CASE ReleaseStep
  <2>1. /\ reader = "releasing" /\ out' = out
        /\ UNCHANGED <<head, pushed, writer, item>>
    BY <1>4 DEF ReleaseStep, Release, producerVars
  <2>2. out \in 1..head
    BY <1>1, <2>1 DEF InOrder
  <2> QED BY <2>1, <2>2 DEF InOrder
<1>5. CASE WriteStep
  BY <1>5 DEF WriteStep, WriteSlot, consumerVars, controlVars, InOrder
<1>6. CASE ReadStep
  <2>1. /\ reader = "reading" /\ UNCHANGED <<head, pushed, writer, item, consumer>>
    BY <1>6 DEF ReadStep, ReadSlot, producerVars, controlVars
  <2>2. consumer = "popping"
    BY <1>1, <2>1 DEF CallsMatch
  <2> QED BY <2>1, <2>2 DEF InOrder
<1>7. CASE PopStep
  BY <1>7 DEF PopStep, TryPop, producerVars, InOrder
<1>8. CASE TestStop \/ (\E s \in 0..MaxSequence : FeedNext(s)) \/ FeedEnds \/ FinishProducer
  BY <1>8 DEF TestStop, FeedNext, FeedEnds, FinishProducer, ringVars, producerVars,
              consumerVars, InOrder
<1>9. CASE Process \/ TestDone \/ LastLook \/ TestStopRequest \/ Idle
  BY <1>9 DEF Process, TestDone, LastLook, TestStopRequest, Idle, ringVars, producerVars,
              consumerVars, InOrder
<1>10. CASE RequestStop \/ Tick \/ Ended \/ UNCHANGED vars
  BY <1>10 DEF RequestStop, Tick, Ended, vars, ringVars, producerVars, consumerVars,
               controlVars, InOrder
<1> QED BY <1>2, <1>3, <1>4, <1>5, <1>6, <1>7, <1>8, <1>9, <1>10
        DEF Next, ProducerNext, ConsumerNext

\* Processing a message keeps the session sound.
LEMMA ProcessKeeps ==
  ASSUME PipelineInv, SessionInv, Process
  PROVE  SessionSound'
<1> DEFINE sequence == given[out]
<1>1. /\ consumer = "process" /\ consumer' = "pop" /\ UNCHANGED <<given, age>>
      /\ monitor' = OnTick(monitor, sequence, age[out])
      /\ IF Usable(Status(monitor, sequence))
         THEN /\ halted' = (halted \/ monitor'.faulted)
              /\ applied' = IF sequence = Unsequenced THEN applied ELSE Append(applied, sequence)
         ELSE UNCHANGED <<halted, applied>>
  BY DEF Process, feedVars
<1>2. SessionSound /\ out \in 1..head /\ head \in Nat
  BY <1>1 DEF SessionInv, InOrder, PipelineInv, RingInv, RingTypeOK
<1>3. given \in Seq(0..MaxSequence) /\ head <= Len(given)
  BY <1>2 DEF PipelineInv, Accounted
<1>4. age \in Seq(0..StaleAfter) /\ Len(age) = Len(given)
  BY <1>2 DEF SessionSound
<1>5. out \in 1..Len(given)
  BY <1>2, <1>3
<1>6. sequence \in 0..MaxSequence /\ age[out] \in 0..StaleAfter
  BY <1>3, <1>4, <1>5, Remapping
<1>7. monitor \in MonitorRecord /\ Follows(monitor, applied) /\ (monitor.faulted => halted)
      /\ halted \in BOOLEAN
  BY <1>2 DEF SessionSound
<1> HIDE DEF sequence
<1>8. LET b == IF Usable(Status(monitor, sequence)) /\ sequence # Unsequenced
               THEN Append(applied, sequence) ELSE applied
      IN  /\ monitor' \in MonitorRecord /\ Follows(monitor', b)
          /\ ~Usable(Status(monitor, sequence)) => (monitor'.faulted <=> monitor.faulted)
  BY <1>1, <1>6, <1>7, OnTickFollows
<1>9. applied' = IF Usable(Status(monitor, sequence)) /\ sequence # Unsequenced
                 THEN Append(applied, sequence) ELSE applied
  BY <1>1
<1>10. monitor' \in MonitorRecord /\ Follows(monitor', applied')
  BY <1>8, <1>9
<1>11. (monitor'.faulted => halted') /\ halted' \in BOOLEAN
  BY <1>1, <1>7, <1>8, <1>10 DEF MonitorRecord
<1> QED BY <1>1, <1>4, <1>10, <1>11 DEF SessionSound

\* Time passing keeps the session sound.
LEMMA TickKeeps ==
  ASSUME SessionSound, Tick
  PROVE  SessionSound'
<1>1. /\ age' = [n \in DOMAIN age |-> Older(age[n])]
      /\ monitor' = [monitor EXCEPT !.quiet = Older(monitor.quiet)]
      /\ UNCHANGED <<consumer, given, halted, applied>>
  BY DEF Tick
<1>2. StaleAfter \in Nat
  BY MonitorAssumption
<1>3. \A k \in 0..StaleAfter : Older(k) \in 0..StaleAfter
  BY <1>2 DEF Older
<1>4. monitor \in MonitorRecord /\ age \in Seq(0..StaleAfter) /\ Len(age) = Len(given)
  BY DEF SessionSound
<1>5. age' \in Seq(0..StaleAfter) /\ Len(age') = Len(age)
  <2>1. Len(age) \in Nat /\ DOMAIN age = 1..Len(age)
        /\ \A n \in 1..Len(age) : age[n] \in 0..StaleAfter
    BY <1>4, Remapping
  <2>2. age' \in [1..Len(age) -> 0..StaleAfter]
    BY <1>1, <1>3, <2>1
  <2> QED BY <1>4, <2>2, Remapping
<1>6. monitor.quiet \in 0..StaleAfter
  BY <1>4 DEF MonitorRecord
<1>7. monitor' \in MonitorRecord /\ (monitor'.faulted <=> monitor.faulted)
      /\ (monitor'.seen <=> monitor.seen) /\ monitor'.last = monitor.last
      /\ monitor'.missing = monitor.missing
  BY <1>1, <1>3, <1>4, <1>6 DEF MonitorRecord
<1>8. Follows(monitor', applied')
  BY <1>1, <1>7 DEF SessionSound, Follows
<1> QED BY <1>1, <1>4, <1>5, <1>7, <1>8 DEF SessionSound

LEMMA SessionStep == PipelineInv /\ SessionInv /\ [Next]_vars => SessionInv'
<1> SUFFICES ASSUME PipelineInv, SessionInv, [Next]_vars PROVE SessionInv'
  OBVIOUS
<1>1. SessionSound /\ InOrder
  BY DEF SessionInv
<1>2. CASE Process
  BY <1>1, <1>2, ProcessKeeps, InOrderKeeps DEF SessionInv
<1>3. CASE Tick
  BY <1>1, <1>3, TickKeeps, InOrderKeeps DEF SessionInv
<1>4. CASE Idle
  <2>1. /\ monitor' = CheckStale(monitor) /\ halted' = (halted \/ Silent(monitor))
        /\ consumer' = "pop" /\ UNCHANGED <<given, age, applied>>
    BY <1>4 DEF Idle, feedVars
  <2>2. monitor \in MonitorRecord /\ Follows(monitor, applied)
    BY <1>1 DEF SessionSound
  <2>3. /\ monitor' \in MonitorRecord /\ Follows(monitor', applied)
        /\ (monitor'.faulted => monitor.faulted \/ Silent(monitor))
    BY <2>1, <2>2, CheckStaleFollows
  <2>4. SessionSound'
    BY <1>1, <2>1, <2>3 DEF SessionSound
  <2> QED BY <1>1, <2>4, InOrderKeeps DEF SessionInv
<1>5. ASSUME NEW s \in 0..MaxSequence, FeedNext(s) PROVE SessionInv'
  <2>1. /\ given' = Append(given, s) /\ age' = Append(age, 0)
        /\ UNCHANGED <<consumer, monitor, halted, applied>>
    BY <1>5 DEF FeedNext, engineVars
  <2>2. given \in Seq(0..MaxSequence)
    BY DEF PipelineInv, Accounted
  <2>3. age \in Seq(0..StaleAfter) /\ Len(age) = Len(given) /\ 0 \in 0..StaleAfter
    <3>1. 0 \in 0..StaleAfter
      BY MonitorAssumption
    <3> QED BY <1>1, <3>1 DEF SessionSound
  <2>4. /\ Len(given') = Len(given) + 1
        /\ age' \in Seq(0..StaleAfter) /\ Len(age') = Len(age) + 1
    BY <2>1, <2>2, <2>3, Appending
  <2>5. SessionSound'
    BY <1>1, <2>1, <2>3, <2>4 DEF SessionSound
  <2> QED BY <1>1, <2>5, InOrderKeeps DEF SessionInv
<1>6. CASE \/ TestStop \/ FeedEnds \/ PushStep \/ WriteStep \/ PublishStep \/ FinishProducer
           \/ PopStep \/ ReadStep \/ ReleaseStep \/ TestDone \/ LastLook \/ TestStopRequest
           \/ RequestStop \/ Ended \/ UNCHANGED vars
  <2>1. UNCHANGED <<given, age, monitor, halted, applied>>
    BY <1>6 DEF TestStop, FeedEnds, PushStep, WriteStep, PublishStep, FinishProducer, PopStep,
                ReadStep, ReleaseStep, TestDone, LastLook, TestStopRequest, RequestStop, Ended,
                vars, controlVars, feedVars, engineVars
  <2>2. \/ consumer' = consumer
        \/ consumer' \in {"nothing", "popping", "process", "last look", "test stop", "idle", "ended"}
    BY <1>6 DEF TestStop, FeedEnds, PushStep, WriteStep, PublishStep, FinishProducer, PopStep,
                ReadStep, ReleaseStep, TestDone, LastLook, TestStopRequest, RequestStop, Ended,
                vars, controlVars
  <2>3. SessionSound'
    BY <1>1, <2>1, <2>2 DEF SessionSound
  <2> QED BY <1>1, <2>3, InOrderKeeps DEF SessionInv
<1> QED BY <1>2, <1>3, <1>4, <1>5, <1>6 DEF Next, ProducerNext, ConsumerNext

\* What the consumer processes, the monitor follows: in every run of the two threads.
THEOREM SessionIsSound == Spec => []SessionInv
BY SessionStarts, SessionStep, PipelineIsSound, PTL DEF Spec

\* Every reachable state of the pipeline is well typed.
THEOREM PipelineTypeCorrect == Spec => []TypeOK
<1>1. PipelineInv /\ SessionInv => TypeOK
  BY DEF PipelineInv, SessionInv, SessionSound, TypeOK, CallsMatch, Accounted,
         DoneMeansPublished, MonitorRecord
<1> QED BY <1>1, PipelineIsSound, SessionIsSound, PTL

\* The book is built from increasing numbers, and what the monitor says is missing
\* is what is missing from it, for any feed however it skips, repeats or reorders.
THEOREM MissingIsAlwaysExact == Spec => []MissingIsExact
<1>1. ASSUME SessionInv PROVE MissingIsExact
  <2>1. Follows(monitor, applied)
    BY <1>1 DEF SessionInv, SessionSound
  <2>2. ASSUME NEW i \in 2..Len(applied) PROVE applied[i - 1] < applied[i]
    <3>1. DOMAIN applied = 1..Len(applied) /\ Len(applied) \in Nat
      BY <2>1 DEF Follows
    <3>2. i \in DOMAIN applied /\ i - 1 \in DOMAIN applied /\ i - 1 < i
      BY <3>1
    <3> QED BY <2>1, <3>2 DEF Follows
  <2> QED BY <2>1, <2>2 DEF MissingIsExact, Follows, Entries
<1> QED BY <1>1, SessionIsSound, PTL

\* As long as trading is not halted no gap in the book is wider than tolerated.
THEOREM BookIsWholeWhileTrading == Spec => []TradesOnAWholeBook
<1>1. SessionInv => TradesOnAWholeBook
  BY DEF SessionInv, SessionSound, Follows, TradesOnAWholeBook
<1> QED BY <1>1, SessionIsSound, PTL
=============================================================================
