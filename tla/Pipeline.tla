------------------------------ MODULE Pipeline ------------------------------
(***************************************************************************)
(* Engine::run_threaded() (cpp/src/engine.cpp): the producer thread reads  *)
(* the feed and pushes into the ring, the consumer pops, checks the        *)
(* session and applies; a watcher thread may ask for a stop at any time.   *)
(*                                                                         *)
(* The ring carries the ordinals of the messages; given[n] is the sequence *)
(* number of the n-th.  What the exchange and the network do before        *)
(* feed.next() returns is free: numbers may be skipped, repeated, out of   *)
(* order or absent.  Of process() this is the part that decides whether    *)
(* the message reaches the book and whether the engine may trade; the rest *)
(* and the sweeps are TradingEngine's.  Clock ticks age the messages.      *)
(***************************************************************************)
EXTENDS SpscRing, FeedMonitor, FiniteSets

CONSTANTS
  MaxMessages,   \* bound: messages the feed has
  MaxSequence    \* bound: the largest sequence number

ASSUME PipelineAssumption ==
  MaxMessages \in Nat /\ MaxSequence \in Nat /\ Item = 1..MaxMessages /\ Blank = 0

VARIABLES
  producer,       \* where the producer thread is
  consumer,       \* where the consumer thread is
  stop,           \* stop_requested_
  producerDone,   \* producer_done
  given,          \* the sequence numbers of the messages feed.next() returned
  age,            \* ticks since the n-th was received, up to StaleAfter
  monitor,        \* feed_
  halted,         \* the kill switch
  applied         \* history: the sequence numbers, where given, that reached the book

controlVars == <<producer, consumer, stop, producerDone, given, age, monitor, halted, applied>>
feedVars == <<given, age>>
engineVars == <<monitor, halted, applied>>
vars == <<ringVars, controlVars>>

Init ==
  /\ RingInit
  /\ producer = "test" /\ consumer = "pop"
  /\ stop = FALSE /\ producerDone = FALSE
  /\ given = <<>> /\ age = <<>>
  /\ monitor = NewMonitor /\ halted = FALSE /\ applied = <<>>

(***************************************************************************)
(* The producer thread.                                                    *)
(***************************************************************************)

TestStop ==
  /\ producer = "test"
  /\ producer' = IF stop THEN "finish" ELSE "next"
  /\ UNCHANGED <<ringVars, consumer, stop, producerDone, feedVars, engineVars>>

\* feed.next() returns a message; it may also never return.
FeedNext(sequence) ==
  /\ producer = "next" /\ Len(given) < MaxMessages
  /\ given' = Append(given, sequence)
  /\ age' = Append(age, 0)
  /\ producer' = "push"
  /\ UNCHANGED <<ringVars, consumer, stop, producerDone, engineVars>>

FeedEnds ==
  /\ producer = "next"
  /\ producer' = "finish"
  /\ UNCHANGED <<ringVars, consumer, stop, producerDone, feedVars, engineVars>>

\* while (!try_push) yield: the loop does not look at the stop request.
PushStep ==
  /\ producer = "push"
  /\ TryPush(Len(given))
  /\ producer' = IF writer' = "idle" THEN "push" ELSE "pushing"
  /\ UNCHANGED <<consumer, stop, producerDone, feedVars, engineVars>>

WriteStep ==
  /\ WriteSlot
  /\ UNCHANGED controlVars

PublishStep ==
  /\ Publish
  /\ producer' = "test"
  /\ UNCHANGED <<consumer, stop, producerDone, feedVars, engineVars>>

\* Mutant: the producer ends without a word.
FinishUnannounced ==
  /\ producer = "finish"
  /\ producer' = "finished"
  /\ UNCHANGED <<ringVars, consumer, stop, producerDone, feedVars, engineVars>>

FinishProducer ==
  /\ producer = "finish"
  /\ producerDone' = TRUE
  /\ producer' = "finished"
  /\ UNCHANGED <<ringVars, consumer, stop, feedVars, engineVars>>

(***************************************************************************)
(* The consumer thread, which is the one that called run().                *)
(***************************************************************************)

PopStep ==
  /\ consumer = "pop"
  /\ TryPop
  /\ consumer' = IF reader' = "idle" THEN "nothing" ELSE "popping"
  /\ UNCHANGED <<producer, stop, producerDone, feedVars, engineVars>>

ReadStep ==
  /\ ReadSlot
  /\ UNCHANGED controlVars

ReleaseStep ==
  /\ Release
  /\ consumer' = "process"
  /\ UNCHANGED <<producer, stop, producerDone, feedVars, engineVars>>

\* process() drops what would be applied twice or undo newer state.
Usable(status) == status \notin {"Duplicate", "Reordered"}

Process ==
  LET sequence == given[out]
  IN /\ consumer = "process"
     /\ monitor' = OnTick(monitor, sequence, age[out])
     /\ IF Usable(Status(monitor, sequence))
        THEN /\ halted' = (halted \/ monitor'.faulted)
             /\ applied' = IF sequence = Unsequenced THEN applied ELSE Append(applied, sequence)
        ELSE UNCHANGED <<halted, applied>>
     /\ consumer' = "pop"
     /\ UNCHANGED <<ringVars, producer, stop, producerDone, feedVars>>

\* Mutant: with the producer done the failed pop is taken for the end.
TestDoneOnly ==
  /\ consumer = "nothing"
  /\ consumer' = IF producerDone THEN "ended" ELSE "test stop"
  /\ UNCHANGED <<ringVars, producer, stop, producerDone, feedVars, engineVars>>

\* The pop failed.  If the producer is done the ring is looked at once more:
\* it may have pushed between the two.
TestDone ==
  /\ consumer = "nothing"
  /\ consumer' = IF producerDone THEN "last look" ELSE "test stop"
  /\ UNCHANGED <<ringVars, producer, stop, producerDone, feedVars, engineVars>>

LastLook ==
  /\ consumer = "last look"
  /\ consumer' = IF head = tail THEN "ended" ELSE "test stop"
  /\ UNCHANGED <<ringVars, producer, stop, producerDone, feedVars, engineVars>>

\* A stop with the producer done ends the run as well.  Both flags only go up.
TestStopRequest ==
  /\ consumer = "test stop"
  /\ consumer' = IF stop /\ producerDone THEN "ended" ELSE "idle"
  /\ UNCHANGED <<ringVars, producer, stop, producerDone, feedVars, engineVars>>

Idle ==
  /\ consumer = "idle"
  /\ monitor' = CheckStale(monitor)
  /\ halted' = (halted \/ Silent(monitor))
  /\ consumer' = "pop"
  /\ UNCHANGED <<ringVars, producer, stop, producerDone, feedVars, applied>>

(***************************************************************************)
(* The watcher thread, and time.                                           *)
(***************************************************************************)

RequestStop ==
  /\ ~stop
  /\ stop' = TRUE
  /\ UNCHANGED <<ringVars, producer, consumer, producerDone, feedVars, engineVars>>

Older(n) == IF n < StaleAfter THEN n + 1 ELSE n

Tick ==
  /\ monitor.quiet < StaleAfter \/ \E n \in DOMAIN age : age[n] < StaleAfter
  /\ age' = [n \in DOMAIN age |-> Older(age[n])]
  /\ monitor' = [monitor EXCEPT !.quiet = Older(@)]
  /\ UNCHANGED <<ringVars, producer, consumer, stop, producerDone, given, halted, applied>>

ProducerNext ==
  \/ TestStop
  \/ \E sequence \in 0..MaxSequence : FeedNext(sequence)
  \/ FeedEnds
  \/ PushStep
  \/ WriteStep
  \/ PublishStep
  \/ FinishProducer

ConsumerNext ==
  \/ PopStep
  \/ ReadStep
  \/ ReleaseStep
  \/ Process
  \/ TestDone
  \/ LastLook
  \/ TestStopRequest
  \/ Idle

Ended == consumer = "ended" /\ producer = "finished" /\ UNCHANGED vars

Next == ProducerNext \/ ConsumerNext \/ RequestStop \/ Tick \/ Ended

\* Both threads run and time passes; feed.next() need not return.
Fairness ==
  /\ WF_vars(TestStop \/ PushStep \/ WriteStep \/ PublishStep \/ FinishProducer)
  /\ WF_vars(ConsumerNext)
  /\ WF_vars(Tick)

Spec == Init /\ [][Next]_vars /\ Fairness

-----------------------------------------------------------------------------

\* Type correctness, with the invariant of the ring, and the ring in use just
\* when the threads' loops say so.
TypeOK ==
  /\ RingInv
  /\ producer \in {"test", "next", "push", "pushing", "finish", "finished"}
  /\ consumer \in {"pop", "nothing", "popping", "process", "last look", "test stop", "idle", "ended"}
  /\ stop \in BOOLEAN /\ producerDone \in BOOLEAN /\ halted \in BOOLEAN
  /\ given \in Seq(0..MaxSequence) /\ Len(given) <= MaxMessages
  /\ age \in Seq(0..StaleAfter) /\ Len(age) = Len(given)
  /\ monitor.last \in 0..MaxSequence /\ monitor.quiet \in 0..StaleAfter /\ monitor.missing \in Nat
  /\ (producer = "pushing") = (writer # "idle") /\ (consumer = "popping") = (reader # "idle")

Processed == Len(popped) - (IF consumer = "process" THEN 1 ELSE 0)

\* A run that nobody stopped ends with every message of the feed processed; one
\* that was stopped leaves at most what the ring holds.
NothingIsLeftBehind ==
  consumer = "ended" =>
    /\ head = Len(given) /\ producer \in {"finish", "finished"}
    /\ Processed = Len(given) \/ stop
    /\ Len(given) - Processed <= Capacity

\* The book is built from increasing sequence numbers, none twice, and what the
\* monitor reports as missing is exactly what lies between the first of them and
\* the last and never reached the book.
MissingIsExact ==
  /\ \A i \in 2..Len(applied) : applied[i - 1] < applied[i]
  /\ applied # <<>> =>
       /\ monitor.last = applied[Len(applied)]
       /\ monitor.missing =
            Cardinality((applied[1]..monitor.last) \ {applied[i] : i \in DOMAIN applied})

\* While the engine may trade, no two neighbours in the book are further apart
\* than the tolerated gap, if gaps are to halt it at all.
TradesOnAWholeBook ==
  ~halted /\ HaltOnGap =>
    \A i \in 2..Len(applied) : applied[i] - applied[i - 1] <= ToleratedGap + 1

\* As long as every call of feed.next() returns, the run ends: the producer's
\* spin on a full ring and the consumer's wait for it never hold each other up.
RunEnds == [](producer = "next" => <>(producer # "next")) => <>(consumer = "ended")

\* A feed that was heard of and then falls silent for good stops the trading,
\* though no message ever comes to say so.
SilenceHalts ==
  StaleAfter > 0 => (<>[](producer = "next" /\ given # <<>>) => <>halted)

=============================================================================
