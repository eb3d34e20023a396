---------------------------- MODULE TradingEngine ----------------------------
(***************************************************************************)
(* hft::Engine (cpp/src/engine.cpp): the consumer thread that turns market *)
(* data into orders, with the order manager, the pre-trade gate, the wire  *)
(* on which orders wait out the venue latency, the paper venue and the     *)
(* journal.  One step is one call that the thread makes between two of the *)
(* places where the clock may have moved on; `pc' says where it is:        *)
(*                                                                         *)
(*   poll     at the top of run_inline() / run_threaded()                  *)
(*   land     in process(), releasing the orders that are due              *)
(*   idle     in the idle branch, doing the same                           *)
(*   decide   in process(), past the book update: strategy, gate, send     *)
(*   drain    after the loop, releasing everything                         *)
(*   ended    run() has returned                                           *)
(*   flatten  in flatten(), closing one instrument after another           *)
(*   done     shut down                                                    *)
(*                                                                         *)
(* Books and strategy are abstracted to their outcomes: which signal       *)
(* fires, and how much of an order the book can fill.                      *)
(***************************************************************************)
EXTENDS Risk

CONSTANTS
  Threaded,         \* threaded: run_threaded() or run_inline()
  OrderQuantity,    \* EngineConfig::order_quantity, in whole lots
  VenueLatency,     \* venue_latency_ns, in clock ticks
  HaltOnTimeout,    \* halt_on_order_timeout
  JournalMayFail,   \* TRUE: an append to the journal may fail
  MaxOrders         \* bound: orders created in a run

ASSUME TradingEngineConstants ==
  /\ Threaded \in BOOLEAN
  /\ OrderQuantity \in Nat \ {0}
  /\ VenueLatency \in Nat
  /\ HaltOnTimeout \in BOOLEAN
  /\ JournalMayFail \in BOOLEAN
  /\ MaxOrders \in Nat \ {0}

VARIABLES
  pc,          \* where the consumer thread is
  stop,        \* stop_requested_
  oms,         \* oms_
  risk,        \* risk_
  pending,     \* pending_ from pending_head_ on: the orders on the wire
  venue,       \* venue_
  faulted,     \* feed_.faulted()
  closing,     \* the instruments flatten() has still to close
  journal,     \* [sent, halt]: ids written as sent, last halt reason written
  submitted,   \* ids the venue has been given
  expired      \* ids logged as timed out

vars == <<pc, stop, oms, risk, pending, venue, faulted, closing, journal,
          submitted, expired>>

Init ==
  /\ pc = "poll"
  /\ stop = FALSE
  /\ oms = InitOms
  /\ risk = InitRisk
  /\ pending = << >>
  /\ venue = InitVenue
  /\ faulted = FALSE
  /\ closing = {}
  /\ journal = [sent |-> {}, halt |-> "NotHalted"]
  /\ submitted = {}
  /\ expired = {}

\* venue_.positions()
held == venue.position

-----------------------------------------------------------------------------
(***************************************************************************)
(* dispatch() and emit(), for an order filled n lots at px.         *)
(***************************************************************************)

\* Mutant of Answered: the remainder of a partial fill is left working.
AnsweredWithoutRemainder(o, id, n) ==
  LET acked == Apply(o, [id |-> id, type |-> "Acked", quantity |-> 0])
  IN  IF n > 0 THEN Apply(acked, [id |-> id, type |-> "Fill", quantity |-> n]) ELSE acked

\* The reports made of the venue's synchronous answer.
Answered(o, id, n) ==
  LET acked == Apply(o, [id |-> id, type |-> "Acked", quantity |-> 0])
      hit   == IF n > 0
               THEN Apply(acked, [id |-> id, type |-> "Fill", quantity |-> n])
               ELSE acked
  IN  IF id \in Working(hit)
      THEN Apply(hit, [id |-> id, type |-> "Cancelled", quantity |-> 0])
      ELSE hit

\* Whether a write goes through; a dispatch writes the order, then its reports.
Written == IF JournalMayFail THEN BOOLEAN ELSE {TRUE}

\* o: the order manager when dispatch() is called.
Dispatch(o, id, s, d, n, px, orderWritten, reportsWritten) ==
  /\ oms' = Answered(o, id, n)
  /\ venue' = ApplyPnl(venue, s, d, n, px)
  /\ submitted' = submitted \cup {id}
  /\ stop' = (stop \/ ~orderWritten \/ ~reportsWritten)

JournalSent(id, written) == IF written THEN [journal EXCEPT !.sent = @ \cup {id}] ELSE journal

\* Mutant of HaltedByJournal: only a failure in emit() halts.
HaltedByReportsOnly(r, orderWritten, reportsWritten) ==
  IF reportsWritten THEN r ELSE Engage(r, "Manual")

HaltedByJournal(r, orderWritten, reportsWritten) ==
  IF orderWritten /\ reportsWritten THEN r ELSE Engage(r, "Manual")

\* complete_order(): dispatch, then post-trade risk; a halt that the equity
\* brings about is journalled.
CompleteOrder(o, r, p) ==
  \E n \in 0 .. p.quantity, px \in Price,
     orderWritten \in Written, reportsWritten \in Written, haltWritten \in Written :
    LET before == HaltedByJournal(r, orderWritten, reportsWritten)
        after  == OnEquity(OnFill(before, p.symbol, p.side, n),
                           Equity(ApplyPnl(venue, p.symbol, p.side, n, px), p.symbol, p.reference))
        log    == JournalSent(p.id, orderWritten)
    IN  /\ Dispatch(o, p.id, p.symbol, p.side, n, px, orderWritten, reportsWritten)
        /\ risk' = after
        /\ journal' = IF Halted(after) /\ ~Halted(before) /\ haltWritten
                      THEN [log EXCEPT !.halt = after.halt] ELSE log

-----------------------------------------------------------------------------
(***************************************************************************)
(* The clock.                                                              *)
(***************************************************************************)

\* The clock moves on while the thread is between two messages.  Both the
\* order manager and the wire measure from the same send time.
Tick ==
  /\ pc = "poll"
  /\ oms' = Older(oms)
  /\ pending' = [k \in DOMAIN pending |->
                   [pending[k] EXCEPT !.wait = Min({@ + 1, VenueLatency})]]
  /\ \E second \in BOOLEAN : risk' = [risk EXCEPT !.over = @ \/ second]
  /\ UNCHANGED <<pc, stop, venue, faulted, closing, journal, submitted, expired>>

-----------------------------------------------------------------------------
(***************************************************************************)
(* process(): stage 0, an accepted message.  A stale or duplicate one      *)
(* changes nothing here.  The feed may turn out to be faulted, which       *)
(* engages the kill switch; an unusable message - an unknown symbol, a     *)
(* contract violation - returns before anything is released.  Inline, a    *)
(* stop ends the loop; threaded, what is left in the ring is processed.    *)
(***************************************************************************)

\* Mutant of EngageFor: the fault is noted but trading goes on.
NoteOnly(reason) == UNCHANGED <<risk, journal>>

EngageFor(reason) ==
  IF Halted(risk)
  THEN UNCHANGED <<risk, journal>>
  ELSE /\ risk' = Engage(risk, reason)
       /\ \E written \in Written :
            journal' = IF written THEN [journal EXCEPT !.halt = reason] ELSE journal

Receive ==
  /\ pc = "poll"
  /\ stop => Threaded
  /\ \E gap \in BOOLEAN, usable \in BOOLEAN :
       /\ faulted' = (faulted \/ gap)
       /\ pc' = IF usable THEN (IF VenueLatency > 0 THEN "land" ELSE "decide") ELSE "poll"
  /\ IF faulted' THEN EngageFor("Manual") ELSE UNCHANGED <<risk, journal>>
  /\ UNCHANGED <<stop, oms, pending, venue, closing, submitted, expired>>

\* release_pending(): the head of the wire, if it is due or the release forced.
Due == pending # << >> /\ (pc = "drain" \/ Head(pending).wait >= VenueLatency)

\* Mutant of Land: the head stays on the wire and is sent again.
LandAgain ==
  /\ pc \in {"land", "idle", "drain"}
  /\ Due
  /\ CompleteOrder(oms, risk, Head(pending))
  /\ UNCHANGED <<pc, pending, faulted, closing, expired>>

Land ==
  /\ pc \in {"land", "idle", "drain"}
  /\ Due
  /\ pending' = Tail(pending)
  /\ CompleteOrder(oms, risk, Head(pending))
  /\ UNCHANGED <<pc, faulted, closing, expired>>

\* ... until nothing more is due.
Landed ==
  /\ pc \in {"land", "idle"}
  /\ ~Due
  /\ pc' = IF pc = "land" THEN "decide" ELSE "poll"
  /\ UNCHANGED <<stop, oms, risk, pending, venue, faulted, closing, journal,
                 submitted, expired>>

\* Stages 2 and 3: no usable reference price, or no signal.
NoSignal ==
  /\ pc = "decide"
  /\ pc' = "poll"
  /\ UNCHANGED <<stop, oms, risk, pending, venue, faulted, closing, journal,
                 submitted, expired>>

\* Stages 4 and 5: the gate, the order manager, and the wire - or, with no
\* modelled latency, the venue at once.
Signal(s, d, sane, reference) ==
  /\ pc = "decide"
  /\ oms.next <= MaxOrders
  /\ pc' = "poll"
  /\ LET verdict == Verdict(risk, oms, s, d, OrderQuantity, sane)
         checked == Checked(risk, verdict)
         id      == oms.next
         booked  == Create(oms, s, d, OrderQuantity)
         order   == [id |-> id, symbol |-> s, side |-> d, quantity |-> OrderQuantity,
                     reference |-> reference, wait |-> 0]
     IN  \/ /\ verdict # "None"
            /\ risk' = checked
            /\ UNCHANGED <<stop, oms, pending, venue, journal, submitted>>
         \/ /\ verdict = "None"
            /\ ~CanCreate(oms, id, OrderQuantity)
            /\ risk' = checked
            /\ oms' = booked
            /\ UNCHANGED <<stop, pending, venue, journal, submitted>>
         \/ /\ verdict = "None"
            /\ CanCreate(oms, id, OrderQuantity)
            /\ VenueLatency = 0
            /\ CompleteOrder(booked, checked, order)
            /\ UNCHANGED pending
         \/ /\ verdict = "None"
            /\ CanCreate(oms, id, OrderQuantity)
            /\ VenueLatency > 0
            /\ risk' = checked
            /\ oms' = booked
            /\ pending' = Append(pending, order)
            /\ UNCHANGED <<stop, venue, journal, submitted>>
  /\ UNCHANGED <<faulted, closing, expired>>

-----------------------------------------------------------------------------
(***************************************************************************)
(* sweep_orders(), which the loop calls when its counter and its interval  *)
(* say so, when it is idle, and at the end of the run.                     *)
(***************************************************************************)

\* Mutant of SweepOrders: an expired order does not halt trading.
SweepQuietly(r) ==
  /\ \E walk \in WalkOrders(Overdue(oms)) : oms' = SweepTimeouts(oms, walk)
  /\ expired' = expired \cup Overdue(oms)
  /\ risk' = r /\ UNCHANGED journal

SweepOrders(r) ==
  /\ \E walk \in WalkOrders(Overdue(oms)) : oms' = SweepTimeouts(oms, walk)
  /\ expired' = expired \cup Overdue(oms)
  /\ IF Overdue(oms) # {} /\ HaltOnTimeout /\ ~Halted(r)
     THEN /\ risk' = Engage(r, "OrderTimeout")
          /\ \E written \in Written :
               journal' = IF written THEN [journal EXCEPT !.halt = "OrderTimeout"] ELSE journal
     ELSE risk' = r /\ UNCHANGED journal

BusySweep ==
  /\ pc = "poll"
  /\ Overdue(oms) # {}
  /\ SweepOrders(risk)
  /\ UNCHANGED <<pc, stop, pending, venue, faulted, closing, submitted>>

\* The idle branch of run_threaded() when the feed has gone silent.
NoticeStale ==
  /\ pc = "poll" /\ Threaded
  /\ ~faulted
  /\ faulted' = TRUE
  /\ EngageFor("Manual")
  /\ UNCHANGED <<pc, stop, oms, pending, venue, closing, submitted, expired>>

\* The rest of it: a sweep if one is due, then the orders that came due.
Idle ==
  /\ pc = "poll" /\ Threaded
  /\ VenueLatency > 0
  /\ pc' = "idle"
  /\ \/ SweepOrders(risk)
     \/ UNCHANGED <<oms, risk, journal, expired>>
  /\ UNCHANGED <<stop, pending, venue, faulted, closing, submitted>>

\* SIGINT, SIGTERM, or the end of a bounded run.
RequestStop ==
  /\ pc = "poll" /\ ~stop
  /\ stop' = TRUE
  /\ UNCHANGED <<pc, oms, risk, pending, venue, faulted, closing, journal,
                 submitted, expired>>

\* Mutant of LeaveLoop: the loop is left only once the wire is empty.
LeaveLoopOnceLanded ==
  /\ pc = "poll" /\ pending = << >>
  /\ pc' = "drain"
  /\ UNCHANGED <<stop, oms, risk, pending, venue, faulted, closing, journal,
                 submitted, expired>>

\* The feed is exhausted or a stop was requested: the loop is left.
LeaveLoop ==
  /\ pc = "poll"
  /\ pc' = "drain"
  /\ UNCHANGED <<stop, oms, risk, pending, venue, faulted, closing, journal,
                 submitted, expired>>

\* Nothing left on the wire: the forced sweep, and run() returns.
EndRun ==
  /\ pc = "drain" /\ ~Due
  /\ pc' = "ended"
  /\ SweepOrders(risk)
  /\ UNCHANGED <<stop, pending, venue, faulted, closing, submitted>>

-----------------------------------------------------------------------------
(***************************************************************************)
(* main(): shutdown with or without flatten_on_exit.                       *)
(***************************************************************************)

Shutdown ==
  /\ pc = "ended"
  /\ \/ pc' = "done" /\ UNCHANGED closing
     \/ pc' = "flatten" /\ closing' = {s \in Symbol : held[s] # 0}
  /\ UNCHANGED <<stop, oms, risk, pending, venue, faulted, journal, submitted, expired>>

\* One instrument of flatten(): skipped if it has no usable price or the order
\* cannot be tracked, otherwise an order that bypasses the gate.
Flatten(s) ==
  /\ pc = "flatten" /\ s \in closing
  /\ closing' = closing \ {s}
  /\ LET d        == IF held[s] > 0 THEN "Sell" ELSE "Buy"
         quantity == Magnitude(held[s])
         id       == oms.next
         booked   == Create(oms, s, d, quantity)
     IN  \/ UNCHANGED <<stop, oms, risk, venue, journal, submitted>>
         \/ IF ~CanCreate(oms, id, quantity)
            THEN oms' = booked /\ UNCHANGED <<stop, risk, venue, journal, submitted>>
            ELSE \E n \in 0 .. quantity, px \in Price,
                    orderWritten \in Written, reportsWritten \in Written :
                   /\ Dispatch(booked, id, s, d, n, px, orderWritten, reportsWritten)
                   /\ risk' = OnFill(HaltedByJournal(risk, orderWritten, reportsWritten),
                                     s, d, n)
                   /\ journal' = JournalSent(id, orderWritten)
  /\ UNCHANGED <<pc, pending, faulted, expired>>

Flattened ==
  /\ pc = "flatten" /\ closing = {}
  /\ pc' = "done"
  /\ UNCHANGED <<stop, oms, risk, pending, venue, faulted, closing, journal,
                 submitted, expired>>

\* The process is gone.
Done == pc = "done" /\ UNCHANGED vars

Next ==
  \/ Tick \/ Receive \/ Land \/ Landed \/ NoSignal
  \/ \E s \in Symbol, d \in Side, sane \in BOOLEAN, reference \in Price :
       Signal(s, d, sane, reference)
  \/ BusySweep \/ NoticeStale \/ Idle \/ RequestStop \/ LeaveLoop \/ EndRun
  \/ Shutdown \/ (\E s \in Symbol : Flatten(s)) \/ Flattened \/ Done

Spec == Init /\ [][Next]_vars

\* The consumer thread keeps running its own code.  Nothing is assumed of the
\* feed.  Once a stop was requested the loop does not go round for ever: what
\* the ring still holds is finite (Pipeline's RunEnds).
Thread ==
  \/ Land \/ Landed \/ NoSignal
  \/ \E s \in Symbol, d \in Side, sane \in BOOLEAN, reference \in Price :
       Signal(s, d, sane, reference)
  \/ EndRun \/ Shutdown
  \/ (\E s \in Symbol : Flatten(s)) \/ Flattened

FairSpec == Spec /\ WF_vars(Thread) /\ SF_vars(stop /\ LeaveLoop)

-----------------------------------------------------------------------------
(***************************************************************************)
(* Properties.                                                             *)
(***************************************************************************)

\* Every part of the engine's state has its type; the gross total of the gate
\* never goes negative, and nothing waits on the wire past its latency.
TypeOK ==
  /\ oms.order \in [Tracked(oms) -> OrderRecord]
  /\ risk \in RiskState
  /\ held \in [Symbol -> Int]
  /\ \A k \in DOMAIN pending : pending[k].wait \in 0 .. VenueLatency
  /\ closing \subseteq Symbol
  /\ journal.halt \in HaltReason

\* What the records have filled on one side of symbol s, lot by lot.
FilledLots(order, s, d) ==
  UNION {{i} \X (1 .. order[i].filled) :
           i \in {j \in DOMAIN order : order[j].symbol = s /\ order[j].side = d}}

\* The position of symbol s that the order manager's records add up to.
Booked(order, s) ==
  Cardinality(FilledLots(order, s, "Buy")) - Cardinality(FilledLots(order, s, "Sell"))

\* The sum of the positions' magnitudes, as the number of their lots.
GrossOfPositions(position) ==
  Cardinality(UNION {{s} \X (1 .. Magnitude(position[s])) : s \in Symbol})

GrossHeld == GrossOfPositions(held)

\* The gate's own position book, kept fill by fill through two code paths, is
\* the venue's, and its incremental gross total is the recomputed one.
GateKnowsThePosition == risk.position = held /\ risk.gross = GrossHeld

\* What the positions have cost, less what the short ones have brought in.
Outlay(cost) ==
  Cardinality(UNION {{s} \X (1 .. cost[s]) : s \in Symbol})
    - Cardinality(UNION {{s} \X (1 .. -cost[s]) : s \in Symbol})

\* What was paid and received is what the venue says it has earned and what its
\* positions cost: over any fills that open, add to, reduce, close and flip
\* positions, no gain is booked twice or forgotten (execution.cpp:103-111).
MoneyIsConserved == venue.realized - Outlay(venue.cost) = venue.cash

\* No position passes its limit, and the book as a whole not the gross limit
\* (risk.hpp:60-62; oms.hpp:18-22 for what is in flight).
PositionWithinLimit ==
  /\ \A s \in Symbol : Magnitude(held[s]) <= SymbolLimit(s)
  /\ GrossHeld <= MaxGrossPosition

\* Every order the engine waits for is on its own wire, once: nothing it sent
\* is lost, nothing is dispatched twice, and what the sweep did not give up is
\* still unanswered when it lands.
WireIsComplete ==
  LET ids == {pending[k].id : k \in DOMAIN pending}
  IN  /\ Unanswered(oms) = ids \ expired
      /\ Cardinality(ids) = Len(pending)
      /\ ids \cap submitted = {}

\* What the order manager books is what the venue holds (test_oms.cpp:727).
BookedIsHeld == \A s \in Symbol : Booked(oms.order, s) = held[s]

\* Where it is not, an order was given up while on the wire, its answer was
\* counted as a break, and trading has stopped over it.
DifferenceIsExplained ==
  \/ BookedIsHeld
  \/ expired \cap submitted # {} /\ oms.breaks \cap {"invalid", "late"} # {} /\ Halted(risk)

\* When run() has returned nothing is outstanding: the wire is empty, no order
\* works, and no exposure is stranded (test_oms.cpp:677-682).
NothingOutstanding ==
  pc \in {"ended", "flatten", "done"} =>
    /\ pending = << >>
    /\ Working(oms) = {} /\ oms.open = 0
    /\ oms.gross = 0
    /\ \A s \in Symbol, d \in Side : oms.exposure[s][d] = 0

\* An order is recorded before it can exist at the venue (engine.cpp:95-97).
SentIsJournaled == submitted \subseteq journal.sent

\* Once a record is missing, the run is over: the kill switch is engaged and a
\* stop requested, so no new order joins the ones already on the wire.
UnjournaledStopsTheRun == ~SentIsJournaled => stop /\ Halted(risk)

\* Nothing trades off a feed that is missing updates (engine.cpp:202-204): no
\* signal becomes an order, although messages keep being processed.
NoOrderOnFaultedFeed ==
  [][faulted /\ pc = "decide" => Tracked(oms)' \subseteq Tracked(oms)]_vars

\* A stop that is requested - by a signal, or by a failed write in the middle of
\* a dispatch - ends the process, whatever is on the wire.
StopEndsTheRun == stop ~> pc = "done"
=============================================================================
