---------------------------- MODULE OrderManager -----------------------------
(***************************************************************************)
(* hft::OrderManager as a state machine: each public operation of the      *)
(* class is an action, called in any order by an engine, a recovery, an    *)
(* operator and a venue that may answer with anything at all - a report    *)
(* for an id nobody issued, a second ack, more than was asked for.         *)
(*                                                                         *)
(* The calls are not concurrent: the class is only touched by the thread   *)
(* that consumes the ring (engine.cpp:493-555), so each is one step.       *)
(***************************************************************************)
EXTENDS Oms

CONSTANTS
  MaxId,            \* bound: no id above it is issued or reported
  MaxQuantity,      \* bound: an order's quantity; a report may carry one more
  MaxLots,          \* bound: the quantities of all tracked orders together
  MaxBreaks,        \* bound: the kinds of break counted in one behaviour
  StrictSnapshots   \* TRUE: a snapshot's filled and leaves add up to its quantity

ASSUME OrderManagerConstants ==
  /\ MaxId \in Nat \ {0}
  /\ MaxQuantity \in Nat \ {0}
  /\ MaxLots \in Nat /\ MaxBreaks \in Nat
  /\ StrictSnapshots \in BOOLEAN

VARIABLE oms

Id == 1 .. MaxId
Quantity == 1 .. MaxQuantity

\* What reconciliation can hand over (main.cpp:431-443): an order that still
\* rests at the venue.  The file source refuses only filled + leaves > quantity.
Snapshot ==
  {snap \in [id : Id, symbol : Symbol, side : Side, quantity : Quantity,
             filled : 0 .. MaxQuantity, leaves : Quantity,
             state : {"New", "PartiallyFilled"}] :
     /\ snap.filled + snap.leaves <= snap.quantity
     /\ StrictSnapshots => snap.filled + snap.leaves = snap.quantity
     /\ snap.state = IF snap.filled > 0 THEN "PartiallyFilled" ELSE "New"}

\* Only a fill carries a quantity that apply() reads.
ExecutionReport ==
  {rep \in [id : 0 .. MaxId, type : ExecType, quantity : 0 .. MaxQuantity + 1] :
     rep.type # "Fill" => rep.quantity = 0}

-----------------------------------------------------------------------------

Init == oms = InitOms

\* Within the bounds: another order fits, and few kinds of break have been counted.
\* Nothing reads the counters, so that the second leaves out only which are seen together.
RoomForLots(quantity) ==
  MapThenSumSet(LAMBDA i : oms.order[i].quantity, Tracked(oms)) + quantity <= MaxLots
FewBreaks == Cardinality(oms.breaks) <= MaxBreaks

CreateOrder(s, d, quantity) ==
  /\ oms.next <= MaxId /\ RoomForLots(quantity)
  /\ oms' = Create(oms, s, d, quantity)
  /\ FewBreaks'

AdoptOrder(snap) ==
  /\ RoomForLots(snap.quantity)
  /\ oms' = Adopt(oms, snap)
  /\ FewBreaks'

MoveNextId(n) == oms' = SetNextId(oms, n)

ApplyReport(rep) ==
  /\ oms' = Apply(oms, rep)
  /\ FewBreaks'

CancelOrder(id) == oms' = RequestCancel(oms, id)

Sweep == \E walk \in WalkOrders(Overdue(oms)) : oms' = SweepTimeouts(oms, walk)

ClearAll == oms' = InitOms

\* Time passes for the orders nobody has answered.
Tick == oms' = Older(oms)

Next ==
  \/ \E s \in Symbol, d \in Side, quantity \in Quantity : CreateOrder(s, d, quantity)
  \/ \E snap \in Snapshot : AdoptOrder(snap)
  \/ \E n \in Id : MoveNextId(n)
  \/ \E rep \in ExecutionReport : ApplyReport(rep)
  \/ \E id \in Id : CancelOrder(id)
  \/ Sweep
  \/ ClearAll
  \/ Tick

Spec == Init /\ [][Next]_oms

\* The consumer loop sweeps every kSweepCheckTicks messages, whenever it is
\* idle, and once more when the run ends; the clock does not stop.  Either
\* matters only while there is something to sweep or to age.
Fairness ==
  /\ WF_oms(Overdue(oms) # {} /\ Sweep)
  /\ WF_oms(Unanswered(oms) # {} /\ Tick)

FairSpec == Spec /\ Fairness

-----------------------------------------------------------------------------
(***************************************************************************)
(* Properties.                                                             *)
(***************************************************************************)

\* The shape of the order manager's state: every field has its type, and the
\* ids it tracks are real ids below the one to be issued next.
TypeOK ==
  /\ DOMAIN oms = {"order", "retired", "open", "next", "exposure", "gross", "breaks"}
  /\ Tracked(oms) \subseteq Nat \ {0}
  /\ oms.order \in [Tracked(oms) -> OrderRecord]
  /\ oms.retired \in Seq(Nat \ {0})
  /\ oms.open \in Nat
  /\ oms.next \in Nat \ {0}
  /\ oms.exposure \in [Symbol -> [Side -> Nat]]
  /\ oms.gross \in Nat
  /\ oms.breaks \subseteq Breaks
  /\ \A i \in Tracked(oms) : i < oms.next

\* working_quantity() is exactly what the working orders have left, whatever
\* the sequence of calls: never short, which would let the position limit be
\* passed, and never long, which would be phantom exposure (oms.hpp:218-220).
\* The clamps of add_exposure() and retire() must therefore never bite.
ExposureExact ==
  \A s \in Symbol, d \in Side : oms.exposure[s][d] = Cardinality(Lots(oms.order, s, d))

\* The incrementally maintained gross_working_exposure() is the sum that the
\* risk check would get by walking every symbol (oms.cpp:177-179).
GrossExact == oms.gross = GrossOf(oms.exposure)

\* What an order has left is what was not filled while it works, and nothing
\* once it is finished; more than its quantity is filled only if counted.
LeavesExact ==
  \A i \in Tracked(oms) :
    LET r == oms.order[i]
    IN  /\ r.leaves = IF r.state \in Live THEN r.quantity - r.filled ELSE 0
        /\ r.filled > r.quantity => "overfill" \in oms.breaks

\* The three records of who is working agree: the retired ring lists exactly
\* the finished orders, once each, and open_count_ counts exactly the others.
\* So a slot is free whenever another order may open, and the ring never
\* points at a slot that a live order has been given (oms.cpp:223-237, 313-326).
BooksBalance ==
  /\ Range(oms.retired) = Finished(oms)
  /\ Cardinality(Range(oms.retired)) = Len(oms.retired)
  /\ Len(oms.retired) <= RetiredHistory
  /\ oms.open = Cardinality(Working(oms))
  /\ oms.open <= MaxOpenOrders

\* A consequence of the records' agreement (OrderManagerProofs): create_with_id() never has to evict
\* a retired record to make room, so an order is refused only for its id, its
\* quantity or the cap on open orders.
RoomForEveryOpenOrder ==
  oms.open < MaxOpenOrders => Cardinality(Tracked(oms)) < PoolCapacity

Cleared == oms' = InitOms

\* Once an order reaches a terminal state it never leaves it (oms.hpp:52-53),
\* and no late fill changes what its record says it filled.
TerminalIsFinal ==
  [][\A i \in Finished(oms) \cap Tracked(oms)' : oms'.order[i] = oms.order[i]]_oms

\* A working order is forgotten by nothing but clear(), or by the sweep that
\* expires more orders at once than the history holds: otherwise it stays
\* findable, for the same symbol, side and quantity, with no less filled.
WorkingIsNeverForgotten ==
  [][\/ Cleared
     \/ \A i \in Working(oms) :
          \/ /\ i \in Tracked(oms)'
             /\ \A f \in {"symbol", "side", "quantity"} : oms'.order[i][f] = oms.order[i][f]
             /\ oms'.order[i].filled >= oms.order[i].filled
          \/ i \in Overdue(oms) /\ Cardinality(Overdue(oms)) > RetiredHistory]_oms

\* The ids this session issues are unique (oms.hpp:192-197), whatever
\* set_next_id() and adopt() are called with: what enters PendingNew takes an id
\* above every id issued, adopted or skipped before, and no later call but
\* clear() moves the sequence back to it.
IssuedIdsAreUnique ==
  [][\/ Cleared
     \/ /\ oms'.next >= oms.next
        /\ \A i \in Unanswered(oms)' \ Tracked(oms) : oms.next <= i /\ i < oms'.next]_oms

\* No order stays unanswered for ever: it is acked, filled or rejected, or the
\* sweep makes the ambiguity explicit by expiring it (oms.hpp:23-26).
UnansweredIsResolved ==
  \A i \in Id : i \in Unanswered(oms) ~> i \notin Unanswered(oms)

\* The order manager implements the ledger the risk check believes it reads.
ledger == INSTANCE Ledger WITH
  book     <- [i \in Working(oms) |-> [symbol |-> oms.order[i].symbol,
                                       side   |-> oms.order[i].side,
                                       leaves |-> oms.order[i].leaves]],
  exposure <- oms.exposure

ImplementsLedger == ledger!Spec
=============================================================================
