--------------------------------- MODULE Oms ---------------------------------
(***************************************************************************)
(* The operations of hft::OrderManager (cpp/src/oms.cpp) as operators from *)
(* one state of the order manager to the next.  A handler of the engine    *)
(* calls several of them in a row, so they compose as ordinary functions;  *)
(* OrderManager.tla turns them into a state machine of its own.            *)
(*                                                                         *)
(* The pool, its free list and the open-addressed id index are abstracted  *)
(* to one function from tracked ids to records: DOMAIN o.order is the set  *)
(* of ids for which slot_for() finds a slot, and a free slot exists while  *)
(* that set is smaller than the pool.  The retired ring keeps its ids as a *)
(* sequence, oldest first.  Of the timestamps only created_ts_ns decides   *)
(* anything, and only through the age of an unanswered order: a record     *)
(* keeps that age in ticks, up to the ack timeout.  Prices, fees, venue    *)
(* order ids and the counters of normal outcomes decide nothing here and   *)
(* are left out; the counters of the five ways a call can fail to make     *)
(* sense are abstracted to the set of kinds counted so far.                *)
(***************************************************************************)
EXTENDS Integers, Sequences, FiniteSets, FiniteSetsExt

CONSTANTS
  Symbol,          \* instruments
  MaxOpenOrders,   \* Config::max_open_orders
  RetiredHistory,  \* Config::retired_history
  AckTimeout       \* Config::ack_timeout_ns, in clock ticks

ASSUME OmsConstants ==
  /\ IsFiniteSet(Symbol)
  /\ MaxOpenOrders \in Nat \ {0}    \* the constructor raises 0 to 1
  /\ RetiredHistory \in Nat \ {0}
  /\ AckTimeout \in Nat            \* and a negative timeout to 0

Side == {"Buy", "Sell"}
Live == {"PendingNew", "New", "PartiallyFilled", "PendingCancel"}
Terminal == {"Filled", "Cancelled", "Rejected", "Expired"}
Breaks == {"unknown", "late", "invalid", "overfill", "capacity"}

\* Mutants of AcceptedIn: a late fill reopens an expired order, only a cancel
\* we asked for is taken, and an ack may be repeated.
AcceptsFillOfExpired ==
  [Acked          |-> {"PendingNew"},
   VenueRejected  |-> {"PendingNew"},
   Fill           |-> Live \cup {"Expired"},
   Cancelled      |-> {"PendingCancel", "New", "PartiallyFilled"},
   CancelRejected |-> {"PendingCancel"}]

AcceptsSolicitedCancels == [AcceptsFillOfExpired EXCEPT !.Cancelled = {"PendingCancel"}]

AcceptsRepeatedAck == [AcceptsFillOfExpired EXCEPT !.Acked = {"PendingNew", "New"}]

\* The states in which apply() accepts each kind of report.
AcceptedIn ==
  [Acked          |-> {"PendingNew"},
   VenueRejected  |-> {"PendingNew"},
   Fill           |-> Live,
   Cancelled      |-> {"PendingCancel", "New", "PartiallyFilled"},
   CancelRejected |-> {"PendingCancel"}]

ExecType == DOMAIN AcceptedIn

OrderRecord ==
  [symbol : Symbol, side : Side, quantity : Nat \ {0}, filled : Nat,
   leaves : Nat, state : Live \cup Terminal, age : 0 .. AckTimeout]

InitOms ==
  [order    |-> [i \in {} |-> i],
   retired  |-> << >>,
   open     |-> 0,
   next     |-> 1,
   exposure |-> [s \in Symbol |-> [d \in Side |-> 0]],
   gross    |-> 0,
   breaks   |-> {}]

-----------------------------------------------------------------------------

PoolCapacity == MaxOpenOrders + RetiredHistory

AtLeastZero(n) == IF n < 0 THEN 0 ELSE n
Magnitude(n) == IF n < 0 THEN -n ELSE n

Tracked(o) == DOMAIN o.order
Working(o) == {i \in Tracked(o) : o.order[i].state \in Live}
Finished(o) == {i \in Tracked(o) : o.order[i].state \in Terminal}

\* The working quantity of one side of one symbol, lot by lot: its cardinality
\* is the sum of the leaves, written without a recursive sum.
Lots(order, s, d) ==
  UNION {{i} \X (1 .. order[i].leaves) :
           i \in {j \in DOMAIN order : order[j].symbol = s /\ order[j].side = d}}

Net(e) == e["Buy"] - e["Sell"]
WorkingExposure(o, s) == Net(o.exposure[s])
\* The sum over the symbols of |buy - sell|, as a cardinality again.
GrossUnits(exposure) == UNION {{s} \X (1 .. Magnitude(Net(exposure[s]))) : s \in Symbol}
GrossOf(exposure) == Cardinality(GrossUnits(exposure))

\* Mutant of Count: the report is swallowed.
CountNothing(o, kind) == o

Count(o, kind) == [o EXCEPT !.breaks = @ \cup {kind}]

\* Mutants of AddExposure: gross as a sum over sides instead of over nets, and
\* every change booked on the buy side.
AddExposureToBothTotals(o, s, d, delta) ==
  [o EXCEPT !.exposure[s][d] = AtLeastZero(@ + delta), !.gross = @ + delta]

AddExposureToBuys(o, s, d, delta) ==
  [o EXCEPT !.exposure[s]["Buy"] = AtLeastZero(@ + delta)]

\* add_exposure(): clamped at zero, and the gross total adjusted by the change
\* in this symbol's own contribution.
AddExposure(o, s, d, delta) ==
  LET was == o.exposure[s]
      now == [was EXCEPT ![d] = AtLeastZero(@ + delta)]
  IN  [o EXCEPT !.exposure[s] = now,
                !.gross = @ + (Magnitude(Net(now)) - Magnitude(Net(was)))]

-----------------------------------------------------------------------------
(***************************************************************************)
(* create_with_id() and its callers.                                       *)
(***************************************************************************)

Forget(order, ids) == Restrict(order, DOMAIN order \ ids)

\* Mutants of CanCreate: the cap on open orders, and the check for an id that
\* is already tracked, dropped.
CanCreateUncapped(o, id, quantity) ==
  id # 0 /\ id \notin Tracked(o) /\ quantity > 0

CanCreateDuplicate(o, id, quantity) ==
  id # 0 /\ quantity > 0 /\ o.open < MaxOpenOrders

CanCreate(o, id, quantity) ==
  /\ id # 0
  /\ id \notin Tracked(o)
  /\ quantity > 0
  /\ o.open < MaxOpenOrders
  /\ Cardinality(Tracked(o)) < PoolCapacity \/ Len(o.retired) > 0

\* alloc_slot(), or the eviction of the oldest retired record when every slot
\* is held.
WithFreeSlot(o) ==
  IF Cardinality(Tracked(o)) < PoolCapacity
  THEN o
  ELSE [o EXCEPT !.order = Forget(@, {Head(o.retired)}), !.retired = Tail(@)]

CreateWithId(o, id, s, d, quantity) ==
  IF ~CanCreate(o, id, quantity)
  THEN Count(o, "capacity")
  ELSE LET room == WithFreeSlot(o)
           rec  == [symbol |-> s, side |-> d, quantity |-> quantity, filled |-> 0,
                    leaves |-> quantity, state |-> "PendingNew", age |-> 0]
       IN  AddExposure(
             [room EXCEPT
                !.next    = IF id >= @ THEN id + 1 ELSE @,
                !.order   = [i \in DOMAIN @ \cup {id} |-> IF i = id THEN rec ELSE @[i]],
                !.open    = @ + 1],
             s, d, quantity)

Create(o, s, d, quantity) == CreateWithId(o, o.next, s, d, quantity)

\* Mutant of SetNextId: the sequence may be rewound.
RewindNextId(o, n) == [o EXCEPT !.next = n]

SetNextId(o, n) == [o EXCEPT !.next = IF n > @ THEN n ELSE @]

\* adopt(): an order the venue still holds, booked with what the venue says is
\* left of it.  snap: [id, symbol, side, quantity, filled, leaves, state].
Adopt(o, snap) ==
  IF snap.state \in Terminal
  THEN Count(o, "capacity")
  ELSE IF ~CanCreate(o, snap.id, snap.quantity)
  THEN Count(o, "capacity")
  ELSE LET booked == CreateWithId(o, snap.id, snap.symbol, snap.side, snap.quantity)
           leaves == Min({snap.leaves, snap.quantity})
           filled == Min({snap.filled, snap.quantity})
       IN  [AddExposure(booked, snap.symbol, snap.side, leaves - snap.quantity) EXCEPT
              !.order[snap.id].leaves = leaves,
              !.order[snap.id].filled = filled,
              !.order[snap.id].state  = snap.state]

-----------------------------------------------------------------------------
(***************************************************************************)
(* retire(), for the orders ids[1], ids[2], ... one after another: their   *)
(* remaining exposure is released, they leave the working set, and the     *)
(* ring forgets its oldest records to make room for them.                  *)
(***************************************************************************)
Retire(o, ids, final) ==
  LET done      == Range(ids)
      ring      == o.retired \o ids
      drop      == AtLeastZero(Len(ring) - RetiredHistory)
      forgotten == {ring[k] : k \in 1 .. drop}
      finishes(r) == [r EXCEPT !.leaves = 0, !.state = final]
      released  == Restrict(o.order, done)
      exposure  == [s \in Symbol |-> [d \in Side |->
                      AtLeastZero(o.exposure[s][d] - Cardinality(Lots(released, s, d)))]]
  IN  [o EXCEPT
         !.order    = [i \in DOMAIN @ \ forgotten |->
                         IF i \in done THEN finishes(@[i]) ELSE @[i]],
         !.retired  = SubSeq(ring, drop + 1, Len(ring)),
         !.open     = AtLeastZero(@ - Cardinality(done)),
         !.exposure = exposure,
         !.gross    = @ + (GrossOf(exposure) - GrossOf(o.exposure))]

-----------------------------------------------------------------------------
(***************************************************************************)
(* apply(): one execution report [id, type, quantity].                     *)
(***************************************************************************)
Applies(o, rep) ==
  /\ rep.id \in Tracked(o)
  /\ o.order[rep.id].state \in AcceptedIn[rep.type]
  /\ rep.type = "Fill" => rep.quantity > 0

SetState(o, id, state) == [o EXCEPT !.order[id].state = state]

\* Mutants of Consumed and LeavesAfter: an overfill takes other orders' working
\* quantity too, and a fill forgets the fills before it.
ConsumedInFull(r, quantity) == quantity
LeavesAfterThisFill(r, quantity) == AtLeastZero(r.quantity - quantity)

\* A fill is recorded in full; what it takes off the working quantity is at
\* most what was left.
Consumed(r, quantity) == Min({quantity, r.leaves})
LeavesAfter(r, quantity) == AtLeastZero(r.quantity - (r.filled + quantity))

Execute(o, id, quantity) ==
  LET r       == o.order[id]
      flagged == IF quantity > r.leaves THEN Count(o, "overfill") ELSE o
  IN  AddExposure([flagged EXCEPT !.order[id].filled = r.filled + quantity,
                                  !.order[id].leaves = LeavesAfter(r, quantity)],
                  r.symbol, r.side, -Consumed(r, quantity))

\* Mutants of ApplyFill: the first fill finishes the order, and a fill before
\* the ack is dropped.
ApplyFillAsLast(o, id, quantity) == Retire(Execute(o, id, quantity), <<id>>, "Filled")

ApplyFillOnceAcked(o, id, quantity) ==
  IF o.order[id].state = "PendingNew" THEN o ELSE Execute(o, id, quantity)

ApplyFill(o, id, quantity) ==
  LET hit == Execute(o, id, quantity)
  IN  IF hit.order[id].leaves = 0 THEN Retire(hit, <<id>>, "Filled")
      ELSE IF hit.order[id].state = "PendingCancel" THEN hit
      ELSE SetState(hit, id, "PartiallyFilled")

Apply(o, rep) ==
  IF rep.id \notin Tracked(o)
  THEN Count(o, IF rep.id # 0 /\ rep.id < o.next THEN "late" ELSE "unknown")
  ELSE IF ~Applies(o, rep) THEN Count(o, "invalid")
  ELSE CASE rep.type = "Acked"         -> SetState(o, rep.id, "New")
         [] rep.type = "VenueRejected" -> Retire(o, <<rep.id>>, "Rejected")
         [] rep.type = "Fill"          -> ApplyFill(o, rep.id, rep.quantity)
         [] rep.type = "Cancelled"     -> Retire(o, <<rep.id>>, "Cancelled")
         [] rep.type = "CancelRejected" ->
              SetState(o, rep.id, IF o.order[rep.id].filled > 0
                                  THEN "PartiallyFilled" ELSE "New")

-----------------------------------------------------------------------------
(***************************************************************************)
(* request_cancel() and sweep_timeouts().                                  *)
(***************************************************************************)
Cancellable(o, id) ==
  id \in Tracked(o) /\ o.order[id].state \in {"New", "PartiallyFilled"}

RequestCancel(o, id) ==
  IF Cancellable(o, id) THEN SetState(o, id, "PendingCancel") ELSE o

Unanswered(o) == {i \in Tracked(o) : o.order[i].state = "PendingNew"}

\* Mutant of Overdue: the acked orders are timed out instead.
OverdueAcked(o) == {i \in Tracked(o) : o.order[i].state = "New"}

Overdue(o) == {i \in Unanswered(o) : o.order[i].age >= AckTimeout}

\* A tick of the clock: every unanswered order is one tick older.
Aged(r) == [r EXCEPT !.age = Min({r.age + 1, AckTimeout})]

Older(o) ==
  [o EXCEPT !.order = [i \in DOMAIN @ |-> IF i \in Unanswered(o) THEN Aged(@[i]) ELSE @[i]]]

\* The orders in which the index may be walked: any permutation, since the
\* table order is a hash.
WalkOrders(S) == {f \in [1 .. Cardinality(S) -> S] : Range(f) = S}

SweepTimeouts(o, walk) == Retire(o, walk, "Expired")
=============================================================================
