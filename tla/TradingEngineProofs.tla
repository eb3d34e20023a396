------------------------- MODULE TradingEngineProofs -------------------------
(***************************************************************************)
(* Theorems about the engine, for every set of instruments and prices, all *)
(* limits, any venue latency and any number of orders, threaded or inline, *)
(* with or without failing journal writes.                                 *)
(*                                                                         *)
(* The invariant rests on the order manager's (OmsProofs): the engine only *)
(* changes it through its operations.  What has to be added is how the     *)
(* other records follow it - an order that works is on the wire and has    *)
(* not been given up (WireSound), the gate's book is the venue's           *)
(* (GateSound) - and what stops trading (HaltSound, JournalSound).         *)
(***************************************************************************)
EXTENDS TradingEngine, OmsProofs

WireOrder ==
  [id : Nat \ {0}, symbol : Symbol, side : Side, quantity : Nat \ {0},
   reference : Price, wait : 0 .. VenueLatency]

RiskRecord ==
  [position : [Symbol -> Int], gross : Int, daily : Nat, window : Nat,
   over : BOOLEAN, peak : Nat, halt : HaltReason]

VenueRecord ==
  [position : [Symbol -> Int], cost : [Symbol -> Int], realized : Int, cash : Int]

JournalRecord == [sent : SUBSET Nat, halt : HaltReason]

\* The shape of the state.
EngineTyped ==
  /\ IInv(oms)
  /\ risk \in RiskRecord
  /\ venue \in VenueRecord
  /\ pending \in Seq(WireOrder)
  /\ closing \subseteq Symbol
  /\ journal \in JournalRecord
  /\ stop \in BOOLEAN /\ faulted \in BOOLEAN

\* The gate's book is the venue's, and its gross total the sum.
GateSound(r, v) ==
  r.position = v.position /\ r.gross = GrossOfPositions(v.position)

\* The ids on a wire.
Ids(wire) == {wire[k].id : k \in DOMAIN wire}
NoIdTwice(wire) == \A j, k \in DOMAIN wire : wire[j].id = wire[k].id => j = k

\* What works is unanswered, on the wire and not given up; ids are of the past.
WireSound ==
  /\ Unanswered(oms) = Working(oms)
  /\ Working(oms) = Ids(pending) \ expired
  /\ NoIdTwice(pending)
  /\ Ids(pending) \cap submitted = {}
  /\ \A i \in Ids(pending) \cup submitted \cup expired : i \in Nat /\ i < oms.next
  /\ VenueLatency = 0 => pending = << >>
  /\ pc \in {"ended", "flatten", "done"} => pending = << >>

\* A missing record of a sent order has ended the run.
JournalSound == submitted \subseteq journal.sent \/ (stop /\ Halted(risk))

\* A faulted feed has halted trading.
HaltSound == faulted => Halted(risk)

\* The inductive invariant.
EngineInv == EngineTyped /\ GateSound(risk, venue) /\ WireSound /\ JournalSound /\ HaltSound

-----------------------------------------------------------------------------
(***************************************************************************)
(* The gate and the venue.                                                 *)
(***************************************************************************)

\* The greater of two integers.
LEMMA MaxOfTwo ==
  ASSUME NEW a \in Int, NEW b \in Int
  PROVE  Max({a, b}) = IF a >= b THEN a ELSE b
BY DEF Max

\* The gross total of whole positions is a natural number, and moving one position
\* changes it by the change of that position's magnitude.
LEMMA GrossMoves ==
  ASSUME NEW position \in [Symbol -> Int], NEW s \in Symbol, NEW x \in Int
  PROVE  /\ GrossOfPositions(position) \in Nat
         /\ GrossOfPositions([position EXCEPT ![s] = x]) =
              GrossOfPositions(position) - Magnitude(position[s]) + Magnitude(x)
<1> DEFINE moved == [position EXCEPT ![s] = x]
           a == [t \in Symbol |-> Magnitude(position[t])]
           b == [t \in Symbol |-> Magnitude(moved[t])]
<1>1. IsFiniteSet(Symbol)
  BY OmsConstants DEF OmsConstants
<1>2. /\ \A t \in Symbol : a[t] \in Nat
      /\ \A t \in Symbol : b[t] \in Nat
      /\ \A t \in Symbol \ {s} : b[t] = a[t]
      /\ a[s] = Magnitude(position[s]) /\ b[s] = Magnitude(x)
  BY DEF Magnitude
<1>3. /\ GrossOfPositions(position) = Cardinality(Pile(Symbol, a))
      /\ GrossOfPositions(moved) = Cardinality(Pile(Symbol, b))
  BY DEF GrossOfPositions, Pile
<1> HIDE DEF a, b, moved
<1>4. Cardinality(Pile(Symbol, a)) \in Nat
  BY <1>1, <1>2, PileFinite
<1>5. Cardinality(Pile(Symbol, b)) = Cardinality(Pile(Symbol, a)) - a[s] + b[s]
  BY <1>1, <1>2, PileUpdate
<1> QED BY <1>2, <1>3, <1>4, <1>5 DEF moved

\* The whole part of a quotient is an integer.
LEMMA QuotientType ==
  ASSUME NEW a \in Int, NEW b \in Nat \ {0}
  PROVE  a \div b \in Int
OBVIOUS

\* The product of integers is an integer.
LEMMA ProductType ==
  ASSUME NEW a \in Int, NEW b \in Int
  PROVE  a * b \in Int
OBVIOUS

\* What a fill makes of the venue's records: whole numbers again, and one position
\* moved by what was filled.
LEMMA ApplyPnlTyped ==
  ASSUME NEW v \in VenueRecord, NEW s \in Symbol, NEW d \in Side, NEW n \in Nat,
         NEW px \in Price
  PROVE  LET w == ApplyPnl(v, s, d, n, px)
         IN  /\ w \in VenueRecord
             /\ w.position = [v.position EXCEPT ![s] = v.position[s] + Signed(d, n)]
<1> DEFINE w == ApplyPnl(v, s, d, n, px)
           signed == Signed(d, n)
           fee == Fee(px, n)
           prev == v.position[s]
           average == AverageEntry(v, s)
           cost == CostAfter(v, s, signed, px)
           gain == Realized(v, s, signed, px)
<1>1. /\ v.position \in [Symbol -> Int] /\ v.cost \in [Symbol -> Int]
      /\ v.realized \in Int /\ v.cash \in Int
      /\ px \in Int /\ FeeBps \in Int
  BY PaperVenueConstants DEF PaperVenueConstants, VenueRecord
<1>2. signed \in Int /\ prev \in Int /\ v.cost[s] \in Int /\ prev + signed \in Int
  BY <1>1 DEF Signed
<1>3. fee \in Int
  <2> DEFINE a == px * n
             b == a * FeeBps
  <2>1. a \in Int
    BY <1>1, ProductType
  <2> HIDE DEF a
  <2>2. b \in Int
    BY <1>1, <2>1, ProductType
  <2> HIDE DEF b
  <2>3. b \div 10000 \in Int
    BY <2>2, QuotientType
  <2> QED BY <2>3 DEF Fee, a, b
<1>4. ASSUME prev # 0 PROVE average \in Int
  <2>1. Magnitude(v.cost[s]) \in Int /\ Magnitude(prev) \in Nat \ {0}
    BY <1>2, <1>4 DEF Magnitude
  <2> QED BY <2>1, QuotientType DEF AverageEntry
<1>5. px * signed \in Int /\ px * (prev + signed) \in Int
  BY <1>1, <1>2, ProductType
<1> HIDE DEF fee, average, signed
<1>6. cost \in Int
  <2> DEFINE new == prev + signed
             carried == average * new
             fresh == px * new
             added == px * signed
  <2>1. prev # 0 => carried \in Int
    BY <1>2, <1>4, ProductType
  <2>2. cost = IF prev = 0 \/ (prev > 0) = (signed > 0) THEN v.cost[s] + added
               ELSE IF new = 0 \/ (new > 0) = (prev > 0) THEN carried ELSE fresh
    BY DEF CostAfter, average
  <2>3. fresh \in Int /\ added \in Int
    BY <1>5
  <2> HIDE DEF cost, carried, fresh, added, new
  <2> QED BY <1>2, <2>1, <2>2, <2>3
<1>7. gain \in Int
  <2> DEFINE closing_ == Min({Magnitude(signed), Magnitude(prev)})
             sign == IF prev > 0 THEN 1 ELSE -1
             each == px - average
             earned == each * closing_ * sign
  <2>1. closing_ \in Int
    <3>1. Magnitude(signed) \in Int /\ Magnitude(prev) \in Int
      BY <1>2 DEF Magnitude
    <3> QED BY <3>1, MinOfTwo
  <2>2. gain = IF prev = 0 \/ (prev > 0) = (signed > 0) THEN 0 ELSE earned
    BY DEF Realized, average
  <2>3. sign \in Int
    OBVIOUS
  <2>4. prev # 0 => each \in Int
    BY <1>1, <1>4
  <2> HIDE DEF closing_, sign, each
  <2>5. prev # 0 => earned \in Int
    BY <2>1, <2>3, <2>4, ProductType
  <2> HIDE DEF gain, earned
  <2> QED BY <2>2, <2>5
<1> HIDE DEF cost, gain, prev
<1>8. CASE n = 0
  <2>1. w = v /\ signed = 0
    <3>1. w = v
      BY <1>8 DEF ApplyPnl
    <3>2. signed = 0
      <4>1. \A k \in Int : k <= 0 /\ k >= 0 => -k = 0
        OBVIOUS
      <4>2. n \in Int /\ n <= 0 /\ n >= 0
        BY <1>8
      <4>3. -n = 0
        BY ONLY <4>1, <4>2, Zenon
      <4> QED BY <1>8, <4>3, Zenon DEF Signed, signed
    <3> QED BY <3>1, <3>2
  <2>2. prev + signed = prev
    BY <1>2, <2>1
  <2>3. [v.position EXCEPT ![s] = v.position[s] + signed] = v.position
    BY <1>1, <2>2 DEF prev
  <2> QED BY <2>1, <2>3 DEF signed
<1>9. CASE n # 0
  <2> DEFINE spent == px * signed
  <2>1. w = [position |-> [v.position EXCEPT ![s] = v.position[s] + signed],
             cost     |-> [v.cost EXCEPT ![s] = cost],
             realized |-> v.realized + gain - fee,
             cash     |-> v.cash - spent - fee]
    BY <1>9 DEF ApplyPnl, signed, fee, cost, gain
  <2>2. v.realized + gain - fee \in Int /\ v.cash - spent - fee \in Int
    <3> HIDE DEF spent
    <3>1. spent \in Int
      BY <1>5 DEF spent
    <3> QED BY <1>1, <1>3, <1>7, <3>1
  <2>3. [v.position EXCEPT ![s] = v.position[s] + signed] \in [Symbol -> Int]
        /\ [v.cost EXCEPT ![s] = cost] \in [Symbol -> Int]
    BY <1>1, <1>2, <1>6 DEF prev
  <2> HIDE DEF w, spent
  <2> QED BY <2>1, <2>2, <2>3 DEF VenueRecord, w, signed
<1> QED BY <1>8, <1>9

\* The equity of an instrument is a whole number.
LEMMA EquityType ==
  ASSUME NEW v \in VenueRecord, NEW s \in Symbol, NEW mark \in Price
  PROVE  Equity(v, s, mark) \in Int
<1>1. /\ v.realized \in Int /\ v.position[s] \in Int /\ v.cost[s] \in Int /\ mark \in Int
  BY PaperVenueConstants DEF PaperVenueConstants, VenueRecord
<1> DEFINE gained == mark * v.position[s]
<1>2. gained \in Int
  BY <1>1, ProductType
<1> HIDE DEF gained
<1>3. v.realized + gained - v.cost[s] \in Int
  BY <1>1, <1>2
<1> QED BY <1>3 DEF Equity, gained

\* r2 is the state of the gate r with its book kept and no halt lifted.
BookKept(r, r2) ==
  /\ r2 \in RiskRecord
  /\ r2.position = r.position /\ r2.gross = r.gross
  /\ Halted(r) => Halted(r2)

\* Engaging the kill switch halts trading and keeps the book.
LEMMA EngageKeeps ==
  ASSUME NEW r \in RiskRecord, NEW reason \in HaltReason \ {"NotHalted"}
  PROVE  BookKept(r, Engage(r, reason)) /\ Halted(Engage(r, reason))
BY DEF BookKept, Engage, Halted, RiskRecord, HaltReason

\* check() keeps the book and lifts no halt, whatever its verdict.
LEMMA CheckedKeeps ==
  ASSUME NEW r \in RiskRecord, NEW verdict
  PROVE  BookKept(r, Checked(r, verdict))
<1>1. BookKept(r, r)
  BY DEF BookKept
<1>2. BookKept(r, OpenWindow(r))
  BY DEF BookKept, OpenWindow, RiskRecord, Halted
<1>3. BookKept(r, [OpenWindow(r) EXCEPT !.window = @ + 1, !.daily = @ + 1])
  <2> SUFFICES ASSUME NEW q \in RiskRecord, BookKept(r, q)
               PROVE  BookKept(r, [q EXCEPT !.window = @ + 1, !.daily = @ + 1])
    BY <1>2 DEF BookKept
  <2> DEFINE opened == [q EXCEPT !.window = q.window + 1]
             counted == [opened EXCEPT !.daily = q.daily + 1]
  <2>1. BookKept(r, opened)
    BY DEF BookKept, RiskRecord, Halted
  <2> HIDE DEF opened
  <2>2. BookKept(r, counted)
    BY <2>1 DEF BookKept, RiskRecord, Halted
  <2> QED BY <2>2 DEF opened
<1>4. BookKept(r, [r EXCEPT !.daily = @ + 1])
  BY DEF BookKept, RiskRecord, Halted
<1>5. BookKept(r, Engage(r, "DailyOrderLimit"))
  BY EngageKeeps DEF HaltReason
<1> QED BY <1>1, <1>2, <1>3, <1>4, <1>5 DEF Checked

\* Marking the equity keeps the book and lifts no halt.
LEMMA OnEquityKeeps ==
  ASSUME NEW r \in RiskRecord, NEW equity \in Int
  PROVE  BookKept(r, OnEquity(r, equity))
<1> DEFINE peak == Max({r.peak, equity})
           marked == [r EXCEPT !.peak = peak]
<1>1. peak \in Nat
  <2>1. r.peak \in Nat
    BY DEF RiskRecord
  <2> QED BY <2>1, MaxOfTwo
<1>2. marked \in RiskRecord /\ BookKept(r, marked)
  <2> HIDE DEF peak
  <2> QED BY <1>1 DEF RiskRecord, BookKept, Halted
<1>3. OnEquity(r, equity) = marked \/ OnEquity(r, equity) = Engage(marked, "DrawdownBreach")
  BY DEF OnEquity
<1> HIDE DEF marked
<1>4. BookKept(marked, Engage(marked, "DrawdownBreach"))
  BY <1>2, EngageKeeps DEF HaltReason
<1> QED BY <1>2, <1>3, <1>4 DEF BookKept

\* A journal failure keeps the book, and halts trading.
LEMMA HaltedByJournalKeeps ==
  ASSUME NEW r \in RiskRecord, NEW orderWritten, NEW reportsWritten
  PROVE  LET h == HaltedByJournal(r, orderWritten, reportsWritten)
         IN  BookKept(r, h) /\ ((orderWritten /\ reportsWritten) \/ Halted(h))
BY EngageKeeps DEF HaltedByJournal, HaltReason, BookKept

\* Booking a fill at the gate and at the venue leaves the two books equal.
LEMMA OnFillAgrees ==
  ASSUME NEW r \in RiskRecord, NEW v \in VenueRecord, GateSound(r, v),
         NEW s \in Symbol, NEW d \in Side, NEW n \in Nat, NEW px \in Price
  PROVE  LET after == OnFill(r, s, d, n)
         IN  /\ after \in RiskRecord
             /\ GateSound(after, ApplyPnl(v, s, d, n, px))
             /\ after.halt = r.halt
<1> DEFINE x == r.position[s] + Signed(d, n)
           after == OnFill(r, s, d, n)
           position == [r.position EXCEPT ![s] = x]
           gross == r.gross + Magnitude(x) - Magnitude(r.position[s])
<1>1. r.position \in [Symbol -> Int] /\ r.gross \in Int
  BY DEF RiskRecord
<1>2. Signed(d, n) \in Int /\ r.position[s] \in Int /\ x \in Int
  BY <1>1 DEF Signed
<1>3. Magnitude(x) \in Int /\ Magnitude(r.position[s]) \in Int
  BY <1>2 DEF Magnitude
<1>4. after = [r EXCEPT !.position = position, !.gross = gross]
  BY DEF OnFill
<1>5. position \in [Symbol -> Int]
  BY <1>1, <1>2
<1>6. gross \in Int
  <2> HIDE DEF x
  <2> QED BY <1>1, <1>3
<1>7. gross = GrossOfPositions(position)
  <2>1. GrossOfPositions(position) =
          GrossOfPositions(r.position) - Magnitude(r.position[s]) + Magnitude(x)
    BY <1>1, <1>2, GrossMoves
  <2>2. GrossOfPositions(r.position) = r.gross
    BY DEF GateSound
  <2> HIDE DEF x, position
  <2> QED BY <1>1, <1>3, <2>1, <2>2
<1>8. ApplyPnl(v, s, d, n, px).position = position
  BY ApplyPnlTyped DEF GateSound
<1> HIDE DEF position, gross, x
<1>9. /\ after \in RiskRecord /\ after.position = position /\ after.gross = gross
      /\ after.halt = r.halt
  <2> HIDE DEF after
  <2> QED BY <1>4, <1>5, <1>6 DEF RiskRecord
<1> QED BY <1>7, <1>8, <1>9 DEF GateSound

-----------------------------------------------------------------------------
(***************************************************************************)
(* The order manager between two steps of the engine.                      *)
(***************************************************************************)

\* n is o with the orders X gone from the working set, and the others as they were.
LetGo(o, n, X) ==
  /\ IInv(n) /\ n.next = o.next
  /\ Working(n) = Working(o) \ X
  /\ \A i \in Working(n) : n.order[i] = o.order[i]

\* A report for an order that does not work is counted and changes no record.
LEMMA DeafToFinished ==
  ASSUME NEW o, IInv(o), NEW rep, ReadableReport(rep), rep.id \notin Working(o)
  PROVE  LET n == Apply(o, rep) IN IInv(n) /\ n.order = o.order /\ n.next = o.next
<1>1. \E kind \in Breaks : Apply(o, rep) = Count(o, kind)
  BY ApplyCases
<1>2. DOMAIN o = {"order", "retired", "open", "next", "exposure", "gross", "breaks"}
  BY DEF IInv, Sound, Typed
<1> QED BY <1>1, <1>2, ApplyKeeps DEF Count

\* The synchronous answer to an order that is still unanswered finishes it, however
\* much of it was filled; to one that was given up it changes no record.
LEMMA AnsweredLetsGo ==
  ASSUME NEW o, IInv(o), NEW id, NEW n \in Nat,
         id \in Working(o) => id \in Unanswered(o)
  PROVE  LetGo(o, Answered(o, id, n), {id})
<1> DEFINE ackReport    == [id |-> id, type |-> "Acked", quantity |-> 0]
           fillReport   == [id |-> id, type |-> "Fill", quantity |-> n]
           cancelReport == [id |-> id, type |-> "Cancelled", quantity |-> 0]
           acked == Apply(o, ackReport)
           hit   == IF n > 0 THEN Apply(acked, fillReport) ELSE acked
           final == Answered(o, id, n)
<1>1. /\ ReadableReport(ackReport) /\ ReadableReport(fillReport) /\ ReadableReport(cancelReport)
      /\ ackReport.id = id /\ fillReport.id = id /\ cancelReport.id = id
      /\ ackReport.type = "Acked" /\ fillReport.type = "Fill" /\ fillReport.quantity = n
      /\ cancelReport.type = "Cancelled"
  BY DEF ReadableReport, ExecType, AcceptedIn
<1>2. final = IF id \in Working(hit) THEN Apply(hit, cancelReport) ELSE hit
  BY DEF Answered
<1> HIDE DEF ackReport, fillReport, cancelReport, final
<1>3. CASE id \notin Working(o)
  <2>1. IInv(acked) /\ acked.order = o.order /\ acked.next = o.next
    BY <1>1, <1>3, DeafToFinished
  <2>2. Working(acked) = Working(o)
    BY <2>1 DEF Working, Tracked
  <2> HIDE DEF acked
  <2>3. IInv(hit) /\ hit.order = o.order /\ hit.next = o.next
    BY <1>1, <1>3, <2>1, <2>2, DeafToFinished
  <2> HIDE DEF hit
  <2>4. Working(hit) = Working(o)
    BY <2>3 DEF Working, Tracked
  <2>5. final = hit
    BY <1>2, <1>3, <2>4
  <2> QED BY <1>3, <2>3, <2>4, <2>5 DEF LetGo, final
<1>4. CASE id \in Working(o)
  <2>1. /\ id \in Tracked(o) /\ o.order[id].state = "PendingNew"
        /\ Typed(o) /\ o.next = o.next
    BY <1>4 DEF Unanswered, Working, IInv, Sound
  <2>2. acked = SetState(o, id, "New")
    BY <1>1, <2>1 DEF Apply, Applies, AcceptedIn
  <2>3. IInv(acked)
    BY <1>1, ApplyKeeps
  <2>4. /\ Tracked(acked) = Tracked(o)
        /\ \A i \in Tracked(o) : i # id => acked.order[i] = o.order[i]
        /\ acked.order[id].state = "New"
    BY <2>1, <2>2, SetStateRemembers
  <2>5. acked.next = o.next
    BY <2>1, <2>2, SetStateWithin DEF Within
  <2> HIDE DEF acked
  <2>6. Working(acked) = Working(o)
    BY <1>4, <2>4 DEF Working, Live
  <2>7. /\ IInv(hit) /\ hit.next = o.next
        /\ Working(hit) \in {Working(o), Working(o) \ {id}}
        /\ \A i \in Working(hit) : i # id => hit.order[i] = o.order[i]
        /\ id \in Working(hit) => hit.order[id].state \in {"New", "PartiallyFilled"}
    <3>1. CASE ~(n > 0)
      <4>1. hit = acked
        BY <3>1
      <4> QED BY <4>1, <2>3, <2>4, <2>5, <2>6 DEF Working
    <3>2. CASE n > 0
      <4> DEFINE booked == Execute(acked, id, n)
      <4>1. n \in Nat \ {0} /\ id \in Working(acked) /\ id \in Tracked(acked)
        BY <3>2, <1>4, <2>1, <2>4, <2>6
      <4>2. hit = ApplyFill(acked, id, n)
        <5>1. Apply(acked, fillReport) = ApplyFill(acked, id, n)
          BY <1>1, <2>4, <3>2, <4>1 DEF Apply, Applies, AcceptedIn, Live
        <5> QED BY <5>1, <3>2
      <4>3. IInv(hit)
        BY <2>3, <4>1, <4>2, ApplyFillKeeps
      <4>4. hit.next = acked.next /\ \A i \in Tracked(hit) \ {id} : hit.order[i] = acked.order[i]
        BY <2>3, <4>1, <4>2, ApplyFillWithin DEF Within
      <4>5. /\ Sound(booked, {id}) /\ id \in Working(booked)
            /\ Working(booked) = Working(acked) /\ Tracked(booked) = Tracked(acked)
            /\ booked.order[id].state = "New"
        BY <2>3, <2>4, <4>1, ExecuteKeeps, ExecuteRemembers
      <4>6. hit = IF booked.order[id].leaves = 0 THEN Retire(booked, <<id>>, "Filled")
                  ELSE SetState(booked, id, "PartiallyFilled")
        BY <4>2, <4>5 DEF ApplyFill
      <4>7. Typed(booked) /\ Books(booked) /\ id \in Tracked(booked)
        BY <4>5 DEF Sound, Working
      <4> HIDE DEF booked, hit
      <4>8. CASE booked.order[id].leaves = 0
        <5>1. Working(hit) = Working(o) \ {id}
          BY <4>5, <4>6, <4>7, <4>8, <2>6, RetireOneRemembers DEF Terminal
        <5> QED BY <5>1, <4>3, <4>4, <2>4, <2>5, <2>6 DEF Working
      <4>9. CASE booked.order[id].leaves # 0
        <5>1. /\ Tracked(hit) = Tracked(booked)
              /\ \A i \in Tracked(booked) : i # id => hit.order[i] = booked.order[i]
              /\ hit.order[id].state = "PartiallyFilled"
          BY <4>6, <4>7, <4>9, SetStateRemembers
        <5>2. Working(hit) = Working(o)
          BY <5>1, <4>5, <2>6 DEF Working, Live
        <5> QED BY <5>1, <5>2, <4>3, <4>4, <2>4, <2>5, <2>6 DEF Working
      <4> QED BY <4>8, <4>9
    <3> QED BY <3>1, <3>2
  <2> HIDE DEF hit
  <2>8. CASE id \notin Working(hit)
    BY <1>2, <2>7, <2>8 DEF LetGo, final
  <2>9. CASE id \in Working(hit)
    <3>1. id \in Tracked(hit) /\ Typed(hit) /\ Books(hit) /\ Working(hit) = Working(o)
      BY <2>7, <2>9 DEF Working, IInv, Sound
    <3>2. final = Retire(hit, <<id>>, "Cancelled")
      BY <1>1, <1>2, <2>7, <2>9, <3>1 DEF Apply, Applies, AcceptedIn
    <3>3. IInv(final)
      BY <1>1, <1>2, <2>7, <2>9, ApplyKeeps
    <3>4. Working(final) = Working(hit) \ {id}
      BY <2>9, <3>1, <3>2, RetireOneRemembers DEF Terminal
    <3>5. final.next = hit.next /\ \A i \in Tracked(final) \ {id} : final.order[i] = hit.order[i]
      <4>1. Range(<<id>>) = {id}
        BY DEF Range
      <4> QED BY <3>1, <3>2, <4>1, RetireWithin DEF Within
    <3> QED BY <2>7, <3>1, <3>3, <3>4, <3>5 DEF LetGo, final, Working
  <2> QED BY <2>8, <2>9
<1> QED BY <1>3, <1>4

\* What is left to work after letting orders go was unanswered if all was.
LEMMA LetGoUnanswered ==
  ASSUME NEW o, NEW n, NEW X, LetGo(o, n, X), Unanswered(o) = Working(o)
  PROVE  Unanswered(n) = Working(n)
BY DEF LetGo, Unanswered, Working, Live

\* create() of an order with a fresh id: one more unanswered order, and the
\* sequence moves on.
LEMMA CreateOpens ==
  ASSUME NEW o, IInv(o), NEW s \in Symbol, NEW d \in Side, NEW quantity \in Nat \ {0},
         CanCreate(o, o.next, quantity)
  PROVE  LET n == Create(o, s, d, quantity)
         IN  /\ IInv(n) /\ n.next > o.next /\ n.next \in Nat
             /\ o.next \notin Working(o)
             /\ Working(n) = Working(o) \cup {o.next}
             /\ n.order[o.next].state = "PendingNew"
             /\ \A i \in Working(o) : n.order[i] = o.order[i]
<1> DEFINE n == Create(o, s, d, quantity)
           id == o.next
<1>1. n = CreateWithId(o, id, s, d, quantity) /\ id \in Nat
  BY DEF Create, IInv, Sound, Typed
<1> HIDE DEF n
<1>2. /\ IInv(n) /\ id \in Working(n) /\ n.order[id].state = "PendingNew"
  <2> DEFINE rec == [symbol |-> s, side |-> d, quantity |-> quantity, filled |-> 0,
                     leaves |-> quantity, state |-> "PendingNew", age |-> 0]
  <2>1. rec.state = "PendingNew"
    OBVIOUS
  <2>2. IInv(n) /\ id \in Working(n) /\ n.order[id] = rec
    BY <1>1, CreateKeeps
  <2> HIDE DEF rec
  <2> QED BY <2>1, <2>2
<1>3. /\ o.next <= n.next /\ (id >= o.next /\ id \in Tracked(n) => id < n.next)
      /\ Tracked(o) \subseteq Tracked(n) /\ Tracked(n) \subseteq Tracked(o) \cup {id}
      /\ \A i \in Tracked(o) : n.order[i] = o.order[i]
  BY <1>1, CreateAdvances
<1>4. id \notin Tracked(o)
  BY DEF CanCreate
<1>5. Working(n) = Working(o) \cup {id} /\ id \notin Working(o)
  BY <1>2, <1>3, <1>4 DEF Working
<1>6. n.next > o.next /\ n.next \in Nat
  BY <1>1, <1>2, <1>3 DEF Working, IInv, Sound, Typed
<1> QED BY <1>2, <1>3, <1>5, <1>6 DEF n, Working

\* A refused create() only counts.
LEMMA RefusedCreate ==
  ASSUME NEW o, IInv(o), NEW s \in Symbol, NEW d \in Side, NEW quantity \in Nat,
         ~CanCreate(o, o.next, quantity)
  PROVE  LetGo(o, Create(o, s, d, quantity), {})
<1> DEFINE n == Create(o, s, d, quantity)
<1>1. n = Count(o, "capacity")
  BY DEF Create, CreateWithId
<1>2. IInv(n)
  BY <1>1, CountKeeps DEF IInv, Breaks
<1>3. n.order = o.order /\ n.next = o.next
  BY <1>1 DEF Count, IInv, Sound, Typed
<1> HIDE DEF n
<1> QED BY <1>2, <1>3 DEF n, LetGo, Working, Tracked

\* sweep_timeouts() lets the overdue orders go.
LEMMA SweepLetsGo ==
  ASSUME NEW o, IInv(o), NEW walk \in WalkOrders(Overdue(o))
  PROVE  LetGo(o, SweepTimeouts(o, walk), Overdue(o))
<1> DEFINE S == Overdue(o)
           n == SweepTimeouts(o, walk)
<1>1. n = Retire(o, walk, "Expired") /\ IInv(n) /\ Typed(o) /\ Books(o)
  BY SweepKeeps DEF SweepTimeouts, IInv, Sound
<1>2. S \subseteq Working(o) /\ S \subseteq Tracked(o) /\ S \subseteq Nat \ {0}
  BY <1>1 DEF Overdue, Unanswered, Working, Live, Typed
<1>3. IsFiniteSet(S) /\ Cardinality(S) \in Nat
  BY <1>1, <1>2, FS_Subset, FS_CardinalityType DEF Typed
<1> HIDE DEF S
<1>4. walk \in [1 .. Cardinality(S) -> S] /\ Range(walk) = S /\ NoRepeats(walk)
  BY <1>3, EnumerationOnce DEF WalkOrders, S
<1>5. walk \in Seq(Nat \ {0})
  <2>1. walk \in [1 .. Cardinality(S) -> Nat \ {0}]
    BY <1>2, <1>4
  <2> QED BY <2>1, <1>3
<1> HIDE DEF n
<1>6. Working(n) = Working(o) \ S
  BY <1>1, <1>2, <1>4, <1>5, RetireRemembers DEF Terminal
<1>7. n.next = o.next /\ \A i \in Tracked(n) \ S : n.order[i] = o.order[i]
  BY <1>1, <1>4, RetireWithin DEF Within
<1> QED BY <1>1, <1>6, <1>7 DEF LetGo, Working, n, S

\* Time passing lets nothing go.
LEMMA OlderWorks ==
  ASSUME NEW o, IInv(o)
  PROVE  /\ IInv(Older(o)) /\ Older(o).next = o.next
         /\ Working(Older(o)) = Working(o) /\ Unanswered(Older(o)) = Unanswered(o)
<1>1. IInv(Older(o)) /\ Typed(o)
  BY OlderKeeps DEF IInv, Sound
<1>2. Older(o).next = o.next
  BY <1>1 DEF Older, Typed
<1>3. /\ Tracked(Older(o)) = Tracked(o)
      /\ \A i \in Tracked(o) : Older(o).order[i].state = o.order[i].state
  BY <1>1, OlderRemembers
<1> QED BY <1>1, <1>2, <1>3 DEF Working, Unanswered

-----------------------------------------------------------------------------
(***************************************************************************)
(* The wire.                                                               *)
(***************************************************************************)

\* Taking the head off a wire takes its id off.
LEMMA TakeHead ==
  ASSUME NEW wire \in Seq(WireOrder), wire # << >>, NoIdTwice(wire)
  PROVE  /\ Head(wire) \in WireOrder /\ Head(wire).id \in Ids(wire)
         /\ Tail(wire) \in Seq(WireOrder) /\ NoIdTwice(Tail(wire))
         /\ Ids(Tail(wire)) = Ids(wire) \ {Head(wire).id}
<1> DEFINE rest == Tail(wire)
<1>1. /\ Len(wire) \in Nat \ {0} /\ DOMAIN wire = 1 .. Len(wire)
      /\ Head(wire) = wire[1] /\ wire[1] \in WireOrder
      /\ rest \in Seq(WireOrder) /\ DOMAIN rest = 1 .. Len(wire) - 1
      /\ \A k \in 1 .. Len(wire) - 1 : rest[k] = wire[k + 1]
  OBVIOUS
<1> HIDE DEF rest
<1>2. \A k \in DOMAIN rest : k + 1 \in DOMAIN wire /\ k + 1 # 1
  BY <1>1
<1>3. \A k \in DOMAIN wire : k # 1 => k - 1 \in DOMAIN rest /\ rest[k - 1] = wire[k]
  BY <1>1
<1>4. 1 \in DOMAIN wire
  BY <1>1
<1>5. NoIdTwice(rest)
  BY <1>1, <1>2 DEF NoIdTwice
<1>6. Ids(rest) \subseteq Ids(wire) \ {wire[1].id}
  BY <1>1, <1>2, <1>4 DEF NoIdTwice, Ids
<1>7. Ids(wire) \ {wire[1].id} \subseteq Ids(rest)
  BY <1>3 DEF Ids
<1> QED BY <1>1, <1>4, <1>5, <1>6, <1>7 DEF Ids, rest

\* Appending an order with a new id adds that id.
LEMMA AppendOne ==
  ASSUME NEW wire \in Seq(WireOrder), NoIdTwice(wire), NEW p \in WireOrder, p.id \notin Ids(wire)
  PROVE  LET longer == Append(wire, p)
         IN  longer \in Seq(WireOrder) /\ NoIdTwice(longer) /\ Ids(longer) = Ids(wire) \cup {p.id}
<1> DEFINE longer == Append(wire, p)
           n == Len(wire)
<1>1. /\ n \in Nat /\ DOMAIN wire = 1 .. n /\ DOMAIN longer = 1 .. n + 1
      /\ longer \in Seq(WireOrder) /\ longer[n + 1] = p
      /\ \A k \in 1 .. n : longer[k] = wire[k]
  OBVIOUS
<1> HIDE DEF longer, n
<1>2. \A k \in DOMAIN longer : k = n + 1 \/ k \in DOMAIN wire
  BY <1>1
<1>3. n + 1 \in DOMAIN longer /\ DOMAIN wire \subseteq DOMAIN longer
  BY <1>1
<1>4. NoIdTwice(longer)
  BY <1>1, <1>2 DEF NoIdTwice, Ids
<1>5. Ids(longer) = Ids(wire) \cup {p.id}
  BY <1>1, <1>2, <1>3 DEF Ids
<1> QED BY <1>1, <1>4, <1>5 DEF longer

\* Time passing on the wire keeps its ids.
LEMMA OlderWire ==
  ASSUME NEW wire \in Seq(WireOrder), NoIdTwice(wire)
  PROVE  LET older == [k \in DOMAIN wire |-> [wire[k] EXCEPT !.wait = Min({@ + 1, VenueLatency})]]
         IN  older \in Seq(WireOrder) /\ NoIdTwice(older) /\ Ids(older) = Ids(wire)
<1> DEFINE later(k) == [wire[k] EXCEPT !.wait = Min({@ + 1, VenueLatency})]
           older == [k \in DOMAIN wire |-> later(k)]
<1>1. Len(wire) \in Nat /\ DOMAIN wire = 1 .. Len(wire)
  OBVIOUS
<1>2. ASSUME NEW k \in DOMAIN wire
      PROVE  later(k) \in WireOrder /\ later(k).id = wire[k].id
  <2> DEFINE wait == Min({wire[k].wait + 1, VenueLatency})
  <2>1. /\ wire[k] \in WireOrder /\ wire[k].wait \in 0 .. VenueLatency
        /\ VenueLatency \in Nat
    <3>1. wire[k] \in WireOrder
      OBVIOUS
    <3> QED BY <3>1, TradingEngineConstants DEF WireOrder, TradingEngineConstants
  <2>2. wait \in 0 .. VenueLatency
    BY <2>1, MinOfTwo
  <2>3. later(k) = [wire[k] EXCEPT !.wait = wait]
    OBVIOUS
  <2> HIDE DEF wait, later
  <2> QED BY <2>1, <2>2, <2>3 DEF WireOrder
<1> HIDE DEF later
<1>3. older \in [1 .. Len(wire) -> WireOrder] /\ DOMAIN older = DOMAIN wire
  BY <1>1, <1>2
<1>4. older \in Seq(WireOrder)
  BY <1>1, <1>3
<1>5. \A k \in DOMAIN wire : older[k].id = wire[k].id
  BY <1>2
<1> HIDE DEF older
<1>6. NoIdTwice(older) /\ Ids(older) = Ids(wire)
  BY <1>3, <1>5 DEF NoIdTwice, Ids
<1> QED BY <1>4, <1>6 DEF older, later

-----------------------------------------------------------------------------
(***************************************************************************)
(* Dispatching an order.                                                   *)
(***************************************************************************)

\* What a dispatch of the order id, booked in o, leaves behind: the order has been
\* let go, the books agree, no halt is lifted, and the order is on record or the
\* run is over.  r is the gate before it.
Dispatched(o, r, id) ==
  /\ LetGo(o, oms', {id})
  /\ venue' \in VenueRecord /\ risk' \in RiskRecord /\ GateSound(risk', venue')
  /\ Halted(r) => Halted(risk')
  /\ submitted' = submitted \cup {id}
  /\ stop' \in BOOLEAN /\ (stop => stop')
  /\ journal' \in JournalRecord /\ journal.sent \subseteq journal'.sent
  /\ id \in journal'.sent \/ (stop' /\ Halted(risk'))

\* Writing an order to the journal, or failing to.
LEMMA JournalSentKeeps ==
  ASSUME journal \in JournalRecord, NEW id \in Nat, NEW written
  PROVE  LET log == JournalSent(id, written)
         IN  /\ log \in JournalRecord /\ journal.sent \subseteq log.sent
             /\ log.halt = journal.halt
             /\ written => id \in log.sent
BY DEF JournalSent, JournalRecord

\* complete_order() dispatches the order.
LEMMA CompleteOrderDispatches ==
  ASSUME NEW o, IInv(o), NEW r \in RiskRecord, NEW p \in WireOrder,
         venue \in VenueRecord, journal \in JournalRecord, stop \in BOOLEAN,
         GateSound(r, venue), p.id \in Working(o) => p.id \in Unanswered(o),
         CompleteOrder(o, r, p)
  PROVE  Dispatched(o, r, p.id)
<1>1. /\ p.id \in Nat /\ p.symbol \in Symbol /\ p.side \in Side
      /\ p.quantity \in Nat /\ p.reference \in Price
  BY DEF WireOrder
<1>2. PICK n \in 0 .. p.quantity, px \in Price,
           orderWritten \in Written, reportsWritten \in Written, haltWritten \in Written :
        LET before == HaltedByJournal(r, orderWritten, reportsWritten)
            after  == OnEquity(OnFill(before, p.symbol, p.side, n),
                               Equity(ApplyPnl(venue, p.symbol, p.side, n, px),
                                      p.symbol, p.reference))
            log    == JournalSent(p.id, orderWritten)
        IN  /\ Dispatch(o, p.id, p.symbol, p.side, n, px, orderWritten, reportsWritten)
            /\ risk' = after
            /\ journal' = IF Halted(after) /\ ~Halted(before) /\ haltWritten
                          THEN [log EXCEPT !.halt = after.halt] ELSE log
  BY DEF CompleteOrder
<1> DEFINE before == HaltedByJournal(r, orderWritten, reportsWritten)
           filled == OnFill(before, p.symbol, p.side, n)
           paid   == ApplyPnl(venue, p.symbol, p.side, n, px)
           equity == Equity(paid, p.symbol, p.reference)
           after  == OnEquity(filled, equity)
           log    == JournalSent(p.id, orderWritten)
<1>3. /\ oms' = Answered(o, p.id, n) /\ venue' = paid /\ submitted' = submitted \cup {p.id}
      /\ stop' = (stop \/ ~orderWritten \/ ~reportsWritten)
  BY <1>2 DEF Dispatch
<1>4. /\ risk' = after
      /\ journal' = IF Halted(after) /\ ~Halted(before) /\ haltWritten
                    THEN [log EXCEPT !.halt = after.halt] ELSE log
  BY <1>2
<1>5. n \in Nat /\ orderWritten \in BOOLEAN /\ reportsWritten \in BOOLEAN
  <2>1. n \in Nat
    BY <1>1
  <2>2. Written \subseteq BOOLEAN
    BY DEF Written
  <2> QED BY <2>1, <2>2
<1>6. BookKept(r, before) /\ ((orderWritten /\ reportsWritten) \/ Halted(before))
  BY HaltedByJournalKeeps
<1> HIDE DEF before
<1>7. GateSound(before, venue) /\ before \in RiskRecord
  BY <1>6 DEF GateSound, BookKept
<1>8. filled \in RiskRecord /\ GateSound(filled, paid) /\ filled.halt = before.halt
  BY <1>1, <1>5, <1>7, OnFillAgrees
<1>9. paid \in VenueRecord
  BY <1>1, <1>5, ApplyPnlTyped
<1> HIDE DEF filled, paid
<1>10. equity \in Int
  BY <1>1, <1>9, EquityType
<1> HIDE DEF equity
<1>11. BookKept(filled, after)
  BY <1>8, <1>10, OnEquityKeeps
<1>12. /\ log \in JournalRecord /\ journal.sent \subseteq log.sent
       /\ orderWritten => p.id \in log.sent
  BY <1>1, JournalSentKeeps
<1> HIDE DEF after, log
<1>13. /\ after \in RiskRecord /\ GateSound(after, paid)
       /\ Halted(before) => Halted(after)
  BY <1>8, <1>11 DEF BookKept, GateSound, Halted
<1>14. /\ journal' \in JournalRecord /\ journal.sent \subseteq journal'.sent
       /\ orderWritten => p.id \in journal'.sent
  <2>1. journal'.sent = log.sent
    BY <1>4, <1>12 DEF JournalRecord
  <2>2. after.halt \in HaltReason
    BY <1>13 DEF RiskRecord
  <2>3. journal' \in JournalRecord
    BY <1>4, <1>12, <2>2 DEF JournalRecord
  <2> QED BY <1>12, <2>1, <2>3
<1>15. LetGo(o, oms', {p.id})
  BY <1>3, <1>5, AnsweredLetsGo
<1> QED BY <1>3, <1>4, <1>5, <1>6, <1>9, <1>13, <1>14, <1>15 DEF Dispatched, BookKept

-----------------------------------------------------------------------------
(***************************************************************************)
(* The inductive invariant.                                                *)
(***************************************************************************)

\* It holds at the start.
LEMMA InitEngine == Init => EngineInv
<1> SUFFICES ASSUME Init PROVE EngineInv
  OBVIOUS
<1> USE DEF Init
<1>1. IInv(oms) /\ Working(oms) = {} /\ Unanswered(oms) = {}
  <2>1. Tracked(InitOms) = {}
    BY DEF InitOms, Tracked
  <2> QED BY <2>1, InitSound DEF Working, Unanswered
<1>2. risk \in RiskRecord
  BY DEF InitRisk, RiskRecord, HaltReason
<1>3. venue \in VenueRecord /\ risk.position = venue.position
  BY DEF InitVenue, VenueRecord, InitRisk
<1>4. GrossOfPositions(venue.position) = 0
  <2>1. \A s \in Symbol : {s} \X (1 .. Magnitude(venue.position[s])) = {}
    BY DEF InitVenue, Magnitude
  <2>2. UNION {{s} \X (1 .. Magnitude(venue.position[s])) : s \in Symbol} = {}
    BY <2>1, Zenon
  <2> QED BY <2>2, FS_EmptySet DEF GrossOfPositions
<1>5. risk.gross = 0
  BY DEF InitRisk
<1>6. pending = << >> /\ pending \in Seq(WireOrder) /\ DOMAIN pending = {}
  OBVIOUS
<1>7. Ids(pending) = {} /\ NoIdTwice(pending)
  BY <1>6 DEF Ids, NoIdTwice
<1>8. journal \in JournalRecord
  BY DEF JournalRecord, HaltReason
<1>9. WireSound
  BY <1>1, <1>6, <1>7 DEF WireSound
<1>10. JournalSound /\ HaltSound
  BY DEF JournalSound, HaltSound
<1>11. EngineTyped
  BY <1>1, <1>2, <1>3, <1>6, <1>8 DEF EngineTyped
<1> QED BY <1>3, <1>4, <1>5, <1>9, <1>10, <1>11 DEF EngineInv, GateSound

\* Steps that touch neither records nor ids keep it, if they neither lift a halt
\* nor end a run whose wire is not empty.
LEMMA QuietStep ==
  ASSUME EngineInv,
         oms' = oms, venue' = venue, pending' = pending, submitted' = submitted,
         expired' = expired, BookKept(risk, risk'),
         journal' \in JournalRecord, journal'.sent = journal.sent,
         closing' \subseteq Symbol, stop' \in BOOLEAN, stop => stop',
         faulted' \in BOOLEAN, faulted' => faulted \/ Halted(risk'),
         pc' \in {"ended", "flatten", "done"} => pending = << >>
  PROVE  EngineInv'
<1> USE DEF EngineInv
<1>1. EngineTyped'
  BY DEF EngineTyped, BookKept
<1>2. GateSound(risk, venue)'
  BY DEF GateSound, BookKept
<1>3. WireSound'
  BY DEF WireSound
<1>4. JournalSound' /\ HaltSound'
  BY DEF JournalSound, HaltSound, BookKept
<1> QED BY <1>1, <1>2, <1>3, <1>4

\* engage(), and noting it in the journal.
LEMMA EngageForKeeps ==
  ASSUME risk \in RiskRecord, journal \in JournalRecord,
         NEW reason \in HaltReason \ {"NotHalted"}, EngageFor(reason)
  PROVE  /\ BookKept(risk, risk') /\ Halted(risk')
         /\ journal' \in JournalRecord /\ journal'.sent = journal.sent
<1>1. CASE Halted(risk)
  BY <1>1 DEF EngageFor, BookKept
<1>2. CASE ~Halted(risk)
  <2>1. BookKept(risk, risk') /\ Halted(risk')
    BY <1>2, EngageKeeps DEF EngageFor
  <2>2. journal' = [journal EXCEPT !.halt = reason] \/ journal' = journal
    BY <1>2 DEF EngageFor
  <2> QED BY <2>1, <2>2 DEF JournalRecord
<1> QED BY <1>1, <1>2

\* An order that lands keeps the invariant.
LEMMA LandKeeps == EngineInv /\ Land => EngineInv'
<1> SUFFICES ASSUME EngineInv, Land PROVE EngineInv'
  OBVIOUS
<1> DEFINE p == Head(pending)
<1>1. EngineTyped /\ GateSound(risk, venue) /\ WireSound /\ JournalSound /\ HaltSound
  BY DEF EngineInv
<1>2. /\ pc \in {"land", "idle", "drain"} /\ pc' = pc /\ pending # << >>
      /\ pending' = Tail(pending) /\ CompleteOrder(oms, risk, p)
      /\ faulted' = faulted /\ closing' = closing /\ expired' = expired
  BY DEF Land, Due
<1>3. /\ p \in WireOrder /\ p.id \in Ids(pending)
      /\ pending' \in Seq(WireOrder) /\ NoIdTwice(pending')
      /\ Ids(pending') = Ids(pending) \ {p.id}
  BY <1>1, <1>2, TakeHead DEF EngineTyped, WireSound
<1>4. Dispatched(oms, risk, p.id)
  BY <1>1, <1>2, <1>3, CompleteOrderDispatches DEF EngineTyped, WireSound
<1> HIDE DEF p
<1>5. EngineTyped'
  BY <1>1, <1>2, <1>3, <1>4 DEF EngineTyped, Dispatched, LetGo
<1>6. GateSound(risk, venue)'
  BY <1>4 DEF Dispatched
<1>7. WireSound'
  <2>1. Unanswered(oms') = Working(oms')
    BY <1>1, <1>4, LetGoUnanswered DEF Dispatched, WireSound
  <2>2. Working(oms') = Ids(pending') \ expired'
    BY <1>1, <1>2, <1>3, <1>4 DEF Dispatched, WireSound, LetGo
  <2>3. Ids(pending') \cap submitted' = {}
    BY <1>1, <1>3, <1>4 DEF Dispatched, WireSound
  <2>4. \A i \in Ids(pending') \cup submitted' \cup expired' : i \in Nat /\ i < oms'.next
    BY <1>1, <1>2, <1>3, <1>4 DEF Dispatched, WireSound, LetGo
  <2> QED BY <1>1, <1>2, <1>3, <2>1, <2>2, <2>3, <2>4 DEF WireSound
<1>8. JournalSound'
  BY <1>1, <1>4 DEF JournalSound, Dispatched
<1>9. HaltSound'
  BY <1>1, <1>2, <1>4 DEF HaltSound, Dispatched
<1> QED BY <1>5, <1>6, <1>7, <1>8, <1>9 DEF EngineInv

\* A sweep keeps the invariant, wherever the thread goes next.
LEMMA SweepOrdersKeeps ==
  ASSUME EngineInv, SweepOrders(risk),
         stop' = stop, pending' = pending, venue' = venue, faulted' = faulted,
         closing' = closing, submitted' = submitted,
         pc' \in {"ended", "flatten", "done"} => pending = << >>
  PROVE  EngineInv'
<1> DEFINE S == Overdue(oms)
<1>1. EngineTyped /\ GateSound(risk, venue) /\ WireSound /\ JournalSound /\ HaltSound
  BY DEF EngineInv
<1>2. LetGo(oms, oms', S) /\ expired' = expired \cup S
  BY <1>1, SweepLetsGo DEF SweepOrders, EngineTyped
<1>3. S \subseteq Working(oms)
  BY DEF Overdue, Unanswered, Working, Live
<1>4. /\ BookKept(risk, risk')
      /\ journal' \in JournalRecord /\ journal'.sent = journal.sent
  <2>1. CASE S # {} /\ HaltOnTimeout /\ ~Halted(risk)
    <3>1. BookKept(risk, risk')
      BY <1>1, <2>1, EngageKeeps DEF SweepOrders, EngineTyped, HaltReason
    <3>2. journal' = [journal EXCEPT !.halt = "OrderTimeout"] \/ journal' = journal
      BY <2>1 DEF SweepOrders
    <3> QED BY <1>1, <3>1, <3>2 DEF JournalRecord, EngineTyped, HaltReason
  <2>2. CASE ~(S # {} /\ HaltOnTimeout /\ ~Halted(risk))
    BY <1>1, <2>2 DEF SweepOrders, BookKept, EngineTyped
  <2> QED BY <2>1, <2>2
<1> HIDE DEF S
<1>5. EngineTyped'
  BY <1>1, <1>2, <1>4 DEF EngineTyped, LetGo, BookKept
<1>6. GateSound(risk, venue)'
  BY <1>1, <1>4 DEF GateSound, BookKept
<1>7. WireSound'
  <2>1. Unanswered(oms') = Working(oms')
    BY <1>1, <1>2, LetGoUnanswered DEF WireSound
  <2>2. Working(oms') = Ids(pending') \ expired'
    BY <1>1, <1>2 DEF WireSound, LetGo
  <2>3. S \subseteq Ids(pending)
    BY <1>1, <1>3 DEF WireSound
  <2>4. \A i \in Ids(pending') \cup submitted' \cup expired' : i \in Nat /\ i < oms'.next
    BY <1>1, <1>2, <2>3 DEF WireSound, LetGo
  <2> QED BY <1>1, <2>1, <2>2, <2>4 DEF WireSound
<1>8. JournalSound' /\ HaltSound'
  BY <1>1, <1>4 DEF JournalSound, HaltSound, BookKept
<1> QED BY <1>5, <1>6, <1>7, <1>8 DEF EngineInv

\* An order that is created and dispatched at once, with nothing else on the wire,
\* keeps the invariant: booked is the order manager with the order id in it, r the
\* gate when it is dispatched.
LEMMA DispatchAtOnceKeeps ==
  ASSUME EngineInv, NEW r, BookKept(risk, r),
         NEW s \in Symbol, NEW d \in Side, NEW quantity \in Nat \ {0},
         CanCreate(oms, oms.next, quantity),
         Dispatched(Create(oms, s, d, quantity), r, oms.next),
         pending = << >>, pending' = pending, faulted' = faulted, expired' = expired,
         closing' \subseteq Symbol
  PROVE  EngineInv'
<1> DEFINE booked == Create(oms, s, d, quantity)
           id == oms.next
<1>1. EngineTyped /\ GateSound(risk, venue) /\ WireSound /\ JournalSound /\ HaltSound
  BY DEF EngineInv
<1>2. /\ IInv(booked) /\ booked.next > id /\ booked.next \in Nat
      /\ Working(booked) = Working(oms) \cup {id}
  BY <1>1, CreateOpens DEF EngineTyped
<1>3. Dispatched(booked, r, id)
  OBVIOUS
<1> HIDE DEF booked
<1>4. id \in Nat /\ Ids(pending) = {}
  BY <1>1 DEF EngineTyped, IInv, Sound, Typed, Ids
<1>5. IInv(oms') /\ oms'.next = booked.next /\ Working(oms') = Working(booked) \ {id}
  BY <1>3 DEF Dispatched, LetGo
<1>6. Working(oms') = {}
  BY <1>1, <1>2, <1>4, <1>5 DEF WireSound
<1>7. Unanswered(oms') = {}
  BY <1>6 DEF Unanswered, Working, Live
<1>8. EngineTyped'
  BY <1>1, <1>3, <1>5 DEF EngineTyped, Dispatched
<1>9. GateSound(risk, venue)'
  BY <1>3 DEF Dispatched
<1>10. WireSound'
  <2>1. \A i \in submitted' \cup expired' : i \in Nat /\ i < oms'.next
    BY <1>1, <1>2, <1>3, <1>4, <1>5 DEF Dispatched, WireSound
  <2>2. Ids(pending') = {} /\ NoIdTwice(pending')
    BY <1>1, <1>4 DEF WireSound
  <2> QED BY <1>6, <1>7, <2>1, <2>2 DEF WireSound
<1>11. JournalSound' /\ HaltSound'
  BY <1>1, <1>3 DEF JournalSound, HaltSound, Dispatched, BookKept
<1> QED BY <1>8, <1>9, <1>10, <1>11 DEF EngineInv

\* Refusing to track an order keeps it.
LEMMA RefusalKeeps ==
  ASSUME EngineInv, NEW s \in Symbol, NEW d \in Side, NEW quantity \in Nat,
         ~CanCreate(oms, oms.next, quantity), oms' = Create(oms, s, d, quantity),
         BookKept(risk, risk'), journal' = journal, stop' = stop, pending' = pending,
         venue' = venue, submitted' = submitted, expired' = expired, faulted' = faulted,
         closing' \subseteq Symbol,
         pc' \in {"ended", "flatten", "done"} => pending = << >>
  PROVE  EngineInv'
<1>1. EngineTyped /\ GateSound(risk, venue) /\ WireSound /\ JournalSound /\ HaltSound
  BY DEF EngineInv
<1>2. LetGo(oms, oms', {})
  BY <1>1, RefusedCreate DEF EngineTyped
<1>3. EngineTyped' /\ GateSound(risk, venue)'
  BY <1>1, <1>2 DEF EngineTyped, LetGo, BookKept, GateSound
<1>4. Unanswered(oms') = Working(oms')
  BY <1>1, <1>2, LetGoUnanswered DEF WireSound
<1>5. WireSound'
  BY <1>1, <1>2, <1>4 DEF WireSound, LetGo
<1>6. JournalSound' /\ HaltSound'
  BY <1>1 DEF JournalSound, HaltSound, BookKept
<1> QED BY <1>3, <1>5, <1>6 DEF EngineInv

\* A signal keeps the invariant, whatever becomes of it.
LEMMA SignalKeeps ==
  ASSUME EngineInv, NEW s \in Symbol, NEW d \in Side, NEW sane \in BOOLEAN,
         NEW reference \in Price, Signal(s, d, sane, reference)
  PROVE  EngineInv'
<1> DEFINE verdict == Verdict(risk, oms, s, d, OrderQuantity, sane)
           checked == Checked(risk, verdict)
           id      == oms.next
           booked  == Create(oms, s, d, OrderQuantity)
           order   == [id |-> id, symbol |-> s, side |-> d, quantity |-> OrderQuantity,
                       reference |-> reference, wait |-> 0]
<1>1. EngineTyped /\ GateSound(risk, venue) /\ WireSound /\ JournalSound /\ HaltSound
  BY DEF EngineInv
<1>2. /\ pc = "decide" /\ pc' = "poll"
      /\ faulted' = faulted /\ closing' = closing /\ expired' = expired
  BY DEF Signal
<1>3. OrderQuantity \in Nat \ {0} /\ VenueLatency \in Nat
  BY TradingEngineConstants DEF TradingEngineConstants
<1>4. BookKept(risk, checked)
  BY <1>1, CheckedKeeps DEF EngineTyped
<1>5. order \in WireOrder /\ order.id = id /\ id \notin Ids(pending)
  <2>1. id \in Nat \ {0}
    BY <1>1 DEF EngineTyped, IInv, Sound, Typed
  <2>2. id \notin Ids(pending)
    BY <1>1, <2>1 DEF WireSound
  <2> QED BY <1>3, <2>1, <2>2 DEF WireOrder
<1>6. CASE verdict # "None"
  <2>1. /\ risk' = checked
        /\ UNCHANGED <<stop, oms, pending, venue, journal, submitted>>
    BY <1>6 DEF Signal
  <2> HIDE DEF checked
  <2> QED BY <1>1, <1>2, <1>4, <2>1, QuietStep DEF EngineTyped
<1>7. CASE verdict = "None" /\ ~CanCreate(oms, id, OrderQuantity)
  <2>1. /\ risk' = checked /\ oms' = booked
        /\ UNCHANGED <<stop, pending, venue, journal, submitted>>
    BY <1>7 DEF Signal
  <2> HIDE DEF checked
  <2> QED BY <1>1, <1>2, <1>3, <1>4, <1>7, <2>1, RefusalKeeps DEF EngineTyped
<1>8. CASE verdict = "None" /\ CanCreate(oms, id, OrderQuantity) /\ VenueLatency = 0
  <2>1. CompleteOrder(booked, checked, order) /\ UNCHANGED pending
    BY <1>8 DEF Signal
  <2>2. IInv(booked) /\ Working(booked) = Working(oms) \cup {id}
        /\ booked.order[id].state = "PendingNew"
    BY <1>1, <1>3, <1>8, CreateOpens DEF EngineTyped
  <2>3. checked \in RiskRecord /\ GateSound(checked, venue)
    BY <1>1, <1>4 DEF BookKept, GateSound
  <2>4. id \in Unanswered(booked)
    BY <2>2 DEF Unanswered, Working
  <2> HIDE DEF checked, order
  <2>5. Dispatched(booked, checked, id)
    <3> HIDE DEF booked
    <3>1. Dispatched(booked, checked, order.id)
      BY <1>1, <1>5, <2>1, <2>2, <2>3, <2>4, CompleteOrderDispatches DEF EngineTyped
    <3> QED BY <1>5, <3>1
  <2>6. pending = << >>
    BY <1>1, <1>8 DEF WireSound
  <2> QED BY <1>1, <1>2, <1>3, <1>4, <1>8, <2>1, <2>5, <2>6, DispatchAtOnceKeeps DEF EngineTyped
<1>9. CASE verdict = "None" /\ CanCreate(oms, id, OrderQuantity) /\ VenueLatency > 0
  <2>1. /\ risk' = checked /\ oms' = booked /\ pending' = Append(pending, order)
        /\ UNCHANGED <<stop, venue, journal, submitted>>
    <3>1. VenueLatency # 0
      BY <1>3, <1>9
    <3> QED BY <1>9, <3>1 DEF Signal
  <2>2. /\ IInv(booked) /\ booked.next > id /\ booked.next \in Nat
        /\ Working(booked) = Working(oms) \cup {id}
        /\ booked.order[id].state = "PendingNew"
        /\ \A i \in Working(oms) : booked.order[i] = oms.order[i]
    BY <1>1, <1>3, <1>9, CreateOpens DEF EngineTyped
  <2> HIDE DEF checked, booked, order
  <2>3. /\ pending' \in Seq(WireOrder) /\ NoIdTwice(pending')
        /\ Ids(pending') = Ids(pending) \cup {id}
    BY <1>1, <1>5, <2>1, AppendOne DEF EngineTyped, WireSound
  <2>4. EngineTyped'
    BY <1>1, <1>2, <1>4, <2>1, <2>2, <2>3 DEF EngineTyped, BookKept
  <2>5. GateSound(risk, venue)'
    BY <1>1, <1>4, <2>1 DEF BookKept, GateSound
  <2>6. WireSound'
    <3>1. Unanswered(oms') = Working(oms')
      BY <1>1, <2>1, <2>2 DEF Unanswered, Working, Live, WireSound
    <3>2. id \in Nat /\ id \notin expired /\ id \notin submitted
      BY <1>1 DEF WireSound, EngineTyped, IInv, Sound, Typed
    <3>3. Working(oms') = Ids(pending') \ expired' /\ Ids(pending') \cap submitted' = {}
      BY <1>1, <1>2, <2>1, <2>2, <2>3, <3>2 DEF WireSound
    <3>4. \A i \in Ids(pending') \cup submitted' \cup expired' : i \in Nat /\ i < oms'.next
      BY <1>1, <1>2, <2>1, <2>2, <2>3, <3>2 DEF WireSound
    <3> QED BY <1>2, <1>9, <2>3, <3>1, <3>3, <3>4 DEF WireSound
  <2>7. JournalSound' /\ HaltSound'
    BY <1>1, <1>2, <1>4, <2>1 DEF JournalSound, HaltSound, BookKept
  <2> QED BY <2>4, <2>5, <2>6, <2>7 DEF EngineInv
<1> QED BY <1>3, <1>6, <1>7, <1>8, <1>9

\* Closing an instrument at shutdown keeps the invariant: the wire is empty by then.
LEMMA FlattenKeeps ==
  ASSUME EngineInv, NEW s \in Symbol, Flatten(s)
  PROVE  EngineInv'
<1> DEFINE d        == IF held[s] > 0 THEN "Sell" ELSE "Buy"
           quantity == Magnitude(held[s])
           id       == oms.next
           booked   == Create(oms, s, d, quantity)
<1>1. EngineTyped /\ GateSound(risk, venue) /\ WireSound /\ JournalSound /\ HaltSound
  BY DEF EngineInv
<1>2. /\ pc = "flatten" /\ pc' = pc /\ closing' \subseteq Symbol
      /\ faulted' = faulted /\ pending' = pending /\ expired' = expired
  BY <1>1 DEF Flatten, EngineTyped
<1>3. pending = << >>
  BY <1>1, <1>2 DEF WireSound
<1>4. d \in Side /\ quantity \in Nat /\ id \in Nat
  <2>1. held[s] \in Int
    BY <1>1 DEF held, EngineTyped, VenueRecord
  <2>2. id \in Nat
    BY <1>1 DEF EngineTyped, IInv, Sound, Typed
  <2> QED BY <2>1, <2>2 DEF Magnitude, Side
<1>5. CASE UNCHANGED <<stop, oms, risk, venue, journal, submitted>>
  <2>1. BookKept(risk, risk')
    BY <1>1, <1>5 DEF BookKept, EngineTyped
  <2> QED BY <1>1, <1>2, <1>3, <1>5, <2>1, QuietStep DEF EngineTyped
<1>6. CASE /\ ~CanCreate(oms, id, quantity) /\ oms' = booked
           /\ UNCHANGED <<stop, risk, venue, journal, submitted>>
  <2> HIDE DEF d, quantity
  <2>1. BookKept(risk, risk')
    BY <1>1, <1>6 DEF BookKept, EngineTyped
  <2> QED BY <1>1, <1>2, <1>3, <1>4, <1>6, <2>1, RefusalKeeps
<1>7. CASE /\ CanCreate(oms, id, quantity)
           /\ \E n \in 0 .. quantity, px \in Price,
                 orderWritten \in Written, reportsWritten \in Written :
                /\ Dispatch(booked, id, s, d, n, px, orderWritten, reportsWritten)
                /\ risk' = OnFill(HaltedByJournal(risk, orderWritten, reportsWritten), s, d, n)
                /\ journal' = JournalSent(id, orderWritten)
  <2> HIDE DEF d, quantity
  <2> quantity \in Nat \ {0}
    BY <1>4, <1>7 DEF CanCreate
  <2>1. PICK n \in 0 .. quantity, px \in Price,
             orderWritten \in Written, reportsWritten \in Written :
          /\ Dispatch(booked, id, s, d, n, px, orderWritten, reportsWritten)
          /\ risk' = OnFill(HaltedByJournal(risk, orderWritten, reportsWritten), s, d, n)
          /\ journal' = JournalSent(id, orderWritten)
    BY <1>7
  <2> DEFINE before == HaltedByJournal(risk, orderWritten, reportsWritten)
             paid   == ApplyPnl(venue, s, d, n, px)
             log    == JournalSent(id, orderWritten)
  <2>2. n \in Nat /\ orderWritten \in BOOLEAN /\ reportsWritten \in BOOLEAN
    <3>1. n \in Nat
      BY <1>4
    <3>2. Written \subseteq BOOLEAN
      BY DEF Written
    <3> QED BY <3>1, <3>2
  <2>3. IInv(booked) /\ id \in Unanswered(booked)
    BY <1>1, <1>4, <1>7, CreateOpens DEF EngineTyped, Unanswered, Working
  <2> HIDE DEF booked
  <2>4. /\ oms' = Answered(booked, id, n) /\ venue' = paid
        /\ submitted' = submitted \cup {id}
        /\ stop' = (stop \/ ~orderWritten \/ ~reportsWritten)
        /\ risk' = OnFill(before, s, d, n)
        /\ journal' = log
    BY <2>1 DEF Dispatch
  <2>5. BookKept(risk, before) /\ ((orderWritten /\ reportsWritten) \/ Halted(before))
    BY <1>1, HaltedByJournalKeeps DEF EngineTyped
  <2>6. paid \in VenueRecord
    BY <1>1, <1>4, <2>2, ApplyPnlTyped DEF EngineTyped
  <2> HIDE DEF before
  <2>7. before \in RiskRecord /\ GateSound(before, venue)
    BY <1>1, <2>5 DEF BookKept, GateSound
  <2>8. risk' \in RiskRecord /\ GateSound(risk', paid) /\ risk'.halt = before.halt
    BY <1>1, <1>4, <2>2, <2>4, <2>7, OnFillAgrees DEF EngineTyped
  <2>9. /\ log \in JournalRecord /\ journal.sent \subseteq log.sent
        /\ orderWritten => id \in log.sent
    BY <1>1, <1>4, JournalSentKeeps DEF EngineTyped
  <2> HIDE DEF paid, log
  <2>10. LetGo(booked, oms', {id})
    BY <2>2, <2>3, <2>4, AnsweredLetsGo
  <2>11. Dispatched(booked, risk, id)
    BY <1>1, <2>2, <2>4, <2>5, <2>6, <2>8, <2>9, <2>10
       DEF Dispatched, BookKept, Halted, EngineTyped
  <2>12. BookKept(risk, risk)
    BY <1>1 DEF BookKept, EngineTyped
  <2> QED BY <1>1, <1>2, <1>3, <1>4, <1>7, <2>11, <2>12, DispatchAtOnceKeeps DEF booked
<1> QED BY <1>5, <1>6, <1>7 DEF Flatten

\* Every step keeps the invariant.
LEMMA NextEngine == EngineInv /\ [Next]_vars => EngineInv'
<1> SUFFICES ASSUME EngineInv, [Next]_vars PROVE EngineInv'
  OBVIOUS
<1>1. EngineTyped /\ GateSound(risk, venue) /\ WireSound /\ JournalSound /\ HaltSound
  BY DEF EngineInv
<1>2. BookKept(risk, risk) /\ risk \in RiskRecord /\ journal \in JournalRecord
      /\ stop \in BOOLEAN /\ faulted \in BOOLEAN /\ closing \subseteq Symbol
  BY <1>1 DEF BookKept, EngineTyped
<1>3. "Manual" \in HaltReason \ {"NotHalted"}
  BY DEF HaltReason
<1>4. ASSUME UNCHANGED <<stop, oms, risk, pending, venue, faulted, journal, submitted, expired>>,
             closing' \subseteq Symbol,
             pc' \in {"ended", "flatten", "done"} => pc \in {"ended", "flatten", "done"}
      PROVE  EngineInv'
  <2>1. pc' \in {"ended", "flatten", "done"} => pending = << >>
    BY <1>1, <1>4 DEF WireSound
  <2> QED BY <1>2, <1>4, <2>1, QuietStep
<1>5. CASE Tick
  <2> DEFINE older == [k \in DOMAIN pending |->
                         [pending[k] EXCEPT !.wait = Min({@ + 1, VenueLatency})]]
  <2>1. /\ oms' = Older(oms) /\ pending' = older
        /\ UNCHANGED <<pc, stop, venue, faulted, closing, journal, submitted, expired>>
        /\ \E second \in BOOLEAN : risk' = [risk EXCEPT !.over = @ \/ second]
    BY <1>5 DEF Tick
  <2>2. older \in Seq(WireOrder) /\ NoIdTwice(older) /\ Ids(older) = Ids(pending)
    BY <1>1, OlderWire DEF EngineTyped, WireSound
  <2>3. VenueLatency = 0 => older = << >>
    <3>1. pending = << >> => DOMAIN pending = {}
      OBVIOUS
    <3> QED BY <1>1, <3>1 DEF WireSound
  <2> HIDE DEF older
  <2>4. BookKept(risk, risk')
    BY <1>2, <2>1 DEF BookKept, RiskRecord, Halted
  <2>5. /\ IInv(oms') /\ oms'.next = oms.next
        /\ Working(oms') = Working(oms) /\ Unanswered(oms') = Unanswered(oms)
    BY <1>1, <2>1, OlderWorks DEF EngineTyped
  <2>6. EngineTyped' /\ GateSound(risk, venue)'
    BY <1>1, <2>1, <2>2, <2>4, <2>5 DEF EngineTyped, GateSound, BookKept
  <2>7. WireSound'
    BY <1>1, <1>5, <2>1, <2>2, <2>3, <2>5 DEF WireSound, Tick
  <2>8. JournalSound' /\ HaltSound'
    BY <1>1, <2>1, <2>4 DEF JournalSound, HaltSound, BookKept
  <2> QED BY <2>6, <2>7, <2>8 DEF EngineInv
<1>6. CASE Receive
  <2>1. /\ UNCHANGED <<stop, oms, pending, venue, closing, submitted, expired>>
        /\ faulted' \in BOOLEAN /\ (faulted => faulted')
        /\ pc' \notin {"ended", "flatten", "done"}
        /\ IF faulted' THEN EngageFor("Manual") ELSE UNCHANGED <<risk, journal>>
    BY <1>2, <1>6 DEF Receive
  <2>2. /\ BookKept(risk, risk') /\ (faulted' => Halted(risk'))
        /\ journal' \in JournalRecord /\ journal'.sent = journal.sent
    BY <1>2, <1>3, <2>1, EngageForKeeps
  <2> QED BY <1>2, <2>1, <2>2, QuietStep
<1>7. CASE Land
  BY <1>7, LandKeeps
<1>8. CASE Landed \/ NoSignal \/ LeaveLoop
  BY <1>2, <1>4, <1>8 DEF Landed, NoSignal, LeaveLoop
<1>9. ASSUME NEW s \in Symbol, NEW d \in Side, NEW sane \in BOOLEAN, NEW reference \in Price,
             Signal(s, d, sane, reference)
      PROVE  EngineInv'
  BY <1>9, SignalKeeps
<1>10. CASE BusySweep
  <2>1. pc' \notin {"ended", "flatten", "done"}
    BY <1>10 DEF BusySweep
  <2> QED BY <1>10, <2>1, SweepOrdersKeeps DEF BusySweep
<1>11. CASE NoticeStale
  <2>1. /\ UNCHANGED <<pc, stop, oms, pending, venue, closing, submitted, expired>>
        /\ faulted' = TRUE /\ EngageFor("Manual") /\ pc = "poll"
    BY <1>11 DEF NoticeStale
  <2>2. /\ BookKept(risk, risk') /\ Halted(risk')
        /\ journal' \in JournalRecord /\ journal'.sent = journal.sent
    BY <1>2, <1>3, <2>1, EngageForKeeps
  <2> QED BY <1>2, <2>1, <2>2, QuietStep
<1>12. CASE Idle
  <2>1. /\ UNCHANGED <<stop, pending, venue, faulted, closing, submitted>> /\ pc' = "idle"
        /\ SweepOrders(risk) \/ UNCHANGED <<oms, risk, journal, expired>>
    BY <1>12 DEF Idle
  <2>2. CASE SweepOrders(risk)
    BY <2>1, <2>2, SweepOrdersKeeps
  <2>3. CASE UNCHANGED <<oms, risk, journal, expired>>
    BY <1>2, <1>4, <2>1, <2>3
  <2> QED BY <2>1, <2>2, <2>3
<1>13. CASE RequestStop
  <2>1. /\ UNCHANGED <<pc, oms, risk, pending, venue, faulted, closing, journal, submitted, expired>>
        /\ stop' = TRUE /\ pc = "poll"
    BY <1>13 DEF RequestStop
  <2> QED BY <1>2, <2>1, QuietStep
<1>14. CASE EndRun
  <2>1. pending = << >>
    BY <1>14 DEF EndRun, Due
  <2> QED BY <1>14, <2>1, SweepOrdersKeeps DEF EndRun
<1>15. CASE Shutdown
  <2>1. closing' \subseteq Symbol
    BY <1>2, <1>15 DEF Shutdown
  <2> QED BY <1>4, <1>15, <2>1 DEF Shutdown
<1>16. ASSUME NEW s \in Symbol, Flatten(s)
       PROVE  EngineInv'
  BY <1>16, FlattenKeeps
<1>17. CASE Flattened \/ Done \/ UNCHANGED vars
  BY <1>2, <1>4, <1>17 DEF Flattened, Done, vars
<1> QED BY <1>5, <1>6, <1>7, <1>8, <1>9, <1>10, <1>11, <1>12, <1>13, <1>14, <1>15, <1>16,
           <1>17 DEF Next

\* The invariant holds of every reachable state.
THEOREM EngineInvariant == Spec => []EngineInv
<1> QED BY InitEngine, NextEngine, PTL DEF Spec

-----------------------------------------------------------------------------
(***************************************************************************)
(* What follows from the invariant.                                        *)
(***************************************************************************)

\* When no order works there is no exposure: what has finished has nothing left.
LEMMA NothingWorks ==
  ASSUME NEW o, IInv(o), Working(o) = {}
  PROVE  /\ o.open = 0 /\ o.gross = 0
         /\ \A s \in Symbol, d \in Side : o.exposure[s][d] = 0
         /\ \A s \in Symbol : WorkingExposure(o, s) = 0
<1>1. Typed(o) /\ Exact(o) /\ Books(o) /\ Settled(o, {})
  BY DEF IInv, Sound
<1>2. o.open = 0
  BY <1>1, FS_EmptySet DEF Books
<1>3. \A i \in Tracked(o) : o.order[i].leaves = 0
  BY <1>1 DEF Settled, Working
<1>4. ASSUME NEW s \in Symbol, NEW d \in Side
      PROVE  o.exposure[s][d] = 0
  <2>1. \A i \in Tracked(o) : {i} \X (1 .. o.order[i].leaves) = {}
    BY <1>3
  <2>2. Lots(o.order, s, d) = {}
    BY <2>1 DEF Lots, Tracked
  <2> QED BY <1>1, <2>2, FS_EmptySet DEF Exact
<1>5. \A s \in Symbol : Net(o.exposure[s]) = 0
  BY <1>4 DEF Net, Side
<1>6. \A s \in Symbol : {s} \X (1 .. Magnitude(Net(o.exposure[s]))) = {}
  BY <1>5 DEF Magnitude
<1>7. GrossUnits(o.exposure) = {}
  BY <1>6 DEF GrossUnits
<1>8. o.gross = 0
  BY <1>1, <1>7, FS_EmptySet DEF Exact, GrossOf
<1> QED BY <1>2, <1>4, <1>5, <1>8 DEF WorkingExposure

\* The gross total of whole positions is a natural number.
LEMMA GrossIsNat ==
  ASSUME NEW position \in [Symbol -> Int]
  PROVE  GrossOfPositions(position) \in Nat
<1> DEFINE a == [t \in Symbol |-> Magnitude(position[t])]
<1>1. IsFiniteSet(Symbol)
  BY OmsConstants DEF OmsConstants
<1>2. \A t \in Symbol : a[t] \in Nat
  BY DEF Magnitude
<1>3. GrossOfPositions(position) = Cardinality(Pile(Symbol, a))
  BY DEF GrossOfPositions, Pile
<1> HIDE DEF a
<1> QED BY <1>1, <1>2, <1>3, PileFinite

\* A wire on which no id comes twice has as many ids as orders.
LEMMA CountWire ==
  ASSUME NEW wire \in Seq(WireOrder), NoIdTwice(wire)
  PROVE  Cardinality(Ids(wire)) = Len(wire)
<1> DEFINE ids == [k \in DOMAIN wire |-> wire[k].id]
<1>1. Len(wire) \in Nat /\ DOMAIN wire = 1 .. Len(wire) /\ DOMAIN ids = 1 .. Len(wire)
  OBVIOUS
<1>2. \A k \in DOMAIN wire : wire[k] \in WireOrder /\ wire[k].id \in Nat
  <2>1. \A k \in DOMAIN wire : wire[k] \in WireOrder
    OBVIOUS
  <2> QED BY <2>1 DEF WireOrder
<1>3. ids \in [1 .. Len(wire) -> Nat]
  BY <1>1, <1>2
<1>4. ids \in Seq(Nat) /\ Len(ids) = Len(wire)
  BY <1>1, <1>3
<1>5. NoRepeats(ids)
  BY <1>1 DEF NoRepeats, NoIdTwice
<1>6. Range(ids) = Ids(wire)
  BY DEF Range, Ids
<1> HIDE DEF ids
<1> QED BY <1>4, <1>5, <1>6, CountOnce

\* Every reachable state of the engine is well typed; the gate's gross total, which
\* is kept by adding and subtracting, never goes negative.
THEOREM EngineTypeCorrect == Spec => []TypeOK
<1>1. ASSUME EngineInv PROVE TypeOK
  <2>1. EngineTyped /\ GateSound(risk, venue)
    BY <1>1 DEF EngineInv
  <2>2. oms.order \in [Tracked(oms) -> OrderRecord]
    BY <2>1 DEF EngineTyped, IInv, Sound, Typed
  <2>3. held \in [Symbol -> Int]
    BY <2>1 DEF held, EngineTyped, VenueRecord
  <2>4. risk \in RiskState
    <3>1. risk.gross \in Nat
      BY <2>1, <2>3, GrossIsNat DEF GateSound, held
    <3> QED BY <2>1, <3>1 DEF EngineTyped, RiskRecord, RiskState
  <2>5. \A k \in DOMAIN pending : pending[k].wait \in 0 .. VenueLatency
    <3>1. \A k \in DOMAIN pending : pending[k] \in WireOrder
      BY <2>1 DEF EngineTyped
    <3> QED BY <3>1 DEF WireOrder
  <2>6. closing \subseteq Symbol /\ journal.halt \in HaltReason
    BY <2>1 DEF EngineTyped, JournalRecord
  <2> QED BY <2>2, <2>3, <2>4, <2>5, <2>6 DEF TypeOK
<1> QED BY <1>1, EngineInvariant, PTL

\* The gate's position book and its gross total are at all times what the venue
\* holds, whatever was filled, refused, flattened or halted.
THEOREM GateAlwaysKnows == Spec => []GateKnowsThePosition
<1>1. EngineInv => GateKnowsThePosition
  BY DEF EngineInv, GateSound, GateKnowsThePosition, GrossHeld, held
<1> QED BY <1>1, EngineInvariant, PTL

\* Every unanswered order that was not given up is on the wire, once, and nothing
\* there has been dispatched before.
THEOREM WireIsAlwaysComplete == Spec => []WireIsComplete
<1>1. ASSUME EngineInv PROVE WireIsComplete
  <2>1. EngineTyped /\ WireSound
    BY <1>1 DEF EngineInv
  <2>2. Cardinality(Ids(pending)) = Len(pending)
    BY <2>1, CountWire DEF EngineTyped, WireSound
  <2>3. Unanswered(oms) = Ids(pending) \ expired /\ Ids(pending) \cap submitted = {}
    BY <2>1 DEF WireSound
  <2> QED BY <2>2, <2>3 DEF WireIsComplete, Ids
<1> QED BY <1>1, EngineInvariant, PTL

\* When run() has returned the wire is empty, no order works and no exposure is left.
THEOREM NothingIsOutstanding == Spec => []NothingOutstanding
<1>1. ASSUME EngineInv, pc \in {"ended", "flatten", "done"}
      PROVE  /\ pending = << >>
             /\ Working(oms) = {} /\ oms.open = 0
             /\ oms.gross = 0
             /\ \A s \in Symbol, d \in Side : oms.exposure[s][d] = 0
  <2>1. pending = << >> /\ Working(oms) = Ids(pending) \ expired /\ IInv(oms)
    BY <1>1 DEF EngineInv, WireSound, EngineTyped
  <2>2. Working(oms) = {}
    BY <2>1 DEF Ids
  <2> QED BY <2>1, <2>2, NothingWorks
<1>2. EngineInv => NothingOutstanding
  BY <1>1 DEF NothingOutstanding
<1> QED BY <1>2, EngineInvariant, PTL

\* An order that the venue was given without a record of it has stopped the run.
THEOREM UnjournaledAlwaysStops == Spec => []UnjournaledStopsTheRun
<1>1. EngineInv => UnjournaledStopsTheRun
  BY DEF EngineInv, JournalSound, UnjournaledStopsTheRun, SentIsJournaled
<1> QED BY <1>1, EngineInvariant, PTL

\* While the gate is enabled, no signal becomes an order once the feed is faulted.
THEOREM FaultStopsOrders ==
  ASSUME RiskEnabled
  PROVE  Spec => NoOrderOnFaultedFeed
<1>1. ASSUME EngineInv, [Next]_vars, faulted, pc = "decide"
      PROVE  Tracked(oms)' \subseteq Tracked(oms)
  <2>1. Halted(risk)
    BY <1>1 DEF EngineInv, HaltSound
  <2>2. ASSUME NEW s \in Symbol, NEW d \in Side, NEW sane \in BOOLEAN, NEW reference \in Price,
               Signal(s, d, sane, reference)
        PROVE  oms' = oms
    <3>1. Verdict(risk, oms, s, d, OrderQuantity, sane) # "None"
      BY <2>1, TradingEngineConstants DEF Verdict, TradingEngineConstants
    <3> QED BY <2>2, <3>1 DEF Signal
  <2>3. ~(\/ Tick \/ Receive \/ Land \/ Landed \/ BusySweep \/ NoticeStale \/ Idle
          \/ RequestStop \/ LeaveLoop \/ EndRun \/ Shutdown \/ Flattened \/ Done)
    BY <1>1 DEF Tick, Receive, Land, Landed, BusySweep, NoticeStale, Idle, RequestStop,
                LeaveLoop, EndRun, Shutdown, Flattened, Done
  <2>4. ~\E s \in Symbol : Flatten(s)
    BY <1>1 DEF Flatten
  <2>5. oms' = oms
    <3>1. ASSUME NoSignal \/ UNCHANGED vars PROVE oms' = oms
      BY <3>1 DEF NoSignal, vars
    <3> QED BY <1>1, <2>2, <2>3, <2>4, <3>1 DEF Next
  <2> QED BY <2>5 DEF Tracked
<1> QED BY <1>1, EngineInvariant, PTL DEF Spec, NoOrderOnFaultedFeed

-----------------------------------------------------------------------------
(***************************************************************************)
(* The limits, when an order is answered before the next one is checked.   *)
(***************************************************************************)

\* Positions within the limits of their instruments and of the book.
WithinLimits(position) ==
  /\ \A s \in Symbol : Magnitude(position[s]) <= SymbolLimit(s)
  /\ GrossOfPositions(position) <= MaxGrossPosition

\* What a partial fill makes of a position is no further out than the position
\* before it, or than the complete fill.
LEMMA PartialFillIsBetween ==
  ASSUME NEW prev \in Int, NEW d \in Side, NEW quantity \in Nat, NEW n \in 0 .. quantity
  PROVE  \/ Magnitude(prev + Signed(d, n)) <= Magnitude(prev)
         \/ Magnitude(prev + Signed(d, n)) <= Magnitude(prev + Signed(d, quantity))
<1>1. n \in Nat /\ n <= quantity
  OBVIOUS
<1>2. CASE d = "Buy"
  <2>1. Signed(d, n) = n /\ Signed(d, quantity) = quantity
    BY <1>2 DEF Signed
  <2> QED BY <1>1, <2>1 DEF Magnitude
<1>3. CASE d # "Buy"
  <2>1. prev + Signed(d, n) = prev - n /\ prev + Signed(d, quantity) = prev - quantity
    BY <1>1, <1>3 DEF Signed
  <2> QED BY <1>1, <2>1 DEF Magnitude
<1> QED BY <1>2, <1>3

\* Moving one position within its limit, and the total with it, keeps all limits.
LEMMA MoveWithinLimits ==
  ASSUME NEW position \in [Symbol -> Int], WithinLimits(position),
         NEW s \in Symbol, NEW x \in Int,
         \/ Magnitude(x) <= Magnitude(position[s])
         \/ /\ Magnitude(x) <= SymbolLimit(s)
            /\ GrossOfPositions(position) - Magnitude(position[s]) + Magnitude(x)
                 <= MaxGrossPosition
  PROVE  WithinLimits([position EXCEPT ![s] = x])
<1> DEFINE moved == [position EXCEPT ![s] = x]
<1>1. /\ GrossOfPositions(position) \in Nat
      /\ GrossOfPositions(moved) =
           GrossOfPositions(position) - Magnitude(position[s]) + Magnitude(x)
  BY GrossMoves
<1>2. Magnitude(x) \in Nat /\ Magnitude(position[s]) \in Nat /\ MaxGrossPosition \in Nat
  BY RiskConstants DEF Magnitude, RiskConstants
<1>3. SymbolLimit(s) \in Nat
  <2>1. InstrumentLimit[s] \in Nat /\ MaxPosition \in Nat
    BY RiskConstants DEF RiskConstants
  <2> QED BY <2>1, MinOfTwo DEF SymbolLimit
<1>4. Magnitude(position[s]) <= SymbolLimit(s) /\ GrossOfPositions(position) <= MaxGrossPosition
  BY DEF WithinLimits
<1>5. Magnitude(x) <= SymbolLimit(s) /\ GrossOfPositions(moved) <= MaxGrossPosition
  <2> HIDE DEF moved
  <2> QED BY <1>1, <1>2, <1>3, <1>4
<1>6. moved[s] = x /\ \A t \in Symbol : t # s => moved[t] = position[t]
  OBVIOUS
<1> HIDE DEF moved
<1>7. \A t \in Symbol : Magnitude(moved[t]) <= SymbolLimit(t)
  BY <1>5, <1>6 DEF WithinLimits
<1> QED BY <1>5, <1>7 DEF WithinLimits, moved

\* An order that the gate passes while nothing works leaves the limits standing,
\* however much of it is filled.
LEMMA PassedOrderKeepsLimits ==
  ASSUME RiskEnabled, NEW r \in RiskRecord, NEW v \in VenueRecord, GateSound(r, v),
         WithinLimits(v.position), NEW o, IInv(o), Working(o) = {},
         NEW s \in Symbol, NEW d \in Side, NEW quantity \in Nat \ {0}, NEW sane,
         Verdict(r, o, s, d, quantity, sane) = "None",
         NEW n \in 0 .. quantity, NEW px \in Price
  PROVE  WithinLimits(ApplyPnl(v, s, d, n, px).position)
<1> DEFINE prev == v.position[s]
           projected == Projected(r, o, s, d, quantity)
           others == (r.gross - Magnitude(r.position[s]))
                       + (o.gross - Magnitude(WorkingExposure(o, s)))
           gross == GrossOfPositions(v.position)
<1>1. v.position \in [Symbol -> Int] /\ prev \in Int
  BY DEF VenueRecord
<1>2. r.position = v.position /\ r.gross = gross
  BY DEF GateSound
<1>3. o.gross = 0 /\ WorkingExposure(o, s) = 0
  BY NothingWorks
<1>4. gross \in Nat
  BY <1>1, GrossIsNat
<1>5. /\ n \in Nat /\ Signed(d, n) \in Int /\ Signed(d, quantity) \in Int
      /\ prev + Signed(d, n) \in Int /\ prev + Signed(d, quantity) \in Int
  BY <1>1 DEF Signed
<1>6. projected = prev + Signed(d, quantity)
  BY <1>1, <1>2, <1>3, <1>5 DEF Projected
<1>7. ~(Magnitude(projected) > SymbolLimit(s)) /\ ~(others + Magnitude(projected) > MaxGrossPosition)
  <2>1. Verdict(r, o, s, d, quantity, sane) # "PositionLimitExceeded"
        /\ Verdict(r, o, s, d, quantity, sane) # "GrossPositionLimitExceeded"
    OBVIOUS
  <2> HIDE DEF projected, others
  <2> QED BY DEF Verdict, projected, others
<1>8. others = gross - Magnitude(prev)
  <2>1. Magnitude(0) = 0 /\ Magnitude(prev) \in Nat
    BY <1>1 DEF Magnitude
  <2> HIDE DEF gross, prev
  <2> QED BY <1>2, <1>3, <1>4, <2>1 DEF prev
<1>9. SymbolLimit(s) \in Nat /\ MaxGrossPosition \in Nat
  <2>1. InstrumentLimit[s] \in Nat /\ MaxPosition \in Nat /\ MaxGrossPosition \in Nat
    BY RiskConstants DEF RiskConstants
  <2> QED BY <2>1, MinOfTwo DEF SymbolLimit
<1> DEFINE x == prev + Signed(d, n)
<1>10. Magnitude(x) <= Magnitude(prev) \/ Magnitude(x) <= Magnitude(projected)
  BY <1>1, <1>6, PartialFillIsBetween
<1>11. Magnitude(x) \in Nat /\ Magnitude(projected) \in Nat /\ Magnitude(prev) \in Nat
  BY <1>1, <1>5, <1>6 DEF Magnitude
<1>12. \/ Magnitude(x) <= Magnitude(prev)
       \/ /\ Magnitude(x) <= SymbolLimit(s)
          /\ gross - Magnitude(prev) + Magnitude(x) <= MaxGrossPosition
  <2> HIDE DEF x, projected, prev, others, gross
  <2> QED BY <1>4, <1>7, <1>8, <1>9, <1>10, <1>11
<1>13. WithinLimits([v.position EXCEPT ![s] = x])
  BY <1>1, <1>5, <1>12, MoveWithinLimits
<1> QED BY <1>5, <1>13, ApplyPnlTyped

\* With no modelled latency and the gate enabled, no step takes a position past a
\* limit.
LEMMA NextWithinLimits ==
  ASSUME RiskEnabled, VenueLatency = 0, EngineInv, WithinLimits(held), [Next]_vars
  PROVE  WithinLimits(held')
<1>1. /\ IInv(oms) /\ risk \in RiskRecord /\ venue \in VenueRecord /\ GateSound(risk, venue)
      /\ pending = << >> /\ Working(oms) = Ids(pending) \ expired
  BY DEF EngineInv, EngineTyped, WireSound
<1>2. Working(oms) = {}
  BY <1>1 DEF Ids
<1>3. ASSUME venue' = venue PROVE WithinLimits(held')
  BY <1>3 DEF held
<1>4. ASSUME NEW s \in Symbol, NEW d \in Side, NEW sane \in BOOLEAN, NEW reference \in Price,
             Signal(s, d, sane, reference)
      PROVE  WithinLimits(held')
  <2> DEFINE verdict == Verdict(risk, oms, s, d, OrderQuantity, sane)
             checked == Checked(risk, verdict)
             order == [id |-> oms.next, symbol |-> s, side |-> d, quantity |-> OrderQuantity,
                       reference |-> reference, wait |-> 0]
             booked == Create(oms, s, d, OrderQuantity)
  <2>1. CASE venue' = venue
    BY <1>3, <2>1
  <2>2. CASE verdict = "None" /\ CompleteOrder(booked, checked, order)
    <3>1. order.symbol = s /\ order.side = d /\ order.quantity = OrderQuantity
      OBVIOUS
    <3> HIDE DEF order, booked, checked, verdict
    <3>2. PICK n \in 0 .. OrderQuantity, px \in Price : venue' = ApplyPnl(venue, s, d, n, px)
      BY <2>2, <3>1 DEF CompleteOrder, Dispatch
    <3>3. OrderQuantity \in Nat \ {0}
      BY TradingEngineConstants DEF TradingEngineConstants
    <3>4. WithinLimits(ApplyPnl(venue, s, d, n, px).position)
      BY <1>1, <1>2, <2>2, <3>3, PassedOrderKeepsLimits DEF verdict, held
    <3> QED BY <3>2, <3>4 DEF held
  <2> QED BY <1>4, <2>1, <2>2 DEF Signal
<1>5. ASSUME NEW s \in Symbol, Flatten(s) PROVE WithinLimits(held')
  <2> DEFINE d == IF held[s] > 0 THEN "Sell" ELSE "Buy"
             quantity == Magnitude(held[s])
  <2>1. held \in [Symbol -> Int] /\ held[s] \in Int
    BY <1>1 DEF VenueRecord, held
  <2>2. d \in Side /\ quantity \in Nat
    BY <2>1 DEF Side, Magnitude
  <2>3. CASE venue' = venue
    BY <1>3, <2>3
  <2>4. CASE \E n \in 0 .. quantity, px \in Price : venue' = ApplyPnl(venue, s, d, n, px)
    <3>1. PICK n \in 0 .. quantity, px \in Price : venue' = ApplyPnl(venue, s, d, n, px)
      BY <2>4
    <3>2. n \in Nat /\ n <= quantity
      BY <2>2
    <3>3. held' = [held EXCEPT ![s] = held[s] + Signed(d, n)]
      BY <1>1, <2>2, <3>1, <3>2, ApplyPnlTyped DEF held
    <3>4. /\ held[s] + Signed(d, n) \in Int
          /\ Magnitude(held[s] + Signed(d, n)) <= Magnitude(held[s])
      <4>1. CASE held[s] > 0
        <5>1. held[s] + Signed(d, n) = held[s] - n /\ quantity = held[s]
          BY <2>1, <3>2, <4>1 DEF Signed, Magnitude
        <5> QED BY <2>1, <3>2, <4>1, <5>1 DEF Magnitude
      <4>2. CASE ~(held[s] > 0)
        <5>1. held[s] + Signed(d, n) = held[s] + n /\ held[s] + quantity = 0
          BY <2>1, <3>2, <4>2 DEF Signed, Magnitude
        <5> QED BY <2>1, <3>2, <4>2, <5>1 DEF Magnitude
      <4> QED BY <4>1, <4>2
    <3> HIDE DEF d, quantity
    <3> QED BY <2>1, <3>3, <3>4, MoveWithinLimits
  <2> QED BY <1>5, <2>3, <2>4 DEF Flatten, Dispatch
<1>6. ASSUME \/ Tick \/ Receive \/ Landed \/ NoSignal \/ BusySweep \/ NoticeStale \/ Idle
             \/ RequestStop \/ LeaveLoop \/ EndRun \/ Shutdown \/ Flattened \/ Done
             \/ UNCHANGED vars
      PROVE  venue' = venue
  BY <1>6 DEF Tick, Receive, Landed, NoSignal, BusySweep, NoticeStale, Idle, RequestStop,
              LeaveLoop, EndRun, Shutdown, Flattened, Done, vars
<1>7. ~Land
  BY <1>1 DEF Land, Due
<1> QED BY <1>3, <1>4, <1>5, <1>6, <1>7 DEF Next

\* With no modelled latency no position passes its limit, and the book as a whole
\* not the gross limit, for any limits, fills and order of signals.
THEOREM LimitsHold ==
  ASSUME RiskEnabled, VenueLatency = 0
  PROVE  Spec => []PositionWithinLimit
<1>1. Init => WithinLimits(held)
  <2> SUFFICES ASSUME Init PROVE WithinLimits(held)
    OBVIOUS
  <2>1. held = [s \in Symbol |-> 0]
    BY DEF Init, InitVenue, held
  <2>2. GateSound(risk, venue)
    BY InitEngine DEF EngineInv
  <2>3. GrossOfPositions(held) = 0
    BY <2>2 DEF GateSound, held, Init, InitRisk
  <2>4. ASSUME NEW s \in Symbol PROVE Magnitude(held[s]) <= SymbolLimit(s)
    <3>1. InstrumentLimit[s] \in Nat /\ MaxPosition \in Nat
      BY RiskConstants DEF RiskConstants
    <3>2. SymbolLimit(s) \in Nat
      BY <3>1, MinOfTwo DEF SymbolLimit
    <3>3. Magnitude(held[s]) = 0
      BY <2>1 DEF Magnitude
    <3> QED BY <3>2, <3>3
  <2> QED BY <2>3, <2>4, RiskConstants DEF WithinLimits, RiskConstants
<1>2. EngineInv /\ WithinLimits(held) /\ [Next]_vars => WithinLimits(held)'
  BY NextWithinLimits
<1>3. WithinLimits(held) => PositionWithinLimit
  BY DEF WithinLimits, PositionWithinLimit, GrossHeld
<1> QED BY <1>1, <1>2, <1>3, EngineInvariant, PTL DEF Spec

-----------------------------------------------------------------------------
(***************************************************************************)
(* What the order manager's records add up to.  A record that the history  *)
(* has evicted takes its fills with it, so this part is about runs with no *)
(* more orders than the history remembers.                                 *)
(***************************************************************************)

FewOrders(o) == o.next - 1 <= RetiredHistory

FilledIn(order) == [i \in DOMAIN order |-> order[i].filled]

\* The lots filled on one side of a symbol are the pile of its orders' fills.
LEMMA FilledPile ==
  ASSUME NEW order, NEW s, NEW d
  PROVE  FilledLots(order, s, d) = Pile(Matching(order, s, d), FilledIn(order))
BY DEF FilledLots, Pile, Matching, FilledIn

\* Few orders all fit into the history.
LEMMA FewAreTracked ==
  ASSUME NEW o, Typed(o), FewOrders(o)
  PROVE  Cardinality(Tracked(o)) \in Nat /\ Cardinality(Tracked(o)) <= RetiredHistory
<1>1. o.next - 1 \in Nat /\ RetiredHistory \in Nat
  BY OmsConstants DEF OmsConstants, Typed
<1>2. Tracked(o) \subseteq 1 .. (o.next - 1)
  BY <1>1 DEF Typed
<1>3. IsFiniteSet(1 .. (o.next - 1)) /\ Cardinality(1 .. (o.next - 1)) = o.next - 1
  BY <1>1, Interval
<1> QED BY <1>1, <1>2, <1>3, FS_Subset, FS_CardinalityType DEF FewOrders

\* n has the orders of o, with more filled of order x and the same of every other.
Tallies(o, n, x, more) ==
  /\ Tracked(n) = Tracked(o)
  /\ \A i \in Tracked(o) :
       /\ n.order[i].symbol = o.order[i].symbol /\ n.order[i].side = o.order[i].side
       /\ n.order[i].filled = o.order[i].filled + (IF i = x THEN more ELSE 0)

\* What is filled of a tracked order is a natural number.
LEMMA FilledType ==
  ASSUME NEW o, Typed(o), NEW i \in Tracked(o)
  PROVE  o.order[i].filled \in Nat
BY DEF Typed, OrderRecord

\* The same records tally.
LEMMA SameTallies ==
  ASSUME NEW o, Typed(o), NEW n, n.order = o.order, NEW x
  PROVE  Tallies(o, n, x, 0)
<1>1. \A i \in Tracked(o) : o.order[i].filled + 0 = o.order[i].filled
  BY FilledType
<1> QED BY <1>1 DEF Tallies, Tracked

\* One tally after another.
LEMMA TallyTwice ==
  ASSUME NEW o, Typed(o), NEW n, NEW m, NEW x, NEW a \in Nat, NEW b \in Nat,
         Tallies(o, n, x, a), Tallies(n, m, x, b)
  PROVE  Tallies(o, m, x, a + b)
<1>1. \A i \in Tracked(o) : o.order[i].filled \in Nat
  BY FilledType
<1> QED BY <1>1 DEF Tallies

\* Orders that retire into a history with room for all are all remembered, with what
\* was filled of them.
LEMMA RetireTallies ==
  ASSUME NEW o, Typed(o), Books(o), NEW ids \in Seq(Nat \ {0}), NoRepeats(ids),
         Range(ids) \subseteq Working(o), NEW final \in Terminal,
         Cardinality(Tracked(o)) <= RetiredHistory, NEW x
  PROVE  Tallies(o, Retire(o, ids, final), x, 0)
<1> DEFINE n         == Retire(o, ids, final)
           done      == Range(ids)
           ring      == o.retired \o ids
           drop      == AtLeastZero(Len(ring) - RetiredHistory)
           forgotten == {ring[k] : k \in 1 .. drop}
           final_(i) == [o.order[i] EXCEPT !.leaves = 0, !.state = final]
<1>1. /\ Tracked(n) = Tracked(o) \ forgotten
      /\ \A i \in Tracked(n) : n.order[i] = IF i \in done THEN final_(i) ELSE o.order[i]
  BY DEF Retire, Typed, Tracked
<1>2. Len(ring) <= RetiredHistory /\ Len(ring) \in Nat /\ RetiredHistory \in Nat
  <2>1. /\ o.retired \in Seq(Nat \ {0}) /\ NoRepeats(o.retired)
        /\ Range(o.retired) = Finished(o)
    BY DEF Typed, Books
  <2>2. Working(o) \cap Finished(o) = {} /\ Working(o) \cup Finished(o) = Tracked(o)
    BY WorkingOrFinished
  <2>3. Range(o.retired) \cap Range(ids) = {}
    BY <2>1, <2>2
  <2>4. /\ ring \in Seq(Nat \ {0}) /\ NoRepeats(ring)
        /\ Range(ring) = Range(o.retired) \cup Range(ids)
    BY <2>1, <2>3, ConcatRange
  <2>5. Range(ring) \subseteq Tracked(o)
    BY <2>1, <2>2, <2>4
  <2>6. IsFiniteSet(Tracked(o))
    BY DEF Typed
  <2> HIDE DEF ring
  <2>7. Cardinality(Range(ring)) = Len(ring)
    BY <2>4, CountOnce
  <2>8. Cardinality(Range(ring)) <= Cardinality(Tracked(o)) /\ Cardinality(Tracked(o)) \in Nat
    BY <2>5, <2>6, FS_Subset, FS_CardinalityType
  <2>9. Len(ring) \in Nat
    BY <2>4
  <2> QED BY <2>7, <2>8, <2>9, OmsConstants DEF OmsConstants
<1>3. drop = 0
  <2> HIDE DEF ring
  <2> QED BY <1>2 DEF AtLeastZero
<1>4. forgotten = {}
  <2> HIDE DEF drop, ring
  <2>1. 1 .. drop = {}
    BY <1>3
  <2> QED BY <2>1
<1> HIDE DEF n, forgotten
<1>5. \A i \in Tracked(o) :
        /\ final_(i).symbol = o.order[i].symbol /\ final_(i).side = o.order[i].side
        /\ final_(i).filled = o.order[i].filled /\ o.order[i].filled \in Nat
  <2> SUFFICES ASSUME NEW r \in OrderRecord
               PROVE  LET g == [r EXCEPT !.leaves = 0, !.state = final]
                      IN  /\ g.symbol = r.symbol /\ g.side = r.side
                          /\ g.filled = r.filled /\ r.filled \in Nat
    BY DEF Typed
  <2> QED BY DEF OrderRecord
<1> HIDE DEF final_
<1>6. \A i \in Tracked(o) : o.order[i].filled + 0 = o.order[i].filled
  BY <1>5
<1> QED BY <1>1, <1>4, <1>5, <1>6 DEF Tallies, n

\* A report the order manager takes adds its quantity to what is filled of its order if
\* it is a fill, and changes nothing else that is added up.
LEMMA ApplyTallies ==
  ASSUME NEW o, IInv(o), FewOrders(o), NEW rep, ReadableReport(rep), Applies(o, rep)
  PROVE  Tallies(o, Apply(o, rep), rep.id, IF rep.type = "Fill" THEN rep.quantity ELSE 0)
<1> DEFINE n    == Apply(o, rep)
           x    == rep.id
           more == IF rep.type = "Fill" THEN rep.quantity ELSE 0
<1>1. x \in Working(o) /\ MovesOn(o, n, x, more)
  BY TakenMovesOn
<1>2. SameOrder(o, n, x)
  BY <1>1, ApplyRemembers
<1>3. Typed(o) /\ Books(o)
  BY DEF IInv, Sound
<1>4. Cardinality(Tracked(o)) <= RetiredHistory
  BY <1>3, FewAreTracked
<1>5. Range(<<x>>) = {x}
  BY DEF Range
<1>6. <<x>> \in Seq(Nat \ {0}) /\ NoRepeats(<<x>>)
  <2>1. x \in Nat \ {0}
    BY <1>1, <1>3 DEF Working, Typed
  <2> QED BY <2>1 DEF NoRepeats
<1>7. \/ \E kind \in Breaks : n = Count(o, kind)
      \/ \E state \in Live : n = SetState(o, x, state)
      \/ \E final \in Terminal : n = Retire(o, <<x>>, final)
      \/ rep.quantity \in Nat \ {0} /\ n = ApplyFill(o, x, rep.quantity)
  BY ApplyCases
<1> HIDE DEF n, x
<1>8. Tracked(n) = Tracked(o)
  <2>1. ASSUME NEW kind \in Breaks, n = Count(o, kind) PROVE Tracked(n) = Tracked(o)
    BY <1>3, <2>1 DEF Count, Typed, Tracked
  <2>2. ASSUME NEW state \in Live, n = SetState(o, x, state) PROVE Tracked(n) = Tracked(o)
    BY <1>1, <1>3, <2>2, SetStateRemembers DEF Working
  <2>3. ASSUME NEW final \in Terminal, n = Retire(o, <<x>>, final) PROVE Tracked(n) = Tracked(o)
    BY <1>1, <1>3, <1>4, <1>5, <1>6, <2>3, RetireTallies DEF Tallies
  <2>4. CASE rep.quantity \in Nat \ {0} /\ n = ApplyFill(o, x, rep.quantity)
    <3> DEFINE hit == Execute(o, x, rep.quantity)
    <3>1. Tracked(hit) = Tracked(o) /\ Sound(hit, {x}) /\ x \in Working(hit)
      BY <1>1, <2>4, ExecuteRemembers, ExecuteKeeps
    <3>2. n = IF hit.order[x].leaves = 0 THEN Retire(hit, <<x>>, "Filled")
              ELSE IF hit.order[x].state = "PendingCancel" THEN hit
              ELSE SetState(hit, x, "PartiallyFilled")
      BY <2>4 DEF ApplyFill
    <3> HIDE DEF hit
    <3>3. Typed(hit) /\ Books(hit) /\ x \in Tracked(hit)
      BY <3>1 DEF Sound, Working
    <3>4. Tracked(Retire(hit, <<x>>, "Filled")) = Tracked(hit)
      BY <1>4, <1>5, <1>6, <3>1, <3>3, RetireTallies DEF Tallies, Terminal
    <3>5. Tracked(SetState(hit, x, "PartiallyFilled")) = Tracked(hit)
      BY <3>3, SetStateRemembers
    <3> QED BY <3>1, <3>2, <3>4, <3>5
  <2> QED BY <1>7, <2>1, <2>2, <2>3, <2>4
<1> HIDE DEF more
<1>9. ASSUME NEW i \in Tracked(o) \ {x}
      PROVE  n.order[i] = o.order[i] /\ o.order[i].filled + 0 = o.order[i].filled
  BY <1>1, <1>3, <1>8, FilledType DEF MovesOn, Within
<1>10. /\ n.order[x].filled = o.order[x].filled + more
       /\ n.order[x].symbol = o.order[x].symbol /\ n.order[x].side = o.order[x].side
  BY <1>1, <1>2 DEF MovesOn, SameOrder
<1> QED BY <1>8, <1>9, <1>10 DEF Tallies, n, x, more

\* A report takes no break back.
LEMMA ApplyCounts ==
  ASSUME NEW o, IInv(o), NEW rep, ReadableReport(rep)
  PROVE  LET n == Apply(o, rep)
         IN  IInv(n) /\ n.next = o.next /\ o.breaks \subseteq n.breaks
<1>1. CASE Applies(o, rep)
  BY <1>1, ApplyKeeps, TakenMovesOn DEF MovesOn, Within
<1>2. CASE ~Applies(o, rep)
  BY <1>2, ApplyKeeps, RefusedIsCounted DEF IInv, Sound
<1> QED BY <1>1, <1>2

\* The answer to an order that works books what was filled of it, the answer to one
\* that was given up nothing.
LEMMA AnsweredTallies ==
  ASSUME NEW o, IInv(o), FewOrders(o), NEW id, NEW n \in Nat,
         id \in Working(o) => id \in Unanswered(o)
  PROVE  Tallies(o, Answered(o, id, n), id, IF id \in Working(o) THEN n ELSE 0)
<1> DEFINE ackReport    == [id |-> id, type |-> "Acked", quantity |-> 0]
           fillReport   == [id |-> id, type |-> "Fill", quantity |-> n]
           cancelReport == [id |-> id, type |-> "Cancelled", quantity |-> 0]
           acked == Apply(o, ackReport)
           hit   == IF n > 0 THEN Apply(acked, fillReport) ELSE acked
           final == Answered(o, id, n)
<1>1. /\ ReadableReport(ackReport) /\ ReadableReport(fillReport) /\ ReadableReport(cancelReport)
      /\ ackReport.id = id /\ fillReport.id = id /\ cancelReport.id = id
      /\ ackReport.type = "Acked" /\ fillReport.type = "Fill" /\ fillReport.quantity = n
      /\ cancelReport.type = "Cancelled"
  BY DEF ReadableReport, ExecType, AcceptedIn
<1>2. final = IF id \in Working(hit) THEN Apply(hit, cancelReport) ELSE hit
  BY DEF Answered
<1>3. Typed(o)
  BY DEF IInv, Sound
<1> HIDE DEF ackReport, fillReport, cancelReport, final
<1>4. CASE id \notin Working(o)
  <2>1. IInv(acked) /\ acked.order = o.order
    BY <1>1, <1>4, DeafToFinished
  <2>2. id \notin Working(acked)
    BY <1>4, <2>1 DEF Working, Tracked
  <2>3. IInv(hit) /\ hit.order = o.order
    <3> HIDE DEF acked
    <3>1. CASE n > 0
      BY <1>1, <2>1, <2>2, <3>1, DeafToFinished
    <3>2. CASE ~(n > 0)
      BY <2>1, <3>2
    <3> QED BY <3>1, <3>2
  <2>4. final.order = o.order
    <3> HIDE DEF hit
    <3> QED BY <1>2, <1>4, <2>3 DEF Working, Tracked
  <2> QED BY <1>3, <1>4, <2>4, SameTallies DEF final
<1>5. CASE id \in Working(o)
  <2>1. id \in Tracked(o) /\ o.order[id].state = "PendingNew"
    BY <1>5 DEF Unanswered
  <2>2. Applies(o, ackReport)
    BY <1>1, <2>1 DEF Applies, AcceptedIn
  <2>3. /\ IInv(acked) /\ acked.next = o.next /\ id \in Working(acked)
        /\ acked.order[id].state # "PendingNew" /\ Tallies(o, acked, id, 0)
    <3>1. IInv(acked) /\ acked.next = o.next
      BY <1>1, ApplyCounts
    <3>2. id \in Working(acked) /\ acked.order[id].state # "PendingNew"
      BY <1>1, <2>2, TakenMovesOn
    <3>3. Tallies(o, acked, ackReport.id, IF ackReport.type = "Fill" THEN ackReport.quantity ELSE 0)
      BY <1>1, <2>2, ApplyTallies
    <3> QED BY <1>1, <3>1, <3>2, <3>3
  <2>4. FewOrders(acked) /\ Typed(acked)
    BY <2>3 DEF FewOrders, IInv, Sound
  <2> HIDE DEF acked
  <2>5. /\ IInv(hit) /\ hit.next = o.next /\ Tallies(o, hit, id, n)
        /\ id \in Working(hit) => hit.order[id].state # "PendingNew"
    <3>1. CASE n > 0
      <4>1. Applies(acked, fillReport)
        BY <1>1, <2>3, <3>1 DEF Applies, AcceptedIn, Working
      <4>2. /\ IInv(hit) /\ hit.next = o.next /\ Tallies(acked, hit, id, n)
            /\ id \in Working(hit) => hit.order[id].state # "PendingNew"
        <5>1. hit = Apply(acked, fillReport)
          BY <3>1
        <5>2. IInv(hit) /\ hit.next = o.next
          BY <1>1, <2>3, <5>1, ApplyCounts
        <5>3. id \in Working(hit) => hit.order[id].state # "PendingNew"
          BY <1>1, <2>3, <4>1, <5>1, TakenMovesOn
        <5>4. Tallies(acked, hit, fillReport.id,
                      IF fillReport.type = "Fill" THEN fillReport.quantity ELSE 0)
          BY <1>1, <2>3, <2>4, <4>1, <5>1, ApplyTallies
        <5> QED BY <1>1, <5>2, <5>3, <5>4
      <4>3. Tallies(o, hit, id, 0 + n)
        <5> HIDE DEF hit
        <5> QED BY <1>3, <2>3, <4>2, TallyTwice
      <4> QED BY <4>2, <4>3
    <3>2. CASE n = 0
      BY <2>3, <3>2
    <3> QED BY <3>1, <3>2
  <2> HIDE DEF hit
  <2>6. CASE id \notin Working(hit)
    BY <1>2, <1>5, <2>5, <2>6 DEF final
  <2>7. CASE id \in Working(hit)
    <3>1. hit.order[id].state \in {"New", "PartiallyFilled", "PendingCancel"} /\ id \in Tracked(hit)
      BY <2>5, <2>7 DEF Working, Live
    <3>2. Applies(hit, cancelReport)
      BY <1>1, <3>1 DEF Applies, AcceptedIn
    <3>3. FewOrders(hit)
      BY <2>5 DEF FewOrders
    <3>4. Tallies(hit, final, id, 0)
      BY <1>1, <1>2, <2>5, <2>7, <3>2, <3>3, ApplyTallies
    <3>5. Tallies(o, final, id, n + 0)
      BY <1>3, <2>5, <3>4, TallyTwice
    <3> QED BY <1>5, <3>5 DEF final
  <2> QED BY <2>6, <2>7
<1> QED BY <1>4, <1>5

\* The answer to an order that was given up is counted as a break, and none is taken back.
LEMMA AnsweredCounts ==
  ASSUME NEW o, IInv(o), NEW id \in Nat \ {0}, id < o.next, NEW n \in Nat
  PROVE  LET final == Answered(o, id, n)
         IN  /\ o.breaks \subseteq final.breaks
             /\ id \notin Working(o) => final.breaks \cap {"invalid", "late"} # {}
<1> DEFINE ackReport    == [id |-> id, type |-> "Acked", quantity |-> 0]
           fillReport   == [id |-> id, type |-> "Fill", quantity |-> n]
           cancelReport == [id |-> id, type |-> "Cancelled", quantity |-> 0]
           acked == Apply(o, ackReport)
           hit   == IF n > 0 THEN Apply(acked, fillReport) ELSE acked
           final == Answered(o, id, n)
<1>1. /\ ReadableReport(ackReport) /\ ReadableReport(fillReport) /\ ReadableReport(cancelReport)
      /\ ackReport.id = id /\ ackReport.type = "Acked"
  BY DEF ReadableReport, ExecType, AcceptedIn
<1>2. final = IF id \in Working(hit) THEN Apply(hit, cancelReport) ELSE hit
  BY DEF Answered
<1> HIDE DEF ackReport, fillReport, cancelReport, final
<1>3. IInv(acked) /\ o.breaks \subseteq acked.breaks
  BY <1>1, ApplyCounts
<1>4. id \notin Working(o) => acked.breaks \cap {"invalid", "late"} # {}
  <2> SUFFICES ASSUME id \notin Working(o) PROVE acked.breaks \cap {"invalid", "late"} # {}
    OBVIOUS
  <2>1. DOMAIN o = {"order", "retired", "open", "next", "exposure", "gross", "breaks"}
    BY DEF IInv, Sound, Typed
  <2>2. CASE id \notin Tracked(o)
    <3>1. acked = Count(o, "late")
      BY <1>1, <2>2 DEF Apply
    <3>2. "late" \in acked.breaks
      BY <2>1, <3>1 DEF Count
    <3> QED BY <3>2
  <2>3. CASE id \in Tracked(o)
    <3>1. ~Applies(o, ackReport)
      BY <1>1, <2>3 DEF Applies, AcceptedIn, Working, Live
    <3>2. acked = Count(o, "invalid")
      BY <1>1, <2>3, <3>1 DEF Apply
    <3>3. "invalid" \in acked.breaks
      BY <2>1, <3>2 DEF Count
    <3> QED BY <3>3
  <2> QED BY <2>2, <2>3
<1> HIDE DEF acked
<1>5. IInv(hit) /\ acked.breaks \subseteq hit.breaks
  BY <1>1, <1>3, ApplyCounts
<1> HIDE DEF hit
<1>6. hit.breaks \subseteq final.breaks
  BY <1>1, <1>2, <1>5, ApplyCounts
<1> QED BY <1>3, <1>4, <1>5, <1>6 DEF final

\* What the records add up to moves by what a tally adds.
LEMMA BookedMoves ==
  ASSUME NEW o, Typed(o), NEW n, NEW x, NEW more \in Nat, Tallies(o, n, x, more), NEW s
  PROVE  /\ Booked(o.order, s) \in Int
         /\ Booked(n.order, s) = Booked(o.order, s) +
              (IF x \in Tracked(o) /\ o.order[x].symbol = s
               THEN Signed(o.order[x].side, more) ELSE 0)
<1>1. ASSUME NEW d \in Side
      PROVE  /\ Cardinality(FilledLots(o.order, s, d)) \in Nat
             /\ Cardinality(FilledLots(n.order, s, d)) =
                  Cardinality(FilledLots(o.order, s, d)) +
                  (IF x \in Tracked(o) /\ o.order[x].symbol = s /\ o.order[x].side = d
                   THEN more ELSE 0)
  <2> DEFINE J == Matching(o.order, s, d)
             f == FilledIn(o.order)
             g == FilledIn(n.order)
  <2>1. Matching(n.order, s, d) = J /\ J \subseteq Tracked(o)
    BY DEF Tallies, Tracked, Matching
  <2>2. IsFiniteSet(J)
    BY <2>1, FS_Subset DEF Typed
  <2>3. \A i \in Tracked(o) : f[i] = o.order[i].filled /\ g[i] = n.order[i].filled
    BY DEF FilledIn, Tallies, Tracked
  <2>4. \A i \in J : f[i] \in Nat
    BY <2>1, <2>3, FilledType
  <2>5. \A i \in J : g[i] = f[i] + (IF i = x THEN more ELSE 0)
    BY <2>1, <2>3 DEF Tallies
  <2>6. /\ FilledLots(o.order, s, d) = Pile(J, f)
        /\ FilledLots(n.order, s, d) = Pile(J, g)
    BY <2>1, FilledPile
  <2>7. x \in J <=> x \in Tracked(o) /\ o.order[x].symbol = s /\ o.order[x].side = d
    BY DEF Matching, Tracked
  <2> HIDE DEF J, f, g
  <2>8. Cardinality(Pile(J, f)) \in Nat
    BY <2>2, <2>4, PileFinite
  <2>9. CASE x \in J
    <3>1. \A i \in J : g[i] \in Nat
      BY <2>4, <2>5
    <3>2. \A i \in J \ {x} : g[i] = f[i]
      BY <2>4, <2>5
    <3>3. Cardinality(Pile(J, g)) = Cardinality(Pile(J, f)) - f[x] + g[x]
      BY <2>2, <2>4, <2>9, <3>1, <3>2, PileUpdate
    <3>4. g[x] = f[x] + more /\ f[x] \in Nat
      BY <2>4, <2>5, <2>9
    <3> QED BY <2>6, <2>7, <2>8, <2>9, <3>3, <3>4
  <2>10. CASE x \notin J
    <3>1. \A i \in J : f[i] = g[i]
      BY <2>4, <2>5, <2>10
    <3>2. Pile(J, f) = Pile(J, g)
      BY <3>1, PileSame
    <3> QED BY <2>6, <2>7, <2>8, <2>10, <3>2
  <2> QED BY <2>9, <2>10
<1>2. x \in Tracked(o) => o.order[x].side \in {"Buy", "Sell"}
  BY DEF Typed, OrderRecord, Side
<1>3. "Buy" \in Side /\ "Sell" \in Side
  BY DEF Side
<1> DEFINE b == Cardinality(FilledLots(o.order, s, "Buy"))
           c == Cardinality(FilledLots(o.order, s, "Sell"))
           bb == Cardinality(FilledLots(n.order, s, "Buy"))
           cc == Cardinality(FilledLots(n.order, s, "Sell"))
           hit == x \in Tracked(o) /\ o.order[x].symbol = s
<1>4. /\ b \in Nat /\ c \in Nat
      /\ bb = b + (IF hit /\ o.order[x].side = "Buy" THEN more ELSE 0)
      /\ cc = c + (IF hit /\ o.order[x].side = "Sell" THEN more ELSE 0)
  BY <1>1, <1>3
<1>5. Booked(o.order, s) = b - c /\ Booked(n.order, s) = bb - cc
  BY DEF Booked
<1> HIDE DEF b, c, bb, cc
<1> QED BY <1>2, <1>4, <1>5 DEF Signed

\* A new order adds nothing to what is booked.
LEMMA CreateBooks ==
  ASSUME NEW o, IInv(o), NEW s \in Symbol, NEW d \in Side, NEW quantity \in Nat \ {0},
         CanCreate(o, o.next, quantity)
  PROVE  LET n == Create(o, s, d, quantity)
         IN  /\ n.order[o.next].symbol = s /\ n.order[o.next].side = d
             /\ o.breaks \subseteq n.breaks
             /\ \A t : Booked(n.order, t) = Booked(o.order, t)
<1> DEFINE n == Create(o, s, d, quantity)
           id == o.next
           rec == [symbol |-> s, side |-> d, quantity |-> quantity, filled |-> 0,
                   leaves |-> quantity, state |-> "PendingNew", age |-> 0]
<1>1. n = CreateWithId(o, id, s, d, quantity) /\ id \in Nat /\ Typed(o) /\ id \notin Tracked(o)
  BY DEF Create, IInv, Sound, Typed, CanCreate
<1>2. rec.symbol = s /\ rec.side = d /\ rec.filled = 0
  OBVIOUS
<1> HIDE DEF n, rec
<1>3. id \in Working(n) /\ n.order[id] = rec
  BY <1>1, CreateKeeps DEF rec
<1>4. /\ Tracked(o) \subseteq Tracked(n) /\ Tracked(n) \subseteq Tracked(o) \cup {id}
      /\ \A i \in Tracked(o) : n.order[i] = o.order[i]
      /\ o.breaks \subseteq n.breaks
  BY <1>1, CreateAdvances
<1>5. Tracked(n) = Tracked(o) \cup {id}
  BY <1>3, <1>4 DEF Working
<1>6. ASSUME NEW t, NEW e
      PROVE  Cardinality(FilledLots(n.order, t, e)) = Cardinality(FilledLots(o.order, t, e))
  <2> DEFINE J == Matching(o.order, t, e)
             K == Matching(n.order, t, e)
             f == FilledIn(o.order)
             g == FilledIn(n.order)
  <2>1. /\ J \subseteq Tracked(o) /\ K \subseteq Tracked(n)
        /\ J \ {id} = K \ {id} /\ id \notin J
    BY <1>1, <1>4, <1>5 DEF Matching, Tracked
  <2>2. IsFiniteSet(J)
    BY <2>1, FS_Subset, <1>1 DEF Typed
  <2>3. /\ \A i \in J : f[i] = o.order[i].filled
        /\ \A i \in K : g[i] = n.order[i].filled
    BY DEF FilledIn, Matching
  <2>4. \A i \in J : f[i] \in Nat
    BY <1>1, <2>1, <2>3, FilledType
  <2>5. \A i \in J : g[i] = f[i] /\ i \in K
    BY <1>4, <2>1, <2>3
  <2>6. \A i \in K : g[i] \in Nat /\ (i = id => g[i] = 0)
    BY <1>2, <1>3, <2>1, <2>3, <2>4, <2>5
  <2>7. FilledLots(o.order, t, e) = Pile(J, f) /\ FilledLots(n.order, t, e) = Pile(K, g)
    BY FilledPile
  <2> HIDE DEF J, K, f, g
  <2>8. CASE id \in K
    <3>1. Cardinality(Pile(K, g)) = Cardinality(Pile(J, f)) - 0 + g[id]
      BY <2>1, <2>2, <2>4, <2>5, <2>6, <2>8, PileUpdate
    <3>2. Cardinality(Pile(J, f)) \in Nat
      BY <2>2, <2>4, PileFinite
    <3> QED BY <2>6, <2>7, <2>8, <3>1, <3>2
  <2>9. CASE id \notin K
    <3>1. J = K
      BY <2>1, <2>9
    <3>2. Pile(J, f) = Pile(K, g)
      BY <2>5, <3>1, PileSame
    <3> QED BY <2>7, <3>2
  <2> QED BY <2>8, <2>9
<1> QED BY <1>2, <1>3, <1>4, <1>6 DEF Booked, n
\* A tally that adds nothing leaves what is booked.
LEMMA SameBooks ==
  ASSUME NEW o, Typed(o), NEW n, NEW x, Tallies(o, n, x, 0), NEW s
  PROVE  Booked(n.order, s) = Booked(o.order, s)
<1>1. \A d : Signed(d, 0) = 0
  <2>1. \A k \in Int : k <= 0 /\ k >= 0 => -k = 0
    OBVIOUS
  <2>2. 0 \in Int /\ 0 <= 0 /\ 0 >= 0
    OBVIOUS
  <2>3. -0 = 0
    BY ONLY <2>1, <2>2, Zenon
  <2> QED BY <2>3, Zenon DEF Signed
<1>2. /\ Booked(o.order, s) \in Int
      /\ Booked(n.order, s) = Booked(o.order, s) +
           (IF x \in Tracked(o) /\ o.order[x].symbol = s THEN Signed(o.order[x].side, 0) ELSE 0)
  BY BookedMoves
<1> QED BY <1>1, <1>2

-----------------------------------------------------------------------------
(***************************************************************************)
(* What the engine adds to the invariant: what is on the wire is what was  *)
(* booked; the records add up to the venue's positions until an order that *)
(* was given up is answered; that answer is a break; and giving an order   *)
(* up has stopped trading, if the configuration says so.                   *)
(***************************************************************************)

TermsMatch(wire, o) ==
  \A k \in DOMAIN wire :
    wire[k].id \in Working(o) =>
      o.order[wire[k].id].symbol = wire[k].symbol /\ o.order[wire[k].id].side = wire[k].side

Explains(o) ==
  /\ FewOrders(o) /\ expired \cap submitted = {} =>
       \A s \in Symbol : Booked(o.order, s) = held[s]
  /\ expired \cap submitted # {} => o.breaks \cap {"invalid", "late"} # {}

GivingUpHalts == HaltOnTimeout /\ expired # {} => Halted(risk)

BookSound == TermsMatch(pending, oms) /\ Explains(oms) /\ GivingUpHalts

\* It holds at the start.
LEMMA InitBooks == Init => BookSound
<1> SUFFICES ASSUME Init PROVE BookSound
  OBVIOUS
<1>1. oms = InitOms /\ pending = << >> /\ venue = InitVenue /\ submitted = {} /\ expired = {}
  BY DEF Init
<1>2. DOMAIN pending = {}
  BY <1>1
<1>3. \A s \in Symbol : held[s] = 0
  BY <1>1 DEF held, InitVenue
<1>4. ASSUME NEW s \in Symbol PROVE Booked(oms.order, s) = 0
  <2>1. DOMAIN oms.order = {}
    BY <1>1 DEF InitOms
  <2>2. \A d : FilledLots(oms.order, s, d) = {}
    BY <2>1 DEF FilledLots
  <2> QED BY <2>2, FS_EmptySet DEF Booked
<1> QED BY <1>1, <1>2, <1>3, <1>4 DEF BookSound, TermsMatch, Explains, GivingUpHalts

\* A step that moves no record, no position and no order on the wire keeps it.
LEMMA QuietBooks ==
  ASSUME BookSound, oms'.order = oms.order, oms'.next = oms.next, oms.breaks \subseteq oms'.breaks,
         pending' = pending, venue' = venue, submitted' = submitted, expired' = expired,
         Halted(risk) => Halted(risk')
  PROVE  BookSound'
<1>1. TermsMatch(pending, oms)'
  BY DEF BookSound, TermsMatch, Working, Tracked
<1>2. Explains(oms)'
  BY DEF BookSound, Explains, FewOrders, held
<1>3. GivingUpHalts'
  BY DEF BookSound, GivingUpHalts
<1> QED BY <1>1, <1>2, <1>3 DEF BookSound

\* Refusing to track an order only counts.
LEMMA RefusalCounts ==
  ASSUME NEW o, IInv(o), NEW s, NEW d, NEW quantity, ~CanCreate(o, o.next, quantity)
  PROVE  LET n == Create(o, s, d, quantity)
         IN  n.order = o.order /\ n.next = o.next /\ o.breaks \subseteq n.breaks
<1> DEFINE n == Create(o, s, d, quantity)
<1>1. n = Count(o, "capacity")
  BY DEF Create, CreateWithId
<1>2. DOMAIN o = {"order", "retired", "open", "next", "exposure", "gross", "breaks"}
  BY DEF IInv, Sound, Typed
<1> HIDE DEF n
<1> QED BY <1>1, <1>2 DEF Count, n

\* Time passing keeps it.
LEMMA TickBooks == EngineInv /\ BookSound /\ Tick => BookSound'
<1> SUFFICES ASSUME EngineInv, BookSound, Tick PROVE BookSound'
  OBVIOUS
<1> DEFINE later(k) == [pending[k] EXCEPT !.wait = Min({@ + 1, VenueLatency})]
<1>1. /\ oms' = Older(oms) /\ pending' = [k \in DOMAIN pending |-> later(k)]
      /\ venue' = venue /\ submitted' = submitted /\ expired' = expired
  BY DEF Tick
<1>2. \E second \in BOOLEAN : risk' = [risk EXCEPT !.over = @ \/ second]
  BY DEF Tick
<1>3. IInv(oms) /\ Typed(oms) /\ risk \in RiskRecord /\ pending \in Seq(WireOrder)
  BY DEF EngineInv, EngineTyped, IInv, Sound
<1>4. Halted(risk') = Halted(risk)
  BY <1>2, <1>3 DEF RiskRecord, Halted
<1>5. ASSUME NEW k \in DOMAIN pending
      PROVE  /\ later(k).id = pending[k].id /\ later(k).symbol = pending[k].symbol
             /\ later(k).side = pending[k].side
  <2>1. pending[k] \in WireOrder
    BY <1>3
  <2> QED BY <2>1 DEF WireOrder
<1> HIDE DEF later
<1>6. /\ Tracked(oms') = Tracked(oms) /\ Working(oms') = Working(oms)
      /\ oms'.next = oms.next /\ oms'.breaks = oms.breaks
  BY <1>1, <1>3, OlderRemembers, OlderWorks DEF Older, Typed
<1>7. \A i \in Tracked(oms) : /\ oms'.order[i].symbol = oms.order[i].symbol
                              /\ oms'.order[i].side = oms.order[i].side
                              /\ oms'.order[i].filled = oms.order[i].filled
  <2>1. \A i \in Tracked(oms) : \A f \in {"symbol", "side", "filled"} :
          Older(oms).order[i][f] = oms.order[i][f]
    BY <1>3, OlderRemembers
  <2>2. \A i \in Tracked(oms) : /\ Older(oms).order[i]["symbol"] = oms.order[i]["symbol"]
                                /\ Older(oms).order[i]["side"] = oms.order[i]["side"]
                                /\ Older(oms).order[i]["filled"] = oms.order[i]["filled"]
    BY <2>1
  <2> QED BY <1>1, <2>2
<1>8. TermsMatch(pending, oms)'
  BY <1>1, <1>5, <1>6, <1>7 DEF BookSound, TermsMatch, Working
<1>9. Tallies(oms, oms', 0, 0)
  <2>1. \A i \in Tracked(oms) : oms.order[i].filled + 0 = oms.order[i].filled
    BY <1>3, FilledType
  <2> QED BY <1>6, <1>7, <2>1 DEF Tallies
<1>10. Explains(oms)'
  BY <1>1, <1>3, <1>6, <1>9, SameBooks DEF BookSound, Explains, FewOrders, held
<1>11. GivingUpHalts'
  BY <1>1, <1>4 DEF BookSound, GivingUpHalts
<1> QED BY <1>8, <1>10, <1>11 DEF BookSound

\* A sweep keeps it: what it gives up is still on the wire, so nobody has answered it,
\* and trading stops over it.
LEMMA SweepBooks ==
  ASSUME EngineInv, BookSound, SweepOrders(risk),
         pending' = pending, venue' = venue, submitted' = submitted
  PROVE  BookSound'
<1> DEFINE S == Overdue(oms)
<1>1. PICK walk \in WalkOrders(S) : oms' = SweepTimeouts(oms, walk)
  BY DEF SweepOrders
<1>2. expired' = expired \cup S
  BY DEF SweepOrders
<1>3. IInv(oms) /\ Typed(oms) /\ Books(oms) /\ WireSound /\ risk \in RiskRecord
  BY DEF EngineInv, EngineTyped, IInv, Sound
<1>4. LetGo(oms, oms', S)
  BY <1>1, <1>3, SweepLetsGo
<1>5. S \subseteq Working(oms) /\ S \subseteq Tracked(oms) /\ S \subseteq Nat \ {0}
  BY <1>3 DEF Overdue, Unanswered, Working, Live, Typed
<1>6. S \cap submitted = {}
  BY <1>3, <1>5 DEF WireSound
<1>7. oms'.breaks = oms.breaks /\ oms'.next = oms.next
  BY <1>1, <1>3, SweepMovesOn
<1>8. ASSUME FewOrders(oms) PROVE Tallies(oms, oms', 0, 0)
  <2>1. IsFiniteSet(S) /\ Cardinality(S) \in Nat
    BY <1>3, <1>5, FS_Subset, FS_CardinalityType DEF Typed
  <2>2. oms' = Retire(oms, walk, "Expired")
    BY <1>1 DEF SweepTimeouts
  <2> HIDE DEF S
  <2>3. walk \in [1 .. Cardinality(S) -> S] /\ Range(walk) = S /\ NoRepeats(walk)
    BY <1>1, <2>1, EnumerationOnce DEF WalkOrders
  <2>4. walk \in Seq(Nat \ {0})
    <3>1. walk \in [1 .. Cardinality(S) -> Nat \ {0}]
      BY <1>5, <2>3
    <3> QED BY <2>1, <3>1
  <2>5. Cardinality(Tracked(oms)) <= RetiredHistory
    BY <1>3, <1>8, FewAreTracked
  <2> QED BY <1>3, <1>5, <2>2, <2>3, <2>4, <2>5, RetireTallies DEF Terminal
<1>9. TermsMatch(pending, oms)'
  BY <1>4 DEF BookSound, TermsMatch, LetGo
<1>10. Explains(oms)'
  <2>1. expired' \cap submitted' = expired \cap submitted
    BY <1>2, <1>6
  <2>2. ASSUME FewOrders(oms), NEW s PROVE Booked(oms'.order, s) = Booked(oms.order, s)
    BY <1>3, <1>8, <2>2, SameBooks
  <2> QED BY <1>7, <2>1, <2>2 DEF BookSound, Explains, FewOrders, held
<1>11. GivingUpHalts'
  <2>1. CASE S # {} /\ HaltOnTimeout /\ ~Halted(risk)
    <3>1. risk' = Engage(risk, "OrderTimeout")
      BY <2>1 DEF SweepOrders
    <3> QED BY <1>3, <3>1, EngageKeeps DEF HaltReason, GivingUpHalts
  <2>2. CASE ~(S # {} /\ HaltOnTimeout /\ ~Halted(risk))
    <3>1. risk' = risk
      BY <2>2 DEF SweepOrders
    <3> QED BY <1>2, <2>2, <3>1 DEF BookSound, GivingUpHalts
  <2> QED BY <2>1, <2>2
<1> QED BY <1>9, <1>10, <1>11 DEF BookSound

\* The answer to an order: if it still worked, the records move with the position; if
\* it had been given up, they do not, and the answer is counted as a break.  o is the
\* order manager that is answered.
LEMMA DispatchBooks ==
  ASSUME NEW o, IInv(o), Explains(o), venue \in VenueRecord,
         NEW id \in Nat \ {0}, id < o.next, id \in Working(o) <=> id \notin expired,
         NEW s \in Symbol, NEW d \in Side, NEW n \in Nat, NEW px \in Price,
         id \in Working(o) =>
           id \in Unanswered(o) /\ o.order[id].symbol = s /\ o.order[id].side = d,
         oms' = Answered(o, id, n), venue' = ApplyPnl(venue, s, d, n, px),
         submitted' = submitted \cup {id}, expired' = expired
  PROVE  Explains(oms)'
<1>1. oms'.next = o.next /\ Typed(o)
  BY AnsweredLetsGo DEF LetGo, IInv, Sound
<1>2. /\ o.breaks \subseteq oms'.breaks
      /\ id \notin Working(o) => oms'.breaks \cap {"invalid", "late"} # {}
  BY AnsweredCounts
<1>3. expired' \cap submitted' # {} => oms'.breaks \cap {"invalid", "late"} # {}
  BY <1>2 DEF Explains
<1>4. ASSUME FewOrders(oms'), expired' \cap submitted' = {}, NEW t \in Symbol
      PROVE  Booked(oms'.order, t) = held'[t]
  <2>1. FewOrders(o) /\ expired \cap submitted = {} /\ id \in Working(o) /\ id \in Tracked(o)
    BY <1>1, <1>4 DEF FewOrders, Working
  <2>2. Booked(o.order, t) = held[t]
    BY <2>1 DEF Explains
  <2>3. Tallies(o, oms', id, n)
    BY <2>1, AnsweredTallies
  <2>4. /\ Booked(o.order, t) \in Int
        /\ Booked(oms'.order, t) =
             Booked(o.order, t) + (IF s = t THEN Signed(d, n) ELSE 0)
    <3>1. /\ Booked(o.order, t) \in Int
          /\ Booked(oms'.order, t) = Booked(o.order, t) +
               (IF id \in Tracked(o) /\ o.order[id].symbol = t
                THEN Signed(o.order[id].side, n) ELSE 0)
      BY <1>1, <2>3, BookedMoves
    <3> QED BY <2>1, <3>1
  <2>5. held' = [held EXCEPT ![s] = held[s] + Signed(d, n)] /\ held \in [Symbol -> Int]
    BY ApplyPnlTyped DEF held, VenueRecord
  <2>6. held'[t] = IF s = t THEN held[t] + Signed(d, n) ELSE held[t]
    BY <2>5
  <2> QED BY <2>2, <2>4, <2>5, <2>6
<1> QED BY <1>3, <1>4 DEF Explains

\* An order that lands keeps it.
LEMMA LandBooks == EngineInv /\ BookSound /\ Land => BookSound'
<1> SUFFICES ASSUME EngineInv, BookSound, Land PROVE BookSound'
  OBVIOUS
<1> DEFINE p == Head(pending)
<1>1. EngineTyped /\ GateSound(risk, venue) /\ WireSound
  BY DEF EngineInv
<1>2. /\ pending # << >> /\ pending' = Tail(pending) /\ CompleteOrder(oms, risk, p)
      /\ expired' = expired
  BY DEF Land, Due
<1>3. p \in WireOrder /\ p.id \in Ids(pending)
  BY <1>1, <1>2, TakeHead DEF EngineTyped, WireSound
<1>4. Dispatched(oms, risk, p.id)
  BY <1>1, <1>2, <1>3, CompleteOrderDispatches DEF EngineTyped, WireSound
<1>5. /\ pending[1] = p /\ 1 \in DOMAIN pending
      /\ \A k \in DOMAIN pending' : k + 1 \in DOMAIN pending /\ pending'[k] = pending[k + 1]
  <2>1. /\ Len(pending) \in Nat \ {0} /\ DOMAIN pending = 1 .. Len(pending) /\ p = pending[1]
        /\ DOMAIN Tail(pending) = 1 .. Len(pending) - 1
        /\ \A k \in 1 .. Len(pending) - 1 : Tail(pending)[k] = pending[k + 1]
    BY <1>1, <1>2 DEF EngineTyped
  <2>2. \A k \in 1 .. Len(pending) - 1 : k + 1 \in 1 .. Len(pending)
    BY <2>1
  <2>3. 1 \in 1 .. Len(pending)
    BY <2>1
  <2> HIDE DEF p
  <2> QED BY <1>2, <2>1, <2>2, <2>3
<1>6. TermsMatch(pending, oms)'
  BY <1>4, <1>5 DEF BookSound, TermsMatch, Dispatched, LetGo
<1>7. PICK n \in 0 .. p.quantity, px \in Price :
        oms' = Answered(oms, p.id, n) /\ venue' = ApplyPnl(venue, p.symbol, p.side, n, px)
  BY <1>2 DEF CompleteOrder, Dispatch
<1> HIDE DEF p
<1>8. /\ p.id \in Nat \ {0} /\ p.symbol \in Symbol /\ p.side \in Side /\ p.quantity \in Nat
      /\ n \in Nat
  BY <1>3 DEF WireOrder
<1>9. Explains(oms)'
  <2>1. IInv(oms) /\ Explains(oms) /\ venue \in VenueRecord
    BY <1>1 DEF EngineTyped, BookSound
  <2>2. p.id < oms.next /\ (p.id \in Working(oms) <=> p.id \notin expired)
    BY <1>1, <1>3 DEF WireSound
  <2>3. p.id \in Working(oms) =>
          /\ p.id \in Unanswered(oms)
          /\ oms.order[p.id].symbol = p.symbol /\ oms.order[p.id].side = p.side
    BY <1>1, <1>5 DEF WireSound, BookSound, TermsMatch
  <2>4. submitted' = submitted \cup {p.id}
    BY <1>4 DEF Dispatched
  <2> QED BY <1>2, <1>7, <1>8, <2>1, <2>2, <2>3, <2>4, DispatchBooks
<1>10. GivingUpHalts'
  BY <1>2, <1>4 DEF BookSound, GivingUpHalts, Dispatched
<1> QED BY <1>6, <1>9, <1>10 DEF BookSound
\* Creating an order explains what was explained, and gives the order its terms.
LEMMA CreateExplains ==
  ASSUME NEW o, IInv(o), Explains(o), NEW s \in Symbol, NEW d \in Side,
         NEW quantity \in Nat \ {0}, CanCreate(o, o.next, quantity)
  PROVE  LET n == Create(o, s, d, quantity)
         IN  /\ Explains(n)
             /\ n.order[o.next].symbol = s /\ n.order[o.next].side = d
<1> DEFINE n == Create(o, s, d, quantity)
<1>1. n.next > o.next /\ n.next \in Nat /\ o.next \in Nat
  BY CreateOpens DEF IInv, Sound, Typed
<1>2. /\ n.order[o.next].symbol = s /\ n.order[o.next].side = d
      /\ o.breaks \subseteq n.breaks
      /\ \A t : Booked(n.order, t) = Booked(o.order, t)
  BY CreateBooks
<1> HIDE DEF n
<1>3. FewOrders(n) => FewOrders(o)
  BY <1>1, OmsConstants DEF FewOrders, OmsConstants
<1> QED BY <1>2, <1>3 DEF Explains, n

\* An order that is created and dispatched at once, with nothing else on the wire.
LEMMA AtOnceBooks ==
  ASSUME EngineInv, BookSound, NEW s \in Symbol, NEW d \in Side,
         NEW quantity \in Nat \ {0}, CanCreate(oms, oms.next, quantity),
         NEW n \in Nat, NEW px \in Price,
         oms' = Answered(Create(oms, s, d, quantity), oms.next, n),
         venue' = ApplyPnl(venue, s, d, n, px), submitted' = submitted \cup {oms.next},
         expired' = expired, pending = << >>, pending' = pending,
         Halted(risk) => Halted(risk')
  PROVE  BookSound'
<1> DEFINE booked == Create(oms, s, d, quantity)
           id == oms.next
<1>1. /\ IInv(oms) /\ Typed(oms) /\ venue \in VenueRecord /\ id \in Nat \ {0}
      /\ id \notin expired /\ Explains(oms)
  BY DEF EngineInv, EngineTyped, WireSound, BookSound, IInv, Sound, Typed
<1>2. /\ IInv(booked) /\ id < booked.next /\ id \in Working(booked)
      /\ booked.order[id].state = "PendingNew"
  BY <1>1, CreateOpens
<1>3. Explains(booked) /\ booked.order[id].symbol = s /\ booked.order[id].side = d
  BY <1>1, CreateExplains
<1> HIDE DEF booked
<1>4. id \in Unanswered(booked)
  BY <1>2 DEF Working, Unanswered
<1>5. oms' = Answered(booked, id, n)
  BY DEF booked
<1>6. Explains(oms)'
  BY <1>1, <1>2, <1>3, <1>4, <1>5, DispatchBooks
<1>7. TermsMatch(pending, oms)'
  <2>1. DOMAIN pending = {}
    OBVIOUS
  <2> QED BY <2>1 DEF TermsMatch
<1>8. GivingUpHalts'
  BY DEF BookSound, GivingUpHalts
<1> QED BY <1>6, <1>7, <1>8 DEF BookSound

\* A signal keeps it, whatever becomes of it.
LEMMA SignalBooks ==
  ASSUME EngineInv, BookSound, NEW s \in Symbol, NEW d \in Side, NEW sane \in BOOLEAN,
         NEW reference \in Price, Signal(s, d, sane, reference)
  PROVE  BookSound'
<1> DEFINE verdict == Verdict(risk, oms, s, d, OrderQuantity, sane)
           checked == Checked(risk, verdict)
           id      == oms.next
           booked  == Create(oms, s, d, OrderQuantity)
           order   == [id |-> id, symbol |-> s, side |-> d, quantity |-> OrderQuantity,
                       reference |-> reference, wait |-> 0]
<1>1. /\ EngineTyped /\ GateSound(risk, venue) /\ WireSound /\ IInv(oms)
      /\ venue \in VenueRecord /\ risk \in RiskRecord /\ id \in Nat \ {0}
  BY DEF EngineInv, EngineTyped, IInv, Sound, Typed
<1>2. expired' = expired
  BY DEF Signal
<1>3. OrderQuantity \in Nat \ {0} /\ VenueLatency \in Nat
  BY TradingEngineConstants DEF TradingEngineConstants
<1>4. BookKept(risk, checked)
  BY <1>1, CheckedKeeps
<1>5. /\ order \in WireOrder /\ order.id = id /\ order.symbol = s /\ order.side = d
      /\ order.quantity = OrderQuantity
  BY <1>1, <1>3, TradingEngineConstants DEF WireOrder, TradingEngineConstants
<1>6. CASE verdict # "None"
  <2>1. risk' = checked /\ UNCHANGED <<stop, oms, pending, venue, journal, submitted>>
    BY <1>6 DEF Signal
  <2> HIDE DEF checked
  <2> QED BY <1>2, <1>4, <2>1, QuietBooks DEF BookKept
<1>7. CASE verdict = "None" /\ ~CanCreate(oms, id, OrderQuantity)
  <2>1. risk' = checked /\ oms' = booked /\ UNCHANGED <<stop, pending, venue, journal, submitted>>
    BY <1>7 DEF Signal
  <2>2. oms'.order = oms.order /\ oms'.next = oms.next /\ oms.breaks \subseteq oms'.breaks
    BY <1>1, <1>7, <2>1, RefusalCounts
  <2> HIDE DEF checked, booked
  <2> QED BY <1>2, <1>4, <2>1, <2>2, QuietBooks DEF BookKept
<1>8. CASE verdict = "None" /\ CanCreate(oms, id, OrderQuantity) /\ VenueLatency = 0
  <2>1. CompleteOrder(booked, checked, order) /\ pending' = pending
    BY <1>8 DEF Signal
  <2>2. IInv(booked) /\ id \in Unanswered(booked)
    BY <1>1, <1>3, <1>8, CreateOpens DEF Unanswered, Working
  <2>3. checked \in RiskRecord /\ GateSound(checked, venue)
    BY <1>1, <1>4 DEF BookKept, GateSound
  <2> HIDE DEF checked, order, booked
  <2>4. Halted(risk) => Halted(risk')
    <3>1. Dispatched(booked, checked, order.id)
      BY <1>1, <1>5, <2>1, <2>2, <2>3, CompleteOrderDispatches DEF EngineTyped
    <3> QED BY <1>4, <3>1 DEF Dispatched, BookKept
  <2>5. PICK n \in 0 .. OrderQuantity, px \in Price :
          /\ oms' = Answered(booked, id, n) /\ venue' = ApplyPnl(venue, s, d, n, px)
          /\ submitted' = submitted \cup {id}
    BY <1>5, <2>1 DEF CompleteOrder, Dispatch
  <2>6. n \in Nat
    BY <1>3
  <2>7. pending = << >>
    BY <1>1, <1>8 DEF WireSound
  <2> QED BY <1>2, <1>3, <1>8, <2>1, <2>4, <2>5, <2>6, <2>7, AtOnceBooks DEF booked
<1>9. CASE verdict = "None" /\ CanCreate(oms, id, OrderQuantity) /\ VenueLatency > 0
  <2>1. /\ risk' = checked /\ oms' = booked /\ pending' = Append(pending, order)
        /\ UNCHANGED <<stop, venue, journal, submitted>>
    <3>1. VenueLatency # 0
      BY <1>3, <1>9
    <3> QED BY <1>9, <3>1 DEF Signal
  <2>2. /\ Working(booked) = Working(oms) \cup {id} /\ id \notin Working(oms)
        /\ \A i \in Working(oms) : booked.order[i] = oms.order[i]
    BY <1>1, <1>3, <1>9, CreateOpens
  <2>3. Explains(booked) /\ booked.order[id].symbol = s /\ booked.order[id].side = d
    BY <1>1, <1>3, <1>9, CreateExplains DEF BookSound
  <2> HIDE DEF checked, booked, order
  <2>4. \A k \in DOMAIN pending' :
          \/ pending'[k] = order
          \/ k \in DOMAIN pending /\ pending'[k] = pending[k] /\ pending[k].id # id
    <3>1. pending \in Seq(WireOrder) /\ pending' = Append(pending, order)
      BY <1>1, <2>1 DEF EngineTyped
    <3>2. \A k \in DOMAIN pending' :
            pending'[k] = order \/ (k \in DOMAIN pending /\ pending'[k] = pending[k])
      BY <3>1
    <3>3. \A k \in DOMAIN pending : pending[k].id # id
      BY <1>1 DEF WireSound, Ids
    <3> QED BY <3>2, <3>3
  <2>5. TermsMatch(pending, oms)'
    BY <1>5, <2>1, <2>2, <2>3, <2>4 DEF BookSound, TermsMatch
  <2>6. Explains(oms)'
    BY <1>2, <2>1, <2>3 DEF Explains, held
  <2>7. GivingUpHalts'
    BY <1>2, <1>4, <2>1 DEF BookSound, GivingUpHalts, BookKept
  <2> QED BY <2>5, <2>6, <2>7 DEF BookSound
<1> QED BY <1>3, <1>6, <1>7, <1>8, <1>9

\* Closing an instrument at shutdown keeps it.
LEMMA FlattenBooks ==
  ASSUME EngineInv, BookSound, NEW s \in Symbol, Flatten(s)
  PROVE  BookSound'
<1> DEFINE d        == IF held[s] > 0 THEN "Sell" ELSE "Buy"
           quantity == Magnitude(held[s])
           id       == oms.next
           booked   == Create(oms, s, d, quantity)
<1>1. IInv(oms) /\ venue \in VenueRecord /\ risk \in RiskRecord /\ WireSound
  BY DEF EngineInv, EngineTyped
<1>2. pc = "flatten" /\ pending' = pending /\ expired' = expired
  BY DEF Flatten
<1>3. pending = << >>
  BY <1>1, <1>2 DEF WireSound
<1>4. d \in Side /\ quantity \in Nat
  <2>1. held[s] \in Int
    BY <1>1 DEF held, VenueRecord
  <2> QED BY <2>1 DEF Magnitude, Side
<1>5. CASE UNCHANGED <<stop, oms, risk, venue, journal, submitted>>
  BY <1>2, <1>5, QuietBooks
<1>6. CASE /\ ~CanCreate(oms, id, quantity) /\ oms' = booked
           /\ UNCHANGED <<stop, risk, venue, journal, submitted>>
  <2> HIDE DEF d, quantity
  <2>1. oms'.order = oms.order /\ oms'.next = oms.next /\ oms.breaks \subseteq oms'.breaks
    BY <1>1, <1>6, RefusalCounts
  <2> QED BY <1>2, <1>6, <2>1, QuietBooks
<1>7. CASE /\ CanCreate(oms, id, quantity)
           /\ \E n \in 0 .. quantity, px \in Price,
                 orderWritten \in Written, reportsWritten \in Written :
                /\ Dispatch(booked, id, s, d, n, px, orderWritten, reportsWritten)
                /\ risk' = OnFill(HaltedByJournal(risk, orderWritten, reportsWritten), s, d, n)
                /\ journal' = JournalSent(id, orderWritten)
  <2> HIDE DEF d, quantity
  <2>1. quantity \in Nat \ {0}
    BY <1>4, <1>7 DEF CanCreate
  <2>2. PICK n \in 0 .. quantity, px \in Price,
             orderWritten \in Written, reportsWritten \in Written :
          /\ oms' = Answered(booked, id, n) /\ venue' = ApplyPnl(venue, s, d, n, px)
          /\ submitted' = submitted \cup {id}
          /\ risk' = OnFill(HaltedByJournal(risk, orderWritten, reportsWritten), s, d, n)
    BY <1>7 DEF Dispatch
  <2>3. n \in Nat
    BY <1>4
  <2>4. Halted(risk) => Halted(risk')
    <3> DEFINE before == HaltedByJournal(risk, orderWritten, reportsWritten)
    <3>1. BookKept(risk, before)
      BY <1>1, HaltedByJournalKeeps
    <3> HIDE DEF before
    <3>2. before \in RiskRecord /\ GateSound(before, venue)
      BY <3>1 DEF BookKept, GateSound, EngineInv
    <3>3. risk'.halt = before.halt
      BY <1>1, <1>4, <2>2, <2>3, <3>2, OnFillAgrees DEF before
    <3> QED BY <3>1, <3>3 DEF BookKept, Halted
  <2> QED BY <1>2, <1>3, <1>4, <1>7, <2>1, <2>2, <2>3, <2>4, AtOnceBooks
<1> QED BY <1>5, <1>6, <1>7 DEF Flatten

\* Every step keeps it.
LEMMA NextBooks == EngineInv /\ BookSound /\ [Next]_vars => BookSound'
<1> SUFFICES ASSUME EngineInv, BookSound, [Next]_vars PROVE BookSound'
  OBVIOUS
<1>1. risk \in RiskRecord /\ journal \in JournalRecord /\ "Manual" \in HaltReason \ {"NotHalted"}
  BY DEF EngineInv, EngineTyped, HaltReason
<1>2. ASSUME UNCHANGED <<oms, pending, venue, submitted, expired>>,
             \/ UNCHANGED <<risk, journal>>
             \/ EngageFor("Manual")
      PROVE  BookSound'
  <2>1. Halted(risk) => Halted(risk')
    BY <1>1, <1>2, EngageForKeeps DEF BookKept
  <2> QED BY <1>2, <2>1, QuietBooks
<1>3. CASE Tick
  BY <1>3, TickBooks
<1>4. CASE Receive \/ Landed \/ NoSignal \/ NoticeStale \/ RequestStop \/ LeaveLoop \/ Shutdown
           \/ Flattened \/ Done \/ UNCHANGED vars
  BY <1>2, <1>4 DEF Receive, Landed, NoSignal, NoticeStale, RequestStop, LeaveLoop, Shutdown,
                    Flattened, Done, vars
<1>5. CASE Land
  BY <1>5, LandBooks
<1>6. ASSUME NEW s \in Symbol, NEW d \in Side, NEW sane \in BOOLEAN, NEW reference \in Price,
             Signal(s, d, sane, reference)
      PROVE  BookSound'
  BY <1>6, SignalBooks
<1>7. CASE BusySweep \/ EndRun
  BY <1>7, SweepBooks DEF BusySweep, EndRun
<1>8. CASE Idle
  <2>1. /\ UNCHANGED <<pending, venue, submitted>>
        /\ SweepOrders(risk) \/ UNCHANGED <<oms, risk, journal, expired>>
    BY <1>8 DEF Idle
  <2> QED BY <1>2, <2>1, SweepBooks
<1>9. ASSUME NEW s \in Symbol, Flatten(s) PROVE BookSound'
  BY <1>9, FlattenBooks
<1> QED BY <1>3, <1>4, <1>5, <1>6, <1>7, <1>8, <1>9 DEF Next

\* What the order manager books is what the venue holds, until an order that was given
\* up on the wire is answered; the answer is counted as a break, and trading has
\* stopped.  It is for an engine that halts on a timeout, and for as long as no order
\* has been evicted from the history, which takes an order's fills with its record.
THEOREM DifferenceIsAlwaysExplained ==
  ASSUME HaltOnTimeout
  PROVE  Spec => [](FewOrders(oms) => DifferenceIsExplained)
<1>1. BookSound => (FewOrders(oms) => DifferenceIsExplained)
  BY DEF BookSound, Explains, GivingUpHalts, DifferenceIsExplained, BookedIsHeld
<1>2. Init => BookSound
  BY InitBooks
<1>3. EngineInv /\ BookSound /\ [Next]_vars => BookSound'
  BY NextBooks
<1> QED BY <1>1, <1>2, <1>3, EngineInvariant, PTL DEF Spec
-----------------------------------------------------------------------------
(***************************************************************************)
(* Money.  AverageEntry divides whole numbers where the code divides       *)
(* doubles; this part is about runs in which that rounds nothing.          *)
(***************************************************************************)

\* The average price of what v holds of s comes out even.
ComesOutEven(v, s) ==
  v.position[s] # 0 =>
    AverageEntry(v, s) * Magnitude(v.position[s]) = Magnitude(v.cost[s])

NothingIsRounded == \A s \in Symbol : ComesOutEven(venue, s)

\* A long position has cost something, a short one brought something in.
OfOneSign(position, cost) == (position >= 0 => cost >= 0) /\ (position <= 0 => cost <= 0)

SignsAgree(v) == \A s \in Symbol : OfOneSign(v.position[s], v.cost[s])

\* A changed cost changes the outlay by as much.
LEMMA OutlayMoves ==
  ASSUME NEW cost \in [Symbol -> Int], NEW s \in Symbol, NEW x \in Int
  PROVE  /\ Outlay(cost) \in Int
         /\ Outlay([cost EXCEPT ![s] = x]) = Outlay(cost) - cost[s] + x
<1> DEFINE moved == [cost EXCEPT ![s] = x]
           up(k) == IF k > 0 THEN k ELSE 0
           a == [t \in Symbol |-> up(cost[t])]
           b == [t \in Symbol |-> up(moved[t])]
           c == [t \in Symbol |-> up(-cost[t])]
           e == [t \in Symbol |-> up(-moved[t])]
<1>1. IsFiniteSet(Symbol)
  BY OmsConstants DEF OmsConstants
<1>2. /\ \A t \in Symbol : cost[t] \in Int /\ moved[t] \in Int
      /\ \A t \in Symbol \ {s} : moved[t] = cost[t]
      /\ moved[s] = x
  OBVIOUS
<1> HIDE DEF moved
<1>3. ASSUME NEW k \in Int PROVE 1 .. k = 1 .. up(k) /\ up(k) \in Nat
  <2>1. CASE k > 0
    BY <2>1
  <2>2. CASE ~(k > 0)
    <3>1. 1 .. k = {} /\ 1 .. 0 = {} /\ up(k) = 0
      BY <2>2
    <3> QED BY <3>1
  <2> QED BY <2>1, <2>2
<1>4. ASSUME NEW k \in Int PROVE up(k) - up(-k) = k /\ -k \in Int
  <2>1. CASE k > 0
    <3>1. ~(-k > 0) /\ up(k) = k
      BY <2>1
    <3>2. up(-k) = 0
      BY <3>1
    <3> QED BY <3>1, <3>2
  <2>2. CASE k <= 0
    <3>1. up(k) = 0
      BY <2>2
    <3>2. up(-k) = -k
      BY <2>2
    <3> QED BY <3>1, <3>2
  <2> QED BY <2>1, <2>2
<1> HIDE DEF up
<1>5. /\ \A t \in Symbol : a[t] \in Nat /\ b[t] \in Nat /\ c[t] \in Nat /\ e[t] \in Nat
      /\ \A t \in Symbol \ {s} : b[t] = a[t] /\ e[t] = c[t]
      /\ a[s] - c[s] = cost[s] /\ b[s] - e[s] = x
  <2>1. \A t \in Symbol : -cost[t] \in Int /\ -moved[t] \in Int
    BY <1>2
  <2>2. up(cost[s]) - up(-cost[s]) = cost[s] /\ up(x) - up(-x) = x
    BY <1>2, <1>4
  <2> QED BY <1>2, <1>3, <2>1, <2>2
<1>6. /\ Outlay(cost) = Cardinality(Pile(Symbol, a)) - Cardinality(Pile(Symbol, c))
      /\ Outlay(moved) = Cardinality(Pile(Symbol, b)) - Cardinality(Pile(Symbol, e))
  <2>1. \A t \in Symbol : -cost[t] \in Int /\ -moved[t] \in Int
    BY <1>2
  <2>2. /\ \A t \in Symbol : 1 .. cost[t] = 1 .. a[t] /\ 1 .. -cost[t] = 1 .. c[t]
        /\ \A t \in Symbol : 1 .. moved[t] = 1 .. b[t] /\ 1 .. -moved[t] = 1 .. e[t]
    BY <1>2, <1>3, <2>1
  <2> HIDE DEF a, b, c, e
  <2>3. UNION {{t} \X (1 .. cost[t]) : t \in Symbol} = Pile(Symbol, a)
    <3>1. \A t \in Symbol : {t} \X (1 .. cost[t]) = {t} \X (1 .. a[t])
      BY <2>2
    <3>2. {{t} \X (1 .. cost[t]) : t \in Symbol} = {{t} \X (1 .. a[t]) : t \in Symbol}
      BY <3>1, Zenon
    <3> QED BY <3>2, Zenon DEF Pile
  <2>4. UNION {{t} \X (1 .. -cost[t]) : t \in Symbol} = Pile(Symbol, c)
    <3>1. \A t \in Symbol : {t} \X (1 .. -cost[t]) = {t} \X (1 .. c[t])
      BY <2>2
    <3>2. {{t} \X (1 .. -cost[t]) : t \in Symbol} = {{t} \X (1 .. c[t]) : t \in Symbol}
      BY <3>1, Zenon
    <3> QED BY <3>2, Zenon DEF Pile
  <2>5. UNION {{t} \X (1 .. moved[t]) : t \in Symbol} = Pile(Symbol, b)
    <3>1. \A t \in Symbol : {t} \X (1 .. moved[t]) = {t} \X (1 .. b[t])
      BY <2>2
    <3>2. {{t} \X (1 .. moved[t]) : t \in Symbol} = {{t} \X (1 .. b[t]) : t \in Symbol}
      BY <3>1, Zenon
    <3> QED BY <3>2, Zenon DEF Pile
  <2>6. UNION {{t} \X (1 .. -moved[t]) : t \in Symbol} = Pile(Symbol, e)
    <3>1. \A t \in Symbol : {t} \X (1 .. -moved[t]) = {t} \X (1 .. e[t])
      BY <2>2
    <3>2. {{t} \X (1 .. -moved[t]) : t \in Symbol} = {{t} \X (1 .. e[t]) : t \in Symbol}
      BY <3>1, Zenon
    <3> QED BY <3>2, Zenon DEF Pile
  <2> QED BY <2>3, <2>4, <2>5, <2>6, Zenon DEF Outlay
<1> HIDE DEF a, b, c, e
<1>8. /\ Cardinality(Pile(Symbol, a)) \in Nat /\ Cardinality(Pile(Symbol, c)) \in Nat
  BY <1>1, <1>5, PileFinite
<1>9. Cardinality(Pile(Symbol, b)) = Cardinality(Pile(Symbol, a)) - a[s] + b[s]
  BY <1>1, <1>5, PileUpdate
<1>10. Cardinality(Pile(Symbol, e)) = Cardinality(Pile(Symbol, c)) - c[s] + e[s]
  BY <1>1, <1>5, PileUpdate
<1> QED BY <1>5, <1>6, <1>8, <1>9, <1>10 DEF moved

\* Factors can be pulled out.
LEMMA Distributes ==
  ASSUME NEW a \in Int, NEW b \in Int, NEW c \in Int
  PROVE  /\ a * (b + c) = a * b + a * c /\ (a - b) * c = a * c - b * c
         /\ a * (-b) = -(a * b) /\ a * b \in Int /\ a * c \in Int /\ b * c \in Int
OBVIOUS

\* An average that comes out even gives the cost back.
LEMMA CostAtAverage ==
  ASSUME NEW v \in VenueRecord, NEW s \in Symbol, v.position[s] # 0
  PROVE  /\ AverageEntry(v, s) \in Nat
         /\ ComesOutEven(v, s) /\ OfOneSign(v.position[s], v.cost[s]) =>
              v.cost[s] = AverageEntry(v, s) * v.position[s]
<1> DEFINE prev == v.position[s]
           cost == v.cost[s]
           average == AverageEntry(v, s)
<1>1. prev \in Int /\ cost \in Int /\ prev # 0
  BY DEF VenueRecord
<1>2. average = Magnitude(cost) \div Magnitude(prev)
  BY DEF AverageEntry
<1>3. average \in Nat
  <2>1. Magnitude(cost) \in Nat /\ Magnitude(prev) \in Nat \ {0}
    BY <1>1 DEF Magnitude
  <2>2. \A a \in Nat, b \in Nat \ {0} : a \div b \in Nat
    OBVIOUS
  <2> HIDE DEF average, cost, prev
  <2> QED BY <1>2, <2>1, <2>2
<1>4. ASSUME average * Magnitude(prev) = Magnitude(cost), OfOneSign(prev, cost)
      PROVE  cost = average * prev
  <2> HIDE DEF average, cost, prev
  <2>1. average * (-prev) = -(average * prev) /\ average * prev \in Int
    BY <1>1, <1>3, Distributes
  <2>2. CASE prev > 0
    <3>1. Magnitude(prev) = prev /\ Magnitude(cost) = cost
      BY <1>1, <1>4, <2>2 DEF Magnitude, OfOneSign
    <3> QED BY <1>4, <3>1
  <2>3. CASE prev < 0
    <3>1. Magnitude(prev) = -prev /\ -cost = Magnitude(cost)
      BY <1>1, <1>4, <2>3 DEF Magnitude, OfOneSign
    <3>2. -cost = -(average * prev)
      BY <1>4, <2>1, <3>1
    <3> QED BY <1>1, <2>1, <3>2
  <2> QED BY <1>1, <2>2, <2>3
<1> QED BY <1>3, <1>4 DEF ComesOutEven

\* The product of natural numbers is one.
LEMMA NatProduct ==
  ASSUME NEW a \in Nat, NEW b \in Nat
  PROVE  a * b \in Nat
OBVIOUS

\* The product with a natural number keeps the sign.
LEMMA ProductSign ==
  ASSUME NEW a \in Nat, NEW b \in Int
  PROVE  a * b \in Int /\ OfOneSign(b, a * b)
<1>1. a * b \in Int
  BY ProductType
<1>2. CASE b >= 0
  <2>1. a * b \in Nat
    BY <1>2, NatProduct
  <2>2. b <= 0 => a * b = 0
    <3>1. b <= 0 => b = 0
      BY <1>2
    <3>2. a * 0 = 0
      OBVIOUS
    <3> QED BY <3>1, <3>2
  <2> QED BY <1>2, <2>1, <2>2 DEF OfOneSign
<1>3. CASE b < 0
  <2>1. -b \in Nat
    BY <1>3
  <2>2. a * (-b) \in Nat
    BY <2>1, NatProduct
  <2>3. a * (-b) = -(a * b)
    BY Distributes
  <2>4. a * b <= 0
    BY <1>1, <2>2, <2>3
  <2> QED BY <1>3, <2>4 DEF OfOneSign
<1> QED BY <1>2, <1>3

\* The cost keeps the sign of the position.
LEMMA CostKeepsSign ==
  ASSUME NEW v \in VenueRecord, NEW s \in Symbol, NEW signed \in Int, NEW px \in Nat,
         OfOneSign(v.position[s], v.cost[s])
  PROVE  OfOneSign(v.position[s] + signed, CostAfter(v, s, signed, px))
<1> DEFINE prev    == v.position[s]
           cost    == v.cost[s]
           new     == prev + signed
           average == AverageEntry(v, s)
           after   == CostAfter(v, s, signed, px)
<1>1. prev \in Int /\ cost \in Int /\ new \in Int /\ OfOneSign(prev, cost)
  BY DEF VenueRecord
<1>2. prev # 0 => average \in Nat
  BY CostAtAverage
<1>3. after = IF prev = 0 \/ (prev > 0) = (signed > 0) THEN cost + px * signed
              ELSE IF new = 0 \/ (new > 0) = (prev > 0) THEN average * new
              ELSE px * new
  BY DEF CostAfter
<1>4. px * signed \in Int /\ OfOneSign(signed, px * signed) /\ OfOneSign(new, px * new)
  BY <1>1, ProductSign
<1>5. prev # 0 => OfOneSign(new, average * new)
  BY <1>1, <1>2, ProductSign
<1>6. CASE prev = 0 \/ (prev > 0) = (signed > 0)
  <2> HIDE DEF prev, cost, average, after
  <2>1. after = cost + px * signed
    BY <1>3, <1>6
  <2>2. ASSUME NEW k \in Int, OfOneSign(signed, k) PROVE OfOneSign(new, cost + k)
    BY <1>1, <1>6, <2>2 DEF OfOneSign
  <2> QED BY <1>4, <2>1, <2>2 DEF after, prev
<1>7. CASE ~(prev = 0 \/ (prev > 0) = (signed > 0))
  <2> HIDE DEF prev, cost, average, after
  <2>1. after = average * new \/ after = px * new
    BY <1>3, <1>7
  <2> HIDE DEF new
  <2> QED BY <1>4, <1>5, <1>7, <2>1 DEF after, prev, new
<1> QED BY <1>6, <1>7

\* A fill keeps the signs.
LEMMA ApplyPnlKeepsSigns ==
  ASSUME NEW v \in VenueRecord, SignsAgree(v), NEW s \in Symbol, NEW d \in Side,
         NEW n \in Nat, NEW px \in Price
  PROVE  SignsAgree(ApplyPnl(v, s, d, n, px))
<1> DEFINE w == ApplyPnl(v, s, d, n, px)
           signed == Signed(d, n)
<1>1. CASE n = 0
  BY <1>1 DEF ApplyPnl
<1>2. CASE n # 0
  <2>1. v.position \in [Symbol -> Int] /\ v.cost \in [Symbol -> Int]
        /\ signed \in Int /\ px \in Nat
    BY PaperVenueConstants DEF VenueRecord, Signed, PaperVenueConstants
  <2>2. /\ w.position = [v.position EXCEPT ![s] = v.position[s] + signed]
        /\ w.cost = [v.cost EXCEPT ![s] = CostAfter(v, s, signed, px)]
    BY <1>2 DEF ApplyPnl
  <2> HIDE DEF w, signed
  <2>3. OfOneSign(v.position[s] + signed, CostAfter(v, s, signed, px))
    BY <2>1, CostKeepsSign DEF SignsAgree
  <2>4. ASSUME NEW t \in Symbol PROVE OfOneSign(w.position[t], w.cost[t])
    BY <2>1, <2>2, <2>3 DEF SignsAgree
  <2> QED BY <2>4 DEF SignsAgree, w
<1> QED BY <1>1, <1>2

\* What a fill earns less what it adds to the cost is what it brings in.
LEMMA GainCoversCost ==
  ASSUME NEW v \in VenueRecord, NEW s \in Symbol, NEW signed \in Int, NEW px \in Int,
         ComesOutEven(v, s), OfOneSign(v.position[s], v.cost[s])
  PROVE  /\ Realized(v, s, signed, px) \in Int /\ CostAfter(v, s, signed, px) \in Int
         /\ Realized(v, s, signed, px) - (CostAfter(v, s, signed, px) - v.cost[s]) =
              -(px * signed)
<1> DEFINE prev    == v.position[s]
           cost    == v.cost[s]
           new     == prev + signed
           average == AverageEntry(v, s)
           closing_ == Min({Magnitude(signed), Magnitude(prev)})
           sign    == IF prev > 0 THEN 1 ELSE -1
           gain    == Realized(v, s, signed, px)
           after   == CostAfter(v, s, signed, px)
<1>1. prev \in Int /\ cost \in Int
  BY DEF VenueRecord
<1>2. prev # 0 => average \in Int /\ cost = average * prev
  BY CostAtAverage
<1>3. gain = IF prev = 0 \/ (prev > 0) = (signed > 0) THEN 0
             ELSE (px - average) * closing_ * sign
  BY DEF Realized
<1>4. after = IF prev = 0 \/ (prev > 0) = (signed > 0) THEN cost + px * signed
              ELSE IF new = 0 \/ (new > 0) = (prev > 0) THEN average * new
              ELSE px * new
  BY DEF CostAfter
<1>5. closing_ = IF Magnitude(signed) <= Magnitude(prev) THEN Magnitude(signed) ELSE Magnitude(prev)
  <2>1. Magnitude(signed) \in Int /\ Magnitude(prev) \in Int
    BY <1>1 DEF Magnitude
  <2> QED BY <2>1, MinOfTwo
<1> HIDE DEF prev, cost, average, closing_, gain, after
<1>6. CASE prev = 0 \/ (prev > 0) = (signed > 0)
  <2>1. px * signed \in Int
    BY ProductType
  <2>2. gain = 0 /\ after = cost + px * signed
    BY <1>3, <1>4, <1>6
  <2> QED BY <1>1, <2>1, <2>2 DEF gain, after, cost
<1>7. CASE /\ prev # 0 /\ (prev > 0) # (signed > 0)
           /\ new = 0 \/ (new > 0) = (prev > 0)
  <2>1. closing_ * sign = -signed /\ closing_ \in Int
    BY <1>1, <1>5, <1>7 DEF Magnitude
  <2>2. gain = (px - average) * (-signed) /\ gain \in Int
    <3>1. gain = (px - average) * (closing_ * sign)
      BY <1>2, <1>3, <1>7, <2>1
    <3> QED BY <1>2, <1>7, <2>1, <3>1, ProductType
  <2>3. after = average * new
    BY <1>4, <1>7
  <2>4. /\ average * new = average * prev + average * signed
        /\ average * prev \in Int /\ average * signed \in Int
    BY <1>1, <1>2, <1>7, Distributes
  <2>5. gain = average * signed - px * signed /\ px * signed \in Int
    <3>1. (px - average) * signed = px * signed - average * signed
      BY <1>2, <1>7, Distributes
    <3>2. (px - average) * (-signed) = -((px - average) * signed)
      BY <1>2, <1>7, Distributes
    <3>3. px * signed \in Int
      BY ProductType
    <3> QED BY <2>2, <2>4, <3>1, <3>2, <3>3
  <2> HIDE DEF new
  <2> QED BY <1>2, <1>7, <2>2, <2>3, <2>4, <2>5 DEF gain, after, cost
<1>8. CASE /\ prev # 0 /\ (prev > 0) # (signed > 0)
           /\ ~(new = 0 \/ (new > 0) = (prev > 0))
  <2>1. closing_ * sign = prev /\ closing_ \in Int
    BY <1>1, <1>5, <1>8 DEF Magnitude
  <2>2. gain = (px - average) * prev /\ gain \in Int
    <3>1. gain = (px - average) * (closing_ * sign)
      BY <1>2, <1>3, <1>8, <2>1
    <3> QED BY <1>1, <1>2, <1>8, <2>1, <3>1, ProductType
  <2>3. after = px * new
    BY <1>4, <1>8
  <2>4. /\ px * new = px * prev + px * signed
        /\ px * prev \in Int /\ px * signed \in Int
    BY <1>1, Distributes
  <2>5. gain = px * prev - average * prev /\ average * prev \in Int
    BY <1>1, <1>2, <1>8, <2>2, Distributes
  <2> HIDE DEF new
  <2> QED BY <1>2, <1>8, <2>2, <2>3, <2>4, <2>5 DEF gain, after, cost
<1> QED BY <1>6, <1>7, <1>8

\* A fill conserves money.
LEMMA ApplyPnlConserves ==
  ASSUME NEW v \in VenueRecord, NEW s \in Symbol, NEW d \in Side, NEW n \in Nat,
         NEW px \in Price, v.realized - Outlay(v.cost) = v.cash, SignsAgree(v),
         ComesOutEven(v, s)
  PROVE  LET w == ApplyPnl(v, s, d, n, px) IN w.realized - Outlay(w.cost) = w.cash
<1> DEFINE w == ApplyPnl(v, s, d, n, px)
           signed == Signed(d, n)
           fee == Fee(px, n)
           after == CostAfter(v, s, signed, px)
           gain == Realized(v, s, signed, px)
           spent == px * signed
<1>1. /\ v.cost \in [Symbol -> Int] /\ v.cost[s] \in Int /\ v.realized \in Int /\ v.cash \in Int
      /\ px \in Int /\ FeeBps \in Int /\ signed \in Int
  BY PaperVenueConstants DEF PaperVenueConstants, VenueRecord, Signed
<1>2. fee \in Int
  <2> DEFINE a == px * n
             b == a * FeeBps
  <2>1. a \in Int
    BY <1>1, ProductType
  <2> HIDE DEF a
  <2>2. b \in Int
    BY <1>1, <2>1, ProductType
  <2> HIDE DEF b
  <2>3. b \div 10000 \in Int
    BY <2>2, QuotientType
  <2> QED BY <2>3 DEF Fee, a, b
<1>3. spent \in Int
  BY <1>1, ProductType
<1> HIDE DEF signed, fee
<1>4. gain \in Int /\ after \in Int /\ gain - (after - v.cost[s]) = -spent
  BY <1>1, GainCoversCost DEF SignsAgree
<1> HIDE DEF after, gain, spent
<1>5. /\ Outlay(v.cost) \in Int
      /\ Outlay([v.cost EXCEPT ![s] = after]) = Outlay(v.cost) - v.cost[s] + after
  BY <1>1, <1>4, OutlayMoves
<1>6. CASE n = 0
  BY <1>6 DEF ApplyPnl
<1>7. CASE n # 0
  <2>1. /\ w.cost = [v.cost EXCEPT ![s] = after]
        /\ w.realized = v.realized + gain - fee /\ w.cash = v.cash - spent - fee
    BY <1>7 DEF ApplyPnl, signed, fee, after, gain, spent
  <2> HIDE DEF w
  <2>2. w.realized - Outlay(w.cost) = w.cash
    BY <1>1, <1>2, <1>3, <1>4, <1>5, <2>1
  <2> QED BY <2>2 DEF w
<1> QED BY <1>6, <1>7

\* Every step either leaves the venue alone or fills some of one order.
LEMMA VenueMoves ==
  ASSUME EngineInv, [Next]_vars
  PROVE  \/ venue' = venue
         \/ \E s \in Symbol, d \in Side, n \in Nat, px \in Price :
              venue' = ApplyPnl(venue, s, d, n, px)
<1>1. venue \in VenueRecord /\ pending \in Seq(WireOrder) /\ NoIdTwice(pending)
  BY DEF EngineInv, EngineTyped, WireSound
<1> DEFINE Filled == \/ venue' = venue
                     \/ \E s \in Symbol, d \in Side, n \in Nat, px \in Price :
                          venue' = ApplyPnl(venue, s, d, n, px)
<1>2. ASSUME venue' = venue PROVE Filled
  BY <1>2
<1>3. ASSUME NEW s \in Symbol, NEW d \in Side, NEW n \in Nat, NEW px \in Price,
             venue' = ApplyPnl(venue, s, d, n, px)
      PROVE  Filled
  BY <1>3
<1> HIDE DEF Filled
<1>4. ASSUME Land PROVE Filled
  <2> DEFINE p == Head(pending)
  <2>1. pending # << >> /\ CompleteOrder(oms, risk, p)
    BY <1>4 DEF Land, Due
  <2>2. p \in WireOrder
    BY <1>1, <2>1, TakeHead
  <2> HIDE DEF p
  <2>3. PICK n \in 0 .. p.quantity, px \in Price :
          venue' = ApplyPnl(venue, p.symbol, p.side, n, px)
    BY <2>1 DEF CompleteOrder, Dispatch
  <2>4. p.symbol \in Symbol /\ p.side \in Side /\ n \in Nat
    BY <2>2 DEF WireOrder
  <2> QED BY <1>3, <2>3, <2>4
<1>5. ASSUME NEW s \in Symbol, NEW d \in Side, NEW sane \in BOOLEAN, NEW reference \in Price,
             Signal(s, d, sane, reference)
      PROVE  Filled
  <2> DEFINE order == [id |-> oms.next, symbol |-> s, side |-> d, quantity |-> OrderQuantity,
                       reference |-> reference, wait |-> 0]
             checked == Checked(risk, Verdict(risk, oms, s, d, OrderQuantity, sane))
             booked == Create(oms, s, d, OrderQuantity)
  <2>1. CASE venue' = venue
    BY <1>2, <2>1
  <2>2. CASE CompleteOrder(booked, checked, order)
    <3>1. order.symbol = s /\ order.side = d /\ order.quantity = OrderQuantity
      OBVIOUS
    <3> HIDE DEF order, booked, checked
    <3>2. PICK n \in 0 .. OrderQuantity, px \in Price : venue' = ApplyPnl(venue, s, d, n, px)
      BY <2>2, <3>1 DEF CompleteOrder, Dispatch
    <3>3. n \in Nat
      BY TradingEngineConstants DEF TradingEngineConstants
    <3> QED BY <1>3, <3>2, <3>3
  <2> QED BY <1>5, <2>1, <2>2 DEF Signal
<1>6. ASSUME NEW s \in Symbol, Flatten(s) PROVE Filled
  <2> DEFINE d == IF held[s] > 0 THEN "Sell" ELSE "Buy"
             quantity == Magnitude(held[s])
  <2>1. d \in Side /\ quantity \in Nat
    <3>1. held[s] \in Int
      BY <1>1 DEF held, VenueRecord
    <3> QED BY <3>1 DEF Side, Magnitude
  <2>2. CASE venue' = venue
    BY <1>2, <2>2
  <2>3. CASE \E n \in 0 .. quantity, px \in Price : venue' = ApplyPnl(venue, s, d, n, px)
    <3> HIDE DEF d, quantity
    <3>1. PICK n \in 0 .. quantity, px \in Price : venue' = ApplyPnl(venue, s, d, n, px)
      BY <2>3
    <3>2. n \in Nat
      BY <2>1
    <3> QED BY <1>3, <2>1, <3>1, <3>2
  <2> QED BY <1>6, <2>2, <2>3 DEF Flatten, Dispatch
<1>7. ASSUME \/ Tick \/ Receive \/ Landed \/ NoSignal \/ BusySweep \/ NoticeStale \/ Idle
             \/ RequestStop \/ LeaveLoop \/ EndRun \/ Shutdown \/ Flattened \/ Done
             \/ UNCHANGED vars
      PROVE  venue' = venue
  BY <1>7 DEF Tick, Receive, Landed, NoSignal, BusySweep, NoticeStale, Idle, RequestStop,
              LeaveLoop, EndRun, Shutdown, Flattened, Done, vars
<1>8. Filled
  BY <1>2, <1>4, <1>5, <1>6, <1>7 DEF Next
<1> QED BY <1>8 DEF Filled

\* Every step keeps the signs, and conserves money if nothing is rounded.
LEMMA NextConserves ==
  ASSUME EngineInv, SignsAgree(venue), [Next]_vars
  PROVE  /\ SignsAgree(venue')
         /\ NothingIsRounded /\ MoneyIsConserved => MoneyIsConserved'
<1>1. venue \in VenueRecord
  BY DEF EngineInv, EngineTyped
<1>2. CASE venue' = venue
  BY <1>2 DEF MoneyIsConserved
<1>3. ASSUME NEW s \in Symbol, NEW d \in Side, NEW n \in Nat, NEW px \in Price,
             venue' = ApplyPnl(venue, s, d, n, px)
      PROVE  /\ SignsAgree(venue')
             /\ NothingIsRounded /\ MoneyIsConserved => MoneyIsConserved'
  <2>1. SignsAgree(venue')
    BY <1>1, <1>3, ApplyPnlKeepsSigns
  <2>2. ASSUME NothingIsRounded, MoneyIsConserved PROVE MoneyIsConserved'
    BY <1>1, <1>3, <2>2, ApplyPnlConserves DEF MoneyIsConserved, NothingIsRounded
  <2> QED BY <2>1, <2>2
<1> QED BY <1>2, <1>3, VenueMoves

\* As long as no average price is rounded, what was paid and received is what the venue
\* says it has earned and what its positions cost, over any fills that open, add to,
\* reduce, close and flip positions, for all prices, fees and instruments.
THEOREM MoneyIsKept == Spec /\ []NothingIsRounded => []MoneyIsConserved
<1>1. Init => MoneyIsConserved /\ SignsAgree(venue)
  <2> SUFFICES ASSUME Init PROVE MoneyIsConserved /\ SignsAgree(venue)
    OBVIOUS
  <2>1. venue = InitVenue
    BY DEF Init
  <2>2. \A s \in Symbol : venue.cost[s] = 0 /\ venue.position[s] = 0
    BY <2>1 DEF InitVenue
  <2>3. Outlay(venue.cost) = Cardinality({}) - Cardinality({})
    <3>1. \A s \in Symbol : {s} \X (1 .. venue.cost[s]) = {} /\ {s} \X (1 .. -venue.cost[s]) = {}
      <4>1. 1 .. 0 = {} /\ 1 .. -0 = {}
        OBVIOUS
      <4> QED BY <2>2, <4>1
    <3>2. /\ UNION {{s} \X (1 .. venue.cost[s]) : s \in Symbol} = {}
          /\ UNION {{s} \X (1 .. -venue.cost[s]) : s \in Symbol} = {}
      BY <3>1, Zenon
    <3> QED BY <3>2, Zenon DEF Outlay
  <2>4. MoneyIsConserved
    <3>1. venue.realized = 0 /\ venue.cash = 0
      BY <2>1 DEF InitVenue
    <3>2. Cardinality({}) - Cardinality({}) = 0
      BY FS_EmptySet
    <3> QED BY <2>3, <3>1, <3>2, FS_EmptySet DEF MoneyIsConserved
  <2> QED BY <2>2, <2>4 DEF SignsAgree, OfOneSign
<1>2. EngineInv /\ SignsAgree(venue) /\ [Next]_vars => SignsAgree(venue)'
  BY NextConserves
<1>3. /\ EngineInv /\ SignsAgree(venue) /\ NothingIsRounded /\ MoneyIsConserved /\ [Next]_vars
      => MoneyIsConserved'
  BY NextConserves
<1> QED BY <1>1, <1>2, <1>3, EngineInvariant, PTL DEF Spec
=============================================================================
