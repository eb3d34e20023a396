-------------------------- MODULE OrderManagerProofs --------------------------
(***************************************************************************)
(* Theorems about the order manager as a state machine, for every number   *)
(* of symbols and ids, every quantity, cap, history and timeout.  They     *)
(* assume StrictSnapshots: adopt() takes a snapshot whose filled and       *)
(* leaves do not add up to its quantity as it is, and its leaves are then  *)
(* not what was not filled.                                                *)
(***************************************************************************)
EXTENDS OrderManager, OmsProofs

\* What the venue hands over is an order that still works there.
LEMMA SnapshotsAreOpen ==
  ASSUME NEW snap \in Snapshot
  PROVE  OpenSnapshot(snap)
BY OrderManagerConstants DEF OrderManagerConstants, OpenSnapshot, Snapshot, Id, Quantity

\* The reports of the state machine are of a known kind.
LEMMA ReportsAreReports ==
  ASSUME NEW rep \in ExecutionReport
  PROVE  ReadableReport(rep)
BY OrderManagerConstants DEF OrderManagerConstants, ExecutionReport, ReadableReport

\* The invariant holds initially.
LEMMA SoundInit == Init => IInv(oms)
BY InitSound DEF Init

\* Every step preserves the invariant.
LEMMA SoundStep ==
  ASSUME StrictSnapshots
  PROVE  IInv(oms) /\ [Next]_oms => IInv(oms)'
<1> SUFFICES ASSUME IInv(oms), [Next]_oms
             PROVE  IInv(oms')
  OBVIOUS
<1>1. ASSUME NEW s \in Symbol, NEW d \in Side, NEW quantity \in Quantity,
             CreateOrder(s, d, quantity)
      PROVE  IInv(oms')
  <2>1. oms.next \in Nat /\ quantity \in Nat \ {0}
    BY OrderManagerConstants DEF OrderManagerConstants, Quantity, IInv, Sound, Typed
  <2> QED BY <1>1, <2>1, CreateKeeps DEF CreateOrder, Create
<1>2. ASSUME NEW snap \in Snapshot, AdoptOrder(snap) PROVE IInv(oms')
  <2>1. OpenSnapshot(snap) /\ snap.filled + snap.leaves = snap.quantity
    BY SnapshotsAreOpen DEF Snapshot
  <2> QED BY <1>2, <2>1, AdoptKeeps DEF AdoptOrder
<1>3. ASSUME NEW n \in Id, MoveNextId(n) PROVE IInv(oms')
  BY <1>3, SetNextIdKeeps, OrderManagerConstants DEF OrderManagerConstants, Id, MoveNextId
<1>4. ASSUME NEW rep \in ExecutionReport, ApplyReport(rep) PROVE IInv(oms')
  BY <1>4, ReportsAreReports, ApplyKeeps DEF ApplyReport
<1>5. ASSUME NEW id \in Id, CancelOrder(id) PROVE IInv(oms')
  BY <1>5, RequestCancelKeeps DEF CancelOrder
<1>6. CASE Sweep
  BY <1>6, SweepKeeps DEF Sweep
<1>7. CASE ClearAll
  BY <1>7, InitSound DEF ClearAll
<1>8. CASE Tick
  BY <1>8, OlderKeeps DEF Tick
<1>9. CASE UNCHANGED oms
  BY <1>9
<1> QED BY <1>1, <1>2, <1>3, <1>4, <1>5, <1>6, <1>7, <1>8, <1>9 DEF Next

\* Every step but clear() advances.
LEMMA AdvanceStep ==
  ASSUME IInv(oms), Next
  PROVE  Advances(oms, oms') \/ Cleared
<1>1. /\ Typed(oms)
      /\ DOMAIN oms = {"order", "retired", "open", "next", "exposure", "gross", "breaks"}
      /\ oms.next \in Nat
  BY DEF IInv, Sound, Typed
<1>2. ASSUME NEW s \in Symbol, NEW d \in Side, NEW quantity \in Quantity,
             CreateOrder(s, d, quantity)
      PROVE  Advances(oms, oms')
  <2> DEFINE n == CreateWithId(oms, oms.next, s, d, quantity)
  <2>1. oms' = n
    BY <1>2 DEF CreateOrder, Create
  <2>2. /\ oms.next <= n.next /\ (oms.next \in Tracked(n) => oms.next < n.next)
        /\ Tracked(oms) \subseteq Tracked(n) /\ Tracked(n) \subseteq Tracked(oms) \cup {oms.next}
        /\ \A i \in Tracked(oms) : n.order[i] = oms.order[i]
    BY <1>1, CreateAdvances
  <2> HIDE DEF n
  <2>3. Advances(oms, n)
    BY <2>2, <1>1 DEF Advances, Finished, Unanswered
  <2> QED BY <2>1, <2>3
<1>3. ASSUME NEW snap \in Snapshot, AdoptOrder(snap) PROVE Advances(oms, oms')
  BY <1>3, SnapshotsAreOpen, AdoptAdvances DEF AdoptOrder
<1>4. ASSUME NEW k \in Id, MoveNextId(k) PROVE Advances(oms, oms')
  <2>1. oms'.order = oms.order /\ oms'.next = IF k > oms.next THEN k ELSE oms.next
    BY <1>1, <1>4 DEF MoveNextId, SetNextId
  <2>2. k \in Nat
    BY OrderManagerConstants DEF OrderManagerConstants, Id
  <2> QED BY <2>1, <2>2, <1>1 DEF Advances, Unanswered, Finished, Tracked
<1>5. ASSUME NEW rep \in ExecutionReport, ApplyReport(rep) PROVE Advances(oms, oms')
  BY <1>5, ReportsAreReports, ApplyAdvances DEF ApplyReport
<1>6. ASSUME NEW id \in Id, CancelOrder(id) PROVE Advances(oms, oms')
  <2>1. CASE ~Cancellable(oms, id)
    BY <1>1, <1>6, <2>1 DEF CancelOrder, RequestCancel, Advances, Unanswered, Finished
  <2>2. CASE Cancellable(oms, id)
    <3>1. {id} \in SUBSET Working(oms)
      BY <2>2 DEF Cancellable, Working, Live
    <3>2. Within(oms, oms', {id})
      BY <1>1, <1>6, <2>2, SetStateWithin DEF CancelOrder, RequestCancel
    <3> QED BY <1>1, <3>1, <3>2, WithinAdvances
  <2> QED BY <2>1, <2>2
<1>7. CASE Sweep
  <2>1. PICK walk \in WalkOrders(Overdue(oms)) : oms' = Retire(oms, walk, "Expired")
    BY <1>7 DEF Sweep, SweepTimeouts
  <2>2. Range(walk) \in SUBSET Working(oms)
    BY DEF WalkOrders, Overdue, Unanswered, Working, Live
  <2> QED BY <1>1, <2>1, <2>2, RetireWithin, WithinAdvances
<1>8. CASE ClearAll
  BY <1>8 DEF ClearAll, Cleared
<1>9. CASE Tick
  <2>1. oms'.next = oms.next /\ Tracked(oms') = Tracked(oms)
        /\ \A i \in Tracked(oms) \ Unanswered(oms) : oms'.order[i] = oms.order[i]
    BY <1>1, <1>9 DEF Tick, Older, Tracked
  <2>2. Unanswered(oms) \in SUBSET Working(oms)
    BY DEF Unanswered, Working, Live
  <2>3. Within(oms, oms', Unanswered(oms))
    BY <2>1 DEF Within
  <2> QED BY <1>1, <2>2, <2>3, WithinAdvances
<1> QED BY <1>2, <1>3, <1>4, <1>5, <1>6, <1>7, <1>8, <1>9 DEF Next

-----------------------------------------------------------------------------

\* The inductive invariant holds in every reachable state.
THEOREM AlwaysSound ==
  ASSUME StrictSnapshots
  PROVE  Spec => []IInv(oms)
BY SoundInit, SoundStep, PTL DEF Spec

\* Every reachable state is well formed; in particular open_count_, the exposure
\* entries and the gross total never go negative (oms.cpp:169-189, 305-327).
THEOREM TypeCorrect ==
  ASSUME StrictSnapshots
  PROVE  Spec => []TypeOK
<1>1. IInv(oms) => TypeOK
  <2> SUFFICES ASSUME IInv(oms) PROVE TypeOK
    OBVIOUS
  <2>1. oms.gross \in Nat
    BY GrossType DEF IInv, Sound, Typed, Exact
  <2> QED BY <2>1 DEF IInv, Sound, Typed, TypeOK
<1> QED BY <1>1, AlwaysSound, PTL

\* working_quantity() and gross_working_exposure() are exact, whatever is called
\* in whatever order and whatever the venue reports: the clamps at zero never bite
\* and the incremental totals never drift (oms.cpp:169-189, 389-408).
THEOREM ExposureIsExact ==
  ASSUME StrictSnapshots
  PROVE  Spec => [](ExposureExact /\ GrossExact)
<1>1. IInv(oms) => ExposureExact /\ GrossExact
  BY DEF IInv, Sound, Exact, ExposureExact, GrossExact
<1> QED BY <1>1, AlwaysSound, PTL

\* leaves_quantity is what was not filled while the order works and zero once it
\* is finished, and an excess fill is always counted (oms.cpp:389-419).
THEOREM LeavesAreExact ==
  ASSUME StrictSnapshots
  PROVE  Spec => []LeavesExact
<1>1. IInv(oms) => LeavesExact
  BY DEF IInv, Sound, Settled, Flagged, LeavesExact
<1> QED BY <1>1, AlwaysSound, PTL

\* The retired ring lists exactly the finished orders, open_count_ counts exactly
\* the others, and below the cap on open orders a slot is always free: the
\* eviction in create_with_id() is never needed (oms.cpp:223-237, 305-327).
THEOREM BooksAlwaysBalance ==
  ASSUME StrictSnapshots
  PROVE  Spec => [](BooksBalance /\ RoomForEveryOpenOrder)
<1>1. IInv(oms) => BooksBalance
  <2> SUFFICES ASSUME IInv(oms) PROVE BooksBalance
    OBVIOUS
  <2>1. Cardinality(Range(oms.retired)) = Len(oms.retired)
    BY CountOnce DEF IInv, Sound, Typed, Books
  <2> QED BY <2>1 DEF IInv, Sound, Books, BooksBalance
<1>2. IInv(oms) => RoomForEveryOpenOrder
  BY RoomForOneMore DEF RoomForEveryOpenOrder
<1> QED BY <1>1, <1>2, AlwaysSound, PTL

\* A terminal order never changes again (oms.hpp:52-53), whatever arrives late.
THEOREM FinishedStayFinished ==
  ASSUME StrictSnapshots
  PROVE  Spec => TerminalIsFinal
<1>1. IInv(oms) /\ [Next]_oms =>
        [\A i \in Finished(oms) \cap Tracked(oms)' : oms'.order[i] = oms.order[i]]_oms
  <2> SUFFICES ASSUME IInv(oms), Next, NEW i \in Finished(oms) \cap Tracked(oms')
               PROVE  oms'.order[i] = oms.order[i]
    OBVIOUS
  <2>1. ~Cleared
    BY DEF Cleared, Tracked, InitOms
  <2> QED BY <2>1, AdvanceStep DEF Advances
<1> QED BY <1>1, AlwaysSound, PTL DEF Spec, TerminalIsFinal

\* Whatever enters PendingNew has an id above every id issued, adopted or skipped
\* before, and only clear() moves the sequence back (oms.hpp:192-197).
THEOREM IdsAreNeverIssuedTwice ==
  ASSUME StrictSnapshots
  PROVE  Spec => IssuedIdsAreUnique
<1>1. IInv(oms) /\ [Next]_oms =>
        [\/ Cleared
         \/ /\ oms'.next >= oms.next
            /\ \A i \in Unanswered(oms)' \ Tracked(oms) : oms.next <= i /\ i < oms'.next]_oms
  BY AdvanceStep DEF Advances
<1> QED BY <1>1, AlwaysSound, PTL DEF Spec, IssuedIdsAreUnique

-----------------------------------------------------------------------------

\* Every step but clear() remembers every working order, save the ones that a
\* sweep expires when it expires more of them than the history holds.
LEMMA RememberStep ==
  ASSUME IInv(oms), Next, NEW i \in Working(oms)
  PROVE  \/ Cleared
         \/ SameOrder(oms, oms', i)
         \/ i \in Overdue(oms) /\ Cardinality(Overdue(oms)) > RetiredHistory
<1>1. /\ Typed(oms) /\ Books(oms) /\ i \in Tracked(oms)
      /\ DOMAIN oms = {"order", "retired", "open", "next", "exposure", "gross", "breaks"}
      /\ oms.next \in Nat
  BY DEF IInv, Sound, Typed, Working
<1>2. ASSUME NEW s \in Symbol, NEW d \in Side, NEW quantity \in Quantity,
             CreateOrder(s, d, quantity)
      PROVE  SameOrder(oms, oms', i)
  <2> DEFINE n == CreateWithId(oms, oms.next, s, d, quantity)
  <2>1. oms' = n
    BY <1>2 DEF CreateOrder, Create
  <2>2. Tracked(oms) \subseteq Tracked(n) /\ \A j \in Tracked(oms) : n.order[j] = oms.order[j]
    BY <1>1, CreateAdvances
  <2> HIDE DEF n
  <2>3. SameOrder(oms, n, i)
    BY <1>1, <2>2, UntouchedIsSame
  <2> QED BY <2>1, <2>3
<1>3. ASSUME NEW snap \in Snapshot, AdoptOrder(snap) PROVE SameOrder(oms, oms', i)
  <2>1. i \in Tracked(Adopt(oms, snap)) /\ Adopt(oms, snap).order[i] = oms.order[i]
    BY <1>1, SnapshotsAreOpen, AdoptRemembers
  <2>2. SameOrder(oms, Adopt(oms, snap), i)
    BY <1>1, <2>1, UntouchedIsSame
  <2> QED BY <1>3, <2>2 DEF AdoptOrder
<1>4. ASSUME NEW k \in Id, MoveNextId(k) PROVE SameOrder(oms, oms', i)
  <2>1. oms'.order = oms.order
    BY <1>1, <1>4 DEF MoveNextId, SetNextId
  <2> QED BY <1>1, <2>1, UntouchedIsSame DEF Tracked
<1>5. ASSUME NEW rep \in ExecutionReport, ApplyReport(rep) PROVE SameOrder(oms, oms', i)
  BY <1>5, ReportsAreReports, ApplyRemembers DEF ApplyReport
<1>6. ASSUME NEW id \in Id, CancelOrder(id) PROVE SameOrder(oms, oms', i)
  <2>1. CASE ~Cancellable(oms, id)
    BY <1>1, <1>6, <2>1, UntouchedIsSame DEF CancelOrder, RequestCancel
  <2>2. CASE Cancellable(oms, id)
    BY <1>1, <1>6, <2>2, SetStateRemembers DEF CancelOrder, RequestCancel, Cancellable
  <2> QED BY <2>1, <2>2
<1>7. CASE Sweep
  <2> DEFINE S == Overdue(oms)
  <2>1. PICK walk \in WalkOrders(S) : oms' = Retire(oms, walk, "Expired")
    BY <1>7 DEF Sweep, SweepTimeouts
  <2>2. S \subseteq Working(oms) /\ S \subseteq Tracked(oms) /\ S \subseteq Nat \ {0}
    BY <1>1 DEF Overdue, Unanswered, Working, Live, Typed
  <2>3. IsFiniteSet(S) /\ Cardinality(S) \in Nat
    BY <1>1, <2>2, FS_Subset, FS_CardinalityType DEF Typed
  <2> HIDE DEF S
  <2>4. /\ walk \in [1 .. Cardinality(S) -> S] /\ Range(walk) = S /\ NoRepeats(walk)
    BY <2>3, EnumerationOnce DEF WalkOrders
  <2>5. walk \in Seq(Nat \ {0}) /\ Len(walk) = Cardinality(S)
    <3>1. walk \in [1 .. Cardinality(S) -> Nat \ {0}]
      BY <2>2, <2>4
    <3> QED BY <3>1, <2>3
  <2>6. i \notin Range(walk) \/ Len(walk) <= RetiredHistory => SameOrder(oms, oms', i)
    BY <1>1, <2>1, <2>2, <2>4, <2>5, RetireRemembers DEF Terminal
  <2>7. CASE i \in S /\ Cardinality(S) > RetiredHistory
    BY <2>7 DEF S
  <2>8. CASE ~(i \in S /\ Cardinality(S) > RetiredHistory)
    BY <2>3, <2>4, <2>5, <2>6, <2>8, OmsConstants DEF OmsConstants
  <2> QED BY <2>7, <2>8
<1>8. CASE ClearAll
  BY <1>8 DEF ClearAll, Cleared
<1>9. CASE Tick
  <2>1. oms'.order[i].filled = oms.order[i].filled /\ oms.order[i].filled \in Nat
    BY <1>1, <1>9, OlderRemembers DEF Tick, Typed, OrderRecord
  <2>2. /\ i \in Tracked(oms')
        /\ \A f \in {"symbol", "side", "quantity"} : oms'.order[i][f] = oms.order[i][f]
    BY <1>1, <1>9, OlderRemembers DEF Tick
  <2> QED BY <2>1, <2>2 DEF SameOrder
<1> QED BY <1>2, <1>3, <1>4, <1>5, <1>6, <1>7, <1>8, <1>9 DEF Next

\* A working order is never dropped from the index while it works: what the
\* history forgets to make room are finished orders, and the one exception is a
\* sweep that expires more orders at once than the history holds (oms.cpp:305-327).
THEOREM WorkingOrdersAreRemembered ==
  ASSUME StrictSnapshots
  PROVE  Spec => WorkingIsNeverForgotten
<1>1. IInv(oms) /\ [Next]_oms =>
        [\/ Cleared
         \/ \A i \in Working(oms) :
              \/ /\ i \in Tracked(oms)'
                 /\ \A f \in {"symbol", "side", "quantity"} :
                      oms'.order[i][f] = oms.order[i][f]
                 /\ oms'.order[i].filled >= oms.order[i].filled
              \/ i \in Overdue(oms) /\ Cardinality(Overdue(oms)) > RetiredHistory]_oms
  BY RememberStep DEF SameOrder
<1> QED BY <1>1, AlwaysSound, PTL DEF Spec, WorkingIsNeverForgotten

-----------------------------------------------------------------------------
(***************************************************************************)
(* The order manager implements the ledger.                                *)
(***************************************************************************)

\* The working orders and what each has left: the ledger's book.
BookOf(o) ==
  [i \in Working(o) |-> [symbol |-> o.order[i].symbol,
                         side   |-> o.order[i].side,
                         leaves |-> o.order[i].leaves]]

\* What the steps of the ledger do to its book.
Opened(old, new) ==
  \E i \in DOMAIN new \ DOMAIN old :
    /\ DOMAIN new = DOMAIN old \cup {i}
    /\ \A j \in DOMAIN old : new[j] = old[j]

Worked(old, new) ==
  /\ DOMAIN new = DOMAIN old
  /\ \E i \in DOMAIN old :
       /\ new[i].symbol = old[i].symbol /\ new[i].side = old[i].side
       /\ new[i].leaves < old[i].leaves
       /\ \A j \in DOMAIN old \ {i} : new[j] = old[j]

ClosedOrSame(old, new) ==
  /\ DOMAIN new \subseteq DOMAIN old
  /\ \A i \in DOMAIN new : new[i] = old[i]

BookStep(o, n) ==
  \/ Opened(BookOf(o), BookOf(n))
  \/ Worked(BookOf(o), BookOf(n))
  \/ ClosedOrSame(BookOf(o), BookOf(n))

\* The exposure is the total of the book: finished orders have nothing left, so
\* the lots of all the records are the lots of the working ones.
LEMMA ExposureIsTotal ==
  ASSUME NEW o, IInv(o)
  PROVE  o.exposure = ledger!ExposureOf(BookOf(o))
<1> DEFINE b == BookOf(o)
<1>1. DOMAIN b = Working(o) /\ Working(o) \subseteq Tracked(o)
  BY DEF BookOf, Working
<1>2. \A i \in Working(o) : /\ b[i].symbol = o.order[i].symbol /\ b[i].side = o.order[i].side
                            /\ b[i].leaves = o.order[i].leaves
  BY DEF BookOf
<1>3. \A i \in Tracked(o) \ Working(o) : 1 .. o.order[i].leaves = {}
  <2>1. \A i \in Tracked(o) \ Working(o) : o.order[i].leaves = 0
    BY DEF IInv, Sound, Settled, Working
  <2> QED BY <2>1
<1> HIDE DEF b
<1>4. ASSUME NEW s \in Symbol, NEW d \in Side
      PROVE  ledger!Total(b, s, d) = o.exposure[s][d]
  <2>1. UNION {{i} \X (1 .. b[i].leaves) : i \in {j \in DOMAIN b : b[j].symbol = s /\ b[j].side = d}}
          = Lots(o.order, s, d)
    BY <1>1, <1>2, <1>3 DEF Lots, Tracked
  <2>2. ledger!Total(b, s, d) = Cardinality(Lots(o.order, s, d))
    BY <2>1 DEF ledger!Total, ledger!Cardinality, Cardinality
  <2>3. o.exposure[s][d] = Cardinality(Lots(o.order, s, d))
    BY DEF IInv, Sound, Exact
  <2> QED BY <2>2, <2>3
<1>5. o.exposure \in [Symbol -> [Side -> Nat]]
  BY DEF IInv, Sound, Typed
<1> QED BY <1>4, <1>5 DEF ledger!ExposureOf, b

\* Records that agree on the terms of the working orders agree on the book.
LEMMA SameBook ==
  ASSUME NEW o, NEW n, Working(n) \subseteq Working(o),
         \A i \in Working(n) :
           /\ n.order[i].symbol = o.order[i].symbol /\ n.order[i].side = o.order[i].side
           /\ n.order[i].leaves = o.order[i].leaves
  PROVE  BookStep(o, n)
BY DEF BookStep, ClosedOrSame, BookOf

\* One more working order, and the others untouched.
LEMMA OneMoreInBook ==
  ASSUME NEW o, NEW n, NEW x, x \notin Tracked(o), Tracked(n) = Tracked(o) \cup {x},
         x \in Working(n), \A i \in Tracked(o) : n.order[i] = o.order[i]
  PROVE  BookStep(o, n)
<1>1. Working(n) = Working(o) \cup {x} /\ x \notin Working(o)
  BY DEF Working
<1>2. \A i \in Working(o) : BookOf(n)[i] = BookOf(o)[i]
  BY <1>1 DEF BookOf, Working
<1>3. DOMAIN BookOf(n) = Working(n) /\ DOMAIN BookOf(o) = Working(o)
  BY DEF BookOf
<1>4. Opened(BookOf(o), BookOf(n))
  BY <1>1, <1>2, <1>3 DEF Opened
<1> QED BY <1>4 DEF BookStep

\* Whatever apply() makes of a report is a step of the ledger or none.
LEMMA ApplyIsBookStep ==
  ASSUME NEW o, IInv(o), NEW rep, ReadableReport(rep)
  PROVE  BookStep(o, Apply(o, rep))
<1> DEFINE n == Apply(o, rep)
           x == rep.id
           q == rep.quantity
           hit == Execute(o, x, q)
<1>1. /\ Typed(o) /\ Books(o) /\ Working(o) \subseteq Tracked(o)
      /\ DOMAIN o = {"order", "retired", "open", "next", "exposure", "gross", "breaks"}
  BY DEF IInv, Sound, Typed, Working
<1>2. ASSUME NEW kind \in Breaks, n = Count(o, kind) PROVE BookStep(o, n)
  <2>1. n.order = o.order
    BY <1>1, <1>2 DEF Count
  <2> QED BY <2>1, SameBook DEF Working, Tracked
<1>3. ASSUME x \in Working(o), NEW state \in Live, n = SetState(o, x, state)
      PROVE  BookStep(o, n)
  <2>1. /\ Tracked(n) = Tracked(o) /\ x \in Tracked(o)
        /\ \A i \in Tracked(o) : /\ SameOrder(o, n, i)
                                 /\ n.order[i].leaves = o.order[i].leaves
                                 /\ i # x => n.order[i] = o.order[i]
    BY <1>1, <1>3, SetStateRemembers
  <2>2. Working(n) \subseteq Working(o)
    BY <1>3, <2>1 DEF Working
  <2> HIDE DEF n, x
  <2> QED BY <1>1, <2>1, <2>2, SameBook DEF SameOrder
<1>4. ASSUME NEW m, Typed(m), Books(m), x \in Working(m), NEW final \in Terminal,
             n = Retire(m, <<x>>, final), Working(m) = Working(o),
             \A i \in Working(o) \ {x} : m.order[i] = o.order[i]
      PROVE  BookStep(o, n)
  <2>1. Working(n) = Working(o) \ {x}
    BY <1>4, RetireOneRemembers
  <2>2. Range(<<x>>) = {x}
    BY DEF Range
  <2>3. \A i \in Tracked(n) \ {x} : n.order[i] = m.order[i]
    BY <1>4, <2>2, RetireWithin DEF Within
  <2>4. \A i \in Working(n) : n.order[i] = o.order[i]
    BY <1>4, <2>1, <2>3 DEF Working
  <2> HIDE DEF n, x
  <2> QED BY <2>1, <2>4, SameBook
<1>5. ASSUME x \in Working(o), q \in Nat \ {0}, n = ApplyFill(o, x, q)
      PROVE  BookStep(o, n)
  <2>1. Sound(hit, {x}) /\ x \in Working(hit)
    BY <1>5, ExecuteKeeps
  <2>2. /\ Tracked(hit) = Tracked(o) /\ Working(hit) = Working(o)
        /\ \A i \in Tracked(o) : SameOrder(o, hit, i)
        /\ hit.order[x].state = o.order[x].state
        /\ hit.order[x].leaves = LeavesAfter(o.order[x], q)
    BY <1>5, ExecuteRemembers
  <2>3. \A i \in Working(o) \ {x} : hit.order[i] = o.order[i]
    BY <1>1, <1>5, <2>2, ExecuteWithin DEF Within
  <2>4. n = IF hit.order[x].leaves = 0 THEN Retire(hit, <<x>>, "Filled")
            ELSE IF hit.order[x].state = "PendingCancel" THEN hit
            ELSE SetState(hit, x, "PartiallyFilled")
    BY <1>5 DEF ApplyFill
  <2>5. CASE hit.order[x].leaves = 0
    <3>1. n = Retire(hit, <<x>>, "Filled") /\ "Filled" \in Terminal
      BY <2>4, <2>5 DEF Terminal
    <3>2. Typed(hit) /\ Books(hit)
      BY <2>1 DEF Sound
    <3> QED BY <1>4, <2>1, <2>2, <2>3, <3>1, <3>2
  <2>6. CASE hit.order[x].leaves # 0
    <3>1. /\ Tracked(n) = Tracked(hit)
          /\ \A i \in Tracked(hit) \ {x} : n.order[i] = hit.order[i]
          /\ n.order[x].leaves = hit.order[x].leaves
          /\ n.order[x].symbol = hit.order[x].symbol /\ n.order[x].side = hit.order[x].side
          /\ n.order[x].state \in Live
      <4>1. Typed(hit) /\ x \in Tracked(hit) /\ hit.order[x].state \in Live
        BY <2>1 DEF Sound, Working
      <4>2. CASE hit.order[x].state = "PendingCancel"
        BY <2>4, <2>6, <4>1, <4>2
      <4>3. CASE hit.order[x].state # "PendingCancel"
        <5>1. n = SetState(hit, x, "PartiallyFilled")
          BY <2>4, <2>6, <4>3
        <5> HIDE DEF n, hit, x
        <5> QED BY <4>1, <5>1, SetStateRemembers DEF SameOrder, Live
      <4> QED BY <4>2, <4>3
    <3>2. o.order[x].leaves \in Nat /\ hit.order[x].leaves < o.order[x].leaves
      <4>1. /\ o.order[x].leaves \in Nat /\ o.order[x].filled \in Nat
            /\ o.order[x].quantity \in Nat
        BY <1>1, <1>5 DEF Typed, OrderRecord
      <4>2. o.order[x].leaves = o.order[x].quantity - o.order[x].filled
        BY <1>1, <1>5 DEF IInv, Sound, Settled, Working
      <4> QED BY <4>1, <4>2, <2>2, <2>6, <1>5 DEF LeavesAfter, AtLeastZero
    <3>3. Working(n) = Working(o)
      <4> HIDE DEF n, hit, x
      <4> QED BY <1>5, <2>2, <2>3, <3>1 DEF Working
    <3> DEFINE old == BookOf(o)
               new == BookOf(n)
    <3>4. DOMAIN old = Working(o) /\ DOMAIN new = Working(o)
      BY <3>3 DEF BookOf
    <3>5. /\ new[x].symbol = old[x].symbol /\ new[x].side = old[x].side
          /\ new[x].leaves < old[x].leaves
      <4>1. SameOrder(o, hit, x)
        BY <1>1, <1>5, <2>2
      <4> HIDE DEF n, hit, x
      <4> QED BY <1>5, <3>1, <3>2, <3>3, <4>1 DEF BookOf, SameOrder
    <3>6. \A j \in Working(o) \ {x} : new[j] = old[j]
      <4> HIDE DEF n, hit, x
      <4> QED BY <1>1, <2>2, <2>3, <3>1, <3>3 DEF BookOf
    <3> HIDE DEF n, hit, x, old, new
    <3>7. Worked(old, new)
      BY <1>5, <3>4, <3>5, <3>6 DEF Worked
    <3> QED BY <3>7 DEF BookStep, old, new
  <2> QED BY <2>5, <2>6
<1> HIDE DEF n, x, q, hit
<1>6. \/ \E kind \in Breaks : n = Count(o, kind)
      \/ /\ x \in Working(o)
         /\ \/ \E state \in Live : n = SetState(o, x, state)
            \/ \E final \in Terminal : n = Retire(o, <<x>>, final)
            \/ q \in Nat \ {0} /\ n = ApplyFill(o, x, q)
  BY ApplyCases DEF n, x, q
<1>7. ASSUME x \in Working(o), NEW final \in Terminal, n = Retire(o, <<x>>, final)
      PROVE  BookStep(o, n)
  BY <1>1, <1>4, <1>7
<1>8. BookStep(o, n)
  BY <1>2, <1>3, <1>5, <1>6, <1>7
<1> QED BY <1>8 DEF n

\* Every step of the order manager is a step of the ledger or none.
LEMMA NextIsBookStep ==
  ASSUME IInv(oms), Next
  PROVE  BookStep(oms, oms')
<1>1. /\ Typed(oms) /\ Books(oms) /\ Working(oms) \subseteq Tracked(oms)
      /\ DOMAIN oms = {"order", "retired", "open", "next", "exposure", "gross", "breaks"}
      /\ oms.next \in Nat
  BY DEF IInv, Sound, Typed, Working
<1>2. ASSUME NEW s \in Symbol, NEW d \in Side, NEW quantity \in Quantity,
             CreateOrder(s, d, quantity)
      PROVE  BookStep(oms, oms')
  <2> DEFINE id == oms.next
             n  == CreateWithId(oms, id, s, d, quantity)
  <2>1. oms' = n
    BY <1>2 DEF CreateOrder, Create
  <2>2. /\ Tracked(oms) \subseteq Tracked(n) /\ Tracked(n) \subseteq Tracked(oms) \cup {id}
        /\ \A i \in Tracked(oms) : n.order[i] = oms.order[i]
    BY <1>1, CreateAdvances
  <2>3. quantity \in Nat \ {0}
    BY OrderManagerConstants DEF OrderManagerConstants, Quantity
  <2>4. CASE CanCreate(oms, id, quantity)
    <3>1. id \in Working(n) /\ id \notin Tracked(oms)
      BY <1>1, <2>3, <2>4, CreateKeeps DEF CanCreate
    <3> HIDE DEF n, id
    <3>2. Tracked(n) = Tracked(oms) \cup {id}
      BY <2>2, <3>1 DEF Working
    <3> QED BY <2>1, <2>2, <3>1, <3>2, OneMoreInBook
  <2>5. CASE ~CanCreate(oms, id, quantity)
    <3>1. n.order = oms.order
      BY <1>1, <2>5 DEF CreateWithId, Count
    <3> HIDE DEF n, id
    <3> QED BY <2>1, <3>1, SameBook DEF Working, Tracked
  <2> QED BY <2>4, <2>5
<1>3. ASSUME NEW snap \in Snapshot, AdoptOrder(snap) PROVE BookStep(oms, oms')
  <2> DEFINE n == Adopt(oms, snap)
  <2>1. /\ \A i \in Tracked(oms) : i \in Tracked(n) /\ n.order[i] = oms.order[i]
        /\ \/ Tracked(n) = Tracked(oms)
           \/ /\ snap.id \notin Tracked(oms)
              /\ Tracked(n) = Tracked(oms) \cup {snap.id}
              /\ snap.id \in Working(n)
    BY SnapshotsAreOpen, AdoptRemembers
  <2>2. oms' = n
    BY <1>3 DEF AdoptOrder
  <2> HIDE DEF n
  <2>3. CASE Tracked(n) = Tracked(oms)
    BY <2>1, <2>2, <2>3, SameBook DEF Working
  <2>4. CASE Tracked(n) # Tracked(oms)
    BY <2>1, <2>2, <2>4, OneMoreInBook
  <2> QED BY <2>3, <2>4
<1>4. ASSUME NEW k \in Id, MoveNextId(k) PROVE BookStep(oms, oms')
  <2>1. oms'.order = oms.order
    BY <1>1, <1>4 DEF MoveNextId, SetNextId
  <2> QED BY <2>1, SameBook DEF Working, Tracked
<1>5. ASSUME NEW rep \in ExecutionReport, ApplyReport(rep) PROVE BookStep(oms, oms')
  BY <1>5, ReportsAreReports, ApplyIsBookStep DEF ApplyReport
<1>6. ASSUME NEW id \in Id, CancelOrder(id) PROVE BookStep(oms, oms')
  <2>1. CASE ~Cancellable(oms, id)
    BY <1>6, <2>1, SameBook DEF CancelOrder, RequestCancel
  <2>2. CASE Cancellable(oms, id)
    <3>1. oms' = SetState(oms, id, "PendingCancel") /\ id \in Working(oms)
      BY <1>6, <2>2 DEF CancelOrder, RequestCancel, Cancellable, Working, Live
    <3>2. /\ Tracked(oms') = Tracked(oms)
          /\ \A i \in Tracked(oms) : /\ SameOrder(oms, oms', i)
                                     /\ oms'.order[i].leaves = oms.order[i].leaves
                                     /\ i # id => oms'.order[i] = oms.order[i]
      BY <1>1, <3>1, SetStateRemembers
    <3>3. Working(oms') \subseteq Working(oms)
      BY <3>1, <3>2 DEF Working
    <3> QED BY <1>1, <3>2, <3>3, SameBook DEF SameOrder
  <2> QED BY <2>1, <2>2
<1>7. CASE Sweep
  <2> DEFINE S == Overdue(oms)
  <2>1. PICK walk \in WalkOrders(S) : oms' = Retire(oms, walk, "Expired")
    BY <1>7 DEF Sweep, SweepTimeouts
  <2>2. S \subseteq Working(oms) /\ S \subseteq Tracked(oms) /\ S \subseteq Nat \ {0}
    BY <1>1 DEF Overdue, Unanswered, Working, Live, Typed
  <2>3. IsFiniteSet(S) /\ Cardinality(S) \in Nat
    BY <1>1, <2>2, FS_Subset, FS_CardinalityType DEF Typed
  <2> HIDE DEF S
  <2>4. walk \in [1 .. Cardinality(S) -> S] /\ Range(walk) = S /\ NoRepeats(walk)
    BY <2>3, EnumerationOnce DEF WalkOrders
  <2>5. walk \in Seq(Nat \ {0})
    <3>1. walk \in [1 .. Cardinality(S) -> Nat \ {0}]
      BY <2>2, <2>4
    <3> QED BY <3>1, <2>3
  <2>6. Working(oms') = Working(oms) \ S
    BY <1>1, <2>1, <2>2, <2>4, <2>5, RetireRemembers DEF Terminal
  <2>7. \A i \in Tracked(oms') \ S : oms'.order[i] = oms.order[i]
    BY <1>1, <2>1, <2>4, RetireWithin DEF Within
  <2>8. \A i \in Working(oms') : oms'.order[i] = oms.order[i]
    BY <2>6, <2>7 DEF Working
  <2> QED BY <2>6, <2>8, SameBook
<1>8. CASE ClearAll
  <2>1. Working(oms') = {}
    BY <1>8 DEF ClearAll, InitOms, Working, Tracked
  <2> QED BY <2>1, SameBook
<1>9. CASE Tick
  <2>1. /\ Tracked(oms') = Tracked(oms)
        /\ \A i \in Tracked(oms) :
             \A f \in {"symbol", "side", "quantity", "filled", "leaves", "state"} :
               oms'.order[i][f] = oms.order[i][f]
    BY <1>1, <1>9, OlderRemembers DEF Tick
  <2>2. Working(oms') = Working(oms)
    BY <2>1 DEF Working
  <2> QED BY <1>1, <2>1, <2>2, SameBook
<1> QED BY <1>2, <1>3, <1>4, <1>5, <1>6, <1>7, <1>8, <1>9 DEF Next

\* The order manager implements the ledger that the risk check believes it reads:
\* orders open, work and close, and the exposure published with every step is
\* the recomputed total of what the working orders have left (oms.hpp:218-220).
THEOREM OrderManagerImplementsLedger ==
  ASSUME StrictSnapshots
  PROVE  Spec => ImplementsLedger
<1>1. Init => ledger!Init
  <2> SUFFICES ASSUME Init PROVE ledger!Init
    OBVIOUS
  <2>1. IInv(oms)
    BY SoundInit
  <2>2. Working(oms) = {}
    BY DEF Init, InitOms, Working, Tracked
  <2>3. BookOf(oms) = [i \in {} |-> i]
    BY <2>2 DEF BookOf
  <2> QED BY <2>1, <2>3, ExposureIsTotal DEF ledger!Init, BookOf
<1>2. IInv(oms) /\ IInv(oms)' /\ [Next]_oms => [ledger!Next]_(ledger!ledgerVars)
  <2> SUFFICES ASSUME IInv(oms), IInv(oms'), [Next]_oms
               PROVE  [ledger!Next]_(ledger!ledgerVars)
    OBVIOUS
  <2> DEFINE old == BookOf(oms)
             new == BookOf(oms')
  <2>1. oms.exposure = ledger!ExposureOf(old) /\ oms'.exposure = ledger!ExposureOf(new)
    BY ExposureIsTotal
  <2>2. CASE UNCHANGED oms
    BY <2>2 DEF ledger!ledgerVars
  <2>3. CASE Next
    <3>1. BookStep(oms, oms')
      BY <2>3, NextIsBookStep
    <3>2. CASE Opened(old, new)
      <4>1. ledger!Open
        BY <2>1, <3>2 DEF Opened, BookOf, ledger!Open, ledger!Publish
      <4> QED BY <4>1 DEF ledger!Next
    <3>3. CASE Worked(old, new)
      <4>1. ledger!Work
        BY <2>1, <3>3 DEF Worked, BookOf, ledger!Work, ledger!SameTerms, ledger!Publish
      <4> QED BY <4>1 DEF ledger!Next
    <3>4. CASE ClosedOrSame(old, new) /\ DOMAIN new # DOMAIN old
      <4>1. ledger!Close
        BY <2>1, <3>4 DEF ClosedOrSame, BookOf, ledger!Close, ledger!Publish
      <4> QED BY <4>1 DEF ledger!Next
    <3>5. CASE ClosedOrSame(old, new) /\ DOMAIN new = DOMAIN old
      <4>1. new = old
        BY <3>5 DEF ClosedOrSame, BookOf
      <4> QED BY <2>1, <4>1 DEF BookOf, ledger!ledgerVars
    <3> QED BY <3>1, <3>2, <3>3, <3>4, <3>5 DEF BookStep
  <2> QED BY <2>2, <2>3
<1> QED BY <1>1, <1>2, AlwaysSound, PTL DEF Spec, ImplementsLedger, ledger!Spec
=============================================================================
