------------------------------ MODULE OmsProofs ------------------------------
(***************************************************************************)
(* Each operation of the order manager, as defined in Oms.tla, preserves   *)
(* the inductive invariant IInv.  The lemmas speak of states o and n, not  *)
(* of variables, so that every module that calls the operations can use    *)
(* them.                                                                   *)
(*                                                                         *)
(* None of the properties worth stating is inductive alone: the exposure   *)
(* totals stay exact only because finished orders have nothing left        *)
(* (Settled), an evicted record is a finished one and a slot is always     *)
(* free (Books), and gross is a natural number only because it is exact.   *)
(***************************************************************************)
EXTENDS Oms, Counting

\* The shape of a state; gross is left to Exact.
Typed(o) ==
  /\ DOMAIN o = {"order", "retired", "open", "next", "exposure", "gross", "breaks"}
  /\ Tracked(o) \subseteq Nat \ {0}
  /\ IsFiniteSet(Tracked(o))
  /\ o.order \in [Tracked(o) -> OrderRecord]
  /\ o.retired \in Seq(Nat \ {0})
  /\ o.open \in Nat
  /\ o.next \in Nat \ {0}
  /\ o.exposure \in [Symbol -> [Side -> Nat]]
  /\ o.breaks \subseteq Breaks
  /\ \A i \in Tracked(o) : i < o.next

\* The two incremental totals are what a recomputation would give.
Exact(o) ==
  /\ \A s \in Symbol, d \in Side : o.exposure[s][d] = Cardinality(Lots(o.order, s, d))
  /\ o.gross = GrossOf(o.exposure)

\* The retired ring, the records and open_count_ agree on who has finished.
Books(o) ==
  /\ Range(o.retired) = Finished(o)
  /\ NoRepeats(o.retired)
  /\ Len(o.retired) <= RetiredHistory
  /\ o.open = Cardinality(Working(o))
  /\ o.open <= MaxOpenOrders

\* Outside S, leaves is what was not filled, or nothing once finished.
Settled(o, S) ==
  \A i \in Tracked(o) \ S :
    o.order[i].leaves = IF o.order[i].state \in Live
                        THEN o.order[i].quantity - o.order[i].filled ELSE 0

\* More than the quantity is filled only if an overfill was counted.
Flagged(o) ==
  \A i \in Tracked(o) : o.order[i].filled > o.order[i].quantity => "overfill" \in o.breaks

\* The invariant, S being the orders an operation is still working on.
Sound(o, S) == Typed(o) /\ Exact(o) /\ Books(o) /\ Flagged(o) /\ Settled(o, S)

\* The inductive invariant.
IInv(o) == Sound(o, {})

-----------------------------------------------------------------------------

\* Lots and GrossOf as piles.
Matching(order, s, d) == {i \in DOMAIN order : order[i].symbol = s /\ order[i].side = d}
LeavesIn(order) == [i \in DOMAIN order |-> order[i].leaves]
Imbalance(exposure) == [s \in Symbol |-> Magnitude(Net(exposure[s]))]

\* The lots of one side of one symbol are the pile of its orders' leaves.
LEMMA LotsPile ==
  ASSUME NEW order, NEW s, NEW d
  PROVE  Lots(order, s, d) = Pile(Matching(order, s, d), LeavesIn(order))
BY DEF Lots, Pile, Matching, LeavesIn

\* Gross exposure is the size of the pile of the symbols' imbalances.
LEMMA GrossPile ==
  ASSUME NEW exposure
  PROVE  GrossOf(exposure) = Cardinality(Pile(Symbol, Imbalance(exposure)))
BY DEF GrossOf, GrossUnits, Pile, Imbalance

\* The imbalance of a symbol is a natural number.
LEMMA ImbalanceType ==
  ASSUME NEW exposure \in [Symbol -> [Side -> Nat]], NEW s \in Symbol
  PROVE  Imbalance(exposure)[s] \in Nat
<1>1. exposure[s]["Buy"] \in Nat /\ exposure[s]["Sell"] \in Nat
  BY DEF Side
<1> QED BY <1>1 DEF Imbalance, Magnitude, Net

\* Gross exposure is a natural number.
LEMMA GrossType ==
  ASSUME NEW exposure \in [Symbol -> [Side -> Nat]]
  PROVE  GrossOf(exposure) \in Nat
BY GrossPile, ImbalanceType, PileFinite, OmsConstants DEF OmsConstants

\* The lots of finitely many orders are finitely many.
LEMMA LotsType ==
  ASSUME NEW order, order \in [DOMAIN order -> OrderRecord], IsFiniteSet(DOMAIN order),
         NEW s, NEW d
  PROVE  IsFiniteSet(Lots(order, s, d)) /\ Cardinality(Lots(order, s, d)) \in Nat
<1>1. IsFiniteSet(Matching(order, s, d))
  BY FS_Subset DEF Matching
<1>2. \A i \in Matching(order, s, d) : LeavesIn(order)[i] \in Nat
  BY DEF Matching, LeavesIn, OrderRecord
<1> QED BY <1>1, <1>2, LotsPile, PileFinite

\* Adding an order x, or changing what it has left, changes the working quantity
\* of its own side by the difference and no other.
LEMMA LotsUpdate ==
  ASSUME NEW old, old \in [DOMAIN old -> OrderRecord], IsFiniteSet(DOMAIN old),
         NEW new, new \in [DOMAIN new -> OrderRecord], NEW x,
         DOMAIN new = DOMAIN old \cup {x},
         \A i \in DOMAIN old \ {x} : new[i] = old[i],
         x \in DOMAIN old => new[x].symbol = old[x].symbol /\ new[x].side = old[x].side,
         NEW s, NEW d
  PROVE  Cardinality(Lots(new, s, d)) =
           IF s = new[x].symbol /\ d = new[x].side
           THEN Cardinality(Lots(old, s, d)) + new[x].leaves
                  - (IF x \in DOMAIN old THEN old[x].leaves ELSE 0)
           ELSE Cardinality(Lots(old, s, d))
<1> DEFINE J == Matching(old, s, d)
           K == Matching(new, s, d)
           n == LeavesIn(old)
           m == LeavesIn(new)
<1>1. IsFiniteSet(J)
  BY FS_Subset DEF Matching
<1>2. (\A i \in J : n[i] \in Nat) /\ (\A i \in K : m[i] \in Nat)
  BY DEF Matching, LeavesIn, OrderRecord
<1>3. J \ {x} = K \ {x} /\ \A i \in J \ {x} : m[i] = n[i]
  BY DEF Matching, LeavesIn
<1>4. Cardinality(Lots(old, s, d)) = Cardinality(Pile(J, n))
      /\ Cardinality(Lots(new, s, d)) = Cardinality(Pile(K, m))
  BY LotsPile
<1>5. Cardinality(Pile(J, n)) \in Nat
  BY <1>1, <1>2, PileFinite
<1>6. x \in DOMAIN new /\ m[x] = new[x].leaves /\ m[x] \in Nat
      /\ (x \in DOMAIN old => n[x] = old[x].leaves /\ n[x] \in Nat)
  BY DEF LeavesIn, OrderRecord
<1>7. CASE s = new[x].symbol /\ d = new[x].side
  <2>1. x \in K /\ (x \in J <=> x \in DOMAIN old)
    BY <1>7 DEF Matching
  <2>2. Cardinality(Pile(K, m)) =
          Cardinality(Pile(J, n)) - (IF x \in J THEN n[x] ELSE 0)
                                  + (IF x \in K THEN m[x] ELSE 0)
    <3> HIDE DEF J, K, m, n
    <3> QED BY <2>1, <1>1, <1>2, <1>3, PileUpdate
  <2>3. CASE x \in DOMAIN old
    BY <2>1, <2>2, <2>3, <1>4, <1>5, <1>6, <1>7
  <2>4. CASE x \notin DOMAIN old
    BY <2>1, <2>2, <2>4, <1>4, <1>5, <1>6, <1>7
  <2> QED BY <2>3, <2>4
<1>8. CASE ~(s = new[x].symbol /\ d = new[x].side)
  <2>1. x \notin K /\ x \notin J
    BY <1>8 DEF Matching
  <2>2. J = K
    BY <2>1, <1>3
  <2>3. Pile(J, n) = Pile(K, m)
    <3> HIDE DEF J, K, m, n
    <3> QED BY <2>1, <2>2, <1>3, PileSame
  <2> QED BY <1>4, <1>8, <2>3
<1> QED BY <1>7, <1>8

\* n is o with one exposure entry moved by delta, clamped at zero, and gross exact.
ExposureMoved(o, n, s, d, delta) ==
  /\ DOMAIN n = DOMAIN o
  /\ \A f \in DOMAIN o \ {"exposure", "gross"} : n[f] = o[f]
  /\ n.exposure \in [Symbol -> [Side -> Nat]]
  /\ \A t \in Symbol, e \in Side :
       n.exposure[t][e] = IF t = s /\ e = d
                          THEN AtLeastZero(o.exposure[s][d] + delta)
                          ELSE o.exposure[t][e]
  /\ n.gross = GrossOf(n.exposure)

\* add_exposure(): adjusting gross by the change of one symbol's imbalance keeps
\* it the sum over all symbols.
LEMMA AddExposureKeeps ==
  ASSUME NEW o, "exposure" \in DOMAIN o, "gross" \in DOMAIN o,
         o.exposure \in [Symbol -> [Side -> Nat]], o.gross = GrossOf(o.exposure),
         NEW s \in Symbol, NEW d \in Side, NEW delta \in Int
  PROVE  ExposureMoved(o, AddExposure(o, s, d, delta), s, d, delta)
<1> DEFINE n   == AddExposure(o, s, d, delta)
           was == o.exposure[s]
           now == [was EXCEPT ![d] = AtLeastZero(was[d] + delta)]
           E   == [o.exposure EXCEPT ![s] = now]
<1>1. was \in [Side -> Nat] /\ was[d] \in Nat
  OBVIOUS
<1>2. AtLeastZero(was[d] + delta) \in Nat
  BY <1>1 DEF AtLeastZero
<1>3. now \in [Side -> Nat]
  BY <1>1, <1>2
<1>4. E \in [Symbol -> [Side -> Nat]]
  BY <1>3
<1>5. /\ n = [o EXCEPT !.exposure = E,
                       !.gross = o.gross + (Magnitude(Net(now)) - Magnitude(Net(was)))]
  BY DEF AddExposure
<1>6. /\ DOMAIN n = DOMAIN o
      /\ \A f \in DOMAIN o \ {"exposure", "gross"} : n[f] = o[f]
      /\ n.exposure = E
      /\ n.gross = o.gross + (Magnitude(Net(now)) - Magnitude(Net(was)))
  <2> HIDE DEF E, n
  <2> QED BY <1>5
<1>7. \A t \in Symbol, e \in Side :
        E[t][e] = IF t = s /\ e = d THEN AtLeastZero(o.exposure[s][d] + delta)
                  ELSE o.exposure[t][e]
  BY <1>1
<1>8. GrossOf(E) = GrossOf(o.exposure) - Magnitude(Net(was)) + Magnitude(Net(now))
  <2> DEFINE a == Imbalance(o.exposure)
             b == Imbalance(E)
  <2>1. (\A t \in Symbol : a[t] \in Nat) /\ (\A t \in Symbol : b[t] \in Nat)
    BY <1>4, ImbalanceType
  <2>2. \A t \in Symbol \ {s} : b[t] = a[t]
    BY DEF Imbalance
  <2>3. a[s] = Magnitude(Net(was)) /\ b[s] = Magnitude(Net(now))
    BY DEF Imbalance
  <2>4. Cardinality(Pile(Symbol, b)) =
          Cardinality(Pile(Symbol, a)) - a[s] + b[s]
    <3>1. IsFiniteSet(Symbol)
      BY OmsConstants DEF OmsConstants
    <3> HIDE DEF a, b
    <3> QED BY <2>1, <2>2, <3>1, PileUpdate
  <2> QED BY <2>3, <2>4, GrossPile
<1>9. /\ GrossOf(o.exposure) \in Nat /\ Magnitude(Net(was)) \in Int
      /\ Magnitude(Net(now)) \in Int
  <2>1. was["Buy"] \in Nat /\ was["Sell"] \in Nat /\ now["Buy"] \in Nat /\ now["Sell"] \in Nat
    BY <1>1, <1>3 DEF Side
  <2> QED BY <2>1, GrossType DEF Magnitude, Net
<1>10. n.gross = GrossOf(E)
  BY <1>6, <1>8, <1>9
<1> HIDE DEF n, E
<1> QED BY <1>4, <1>6, <1>7, <1>10 DEF n, ExposureMoved

-----------------------------------------------------------------------------

\* retire(), for one order or for a whole sweep: releasing what the orders had
\* left and dropping the oldest records of the ring preserves the invariant.
LEMMA RetireKeeps ==
  ASSUME NEW o, NEW ids \in Seq(Nat \ {0}), NoRepeats(ids), Range(ids) \subseteq Working(o),
         Sound(o, Range(ids)), NEW final \in Terminal
  PROVE  IInv(Retire(o, ids, final))
<1>0. Typed(o) /\ Exact(o) /\ Books(o) /\ Flagged(o) /\ Settled(o, Range(ids))
  BY DEF Sound
<1> USE <1>0
<1> DEFINE n         == Retire(o, ids, final)
           done      == Range(ids)
           ring      == o.retired \o ids
           drop      == AtLeastZero(Len(ring) - RetiredHistory)
           forgotten == {ring[k] : k \in 1 .. drop}
           released  == Restrict(o.order, done)
           exposure  == [s \in Symbol |-> [d \in Side |->
                           AtLeastZero(o.exposure[s][d] - Cardinality(Lots(released, s, d)))]]
           final_(i) == [o.order[i] EXCEPT !.leaves = 0, !.state = final]
<1>1. /\ DOMAIN n = DOMAIN o
      /\ n.order = [i \in Tracked(o) \ forgotten |->
                      IF i \in done THEN final_(i) ELSE o.order[i]]
      /\ n.retired = SubSeq(ring, drop + 1, Len(ring))
      /\ n.open = AtLeastZero(o.open - Cardinality(done))
      /\ n.exposure = exposure
      /\ n.gross = o.gross + (GrossOf(exposure) - GrossOf(o.exposure))
      /\ n.next = o.next
      /\ n.breaks = o.breaks
  BY DEF Retire, Typed, Tracked
<1>2. Working(o) \cap Finished(o) = {} /\ Working(o) \cup Finished(o) = Tracked(o)
  BY DEF Working, Finished, Typed, OrderRecord, Live, Terminal
<1>3. done \subseteq Working(o) /\ done \subseteq Tracked(o)
  BY DEF Working
<1>4. /\ Range(ring) = Finished(o) \cup done
      /\ NoRepeats(ring)
      /\ ring \in Seq(Nat \ {0})
      /\ Len(ring) \in Nat
  <2>1. o.retired \in Seq(Nat \ {0}) /\ NoRepeats(o.retired) /\ Range(o.retired) = Finished(o)
    BY DEF Typed, Books
  <2>2. Range(o.retired) \cap Range(ids) = {}
    BY <2>1, <1>2, <1>3
  <2> QED BY <2>1, <2>2, ConcatRange, LenProperties
<1> HIDE DEF ring
<1>5. drop \in 0 .. Len(ring) /\ Len(ring) - drop <= RetiredHistory
  BY <1>4, OmsConstants DEF OmsConstants, AtLeastZero
<1> HIDE DEF drop
<1>6. /\ n.retired \in Seq(Nat \ {0})
      /\ Len(n.retired) <= RetiredHistory
      /\ NoRepeats(n.retired)
      /\ forgotten \subseteq Finished(o) \cup done
      /\ Range(n.retired) = (Finished(o) \cup done) \ forgotten
  <2> DEFINE kept == Kept(ring, drop)
  <2>1. /\ kept \in Seq(Nat \ {0})
        /\ Len(kept) = Len(ring) - drop
        /\ NoRepeats(kept)
        /\ Dropped(ring, drop) \subseteq Range(ring)
        /\ Range(kept) = Range(ring) \ Dropped(ring, drop)
    BY <1>4, <1>5, DropFirst
  <2>2. n.retired = kept /\ forgotten = Dropped(ring, drop)
    BY <1>1 DEF Kept, Dropped
  <2> HIDE DEF n, kept, forgotten, done
  <2> QED BY <2>1, <2>2, <1>4, <1>5
<1> HIDE DEF n, done, forgotten
<1>7. \A i \in Tracked(o) :
        /\ final_(i) \in OrderRecord
        /\ final_(i).leaves = 0 /\ final_(i).state = final
        /\ final_(i).symbol = o.order[i].symbol /\ final_(i).side = o.order[i].side
        /\ final_(i).filled = o.order[i].filled /\ final_(i).quantity = o.order[i].quantity
  <2> SUFFICES ASSUME NEW i \in Tracked(o), NEW r \in OrderRecord, r = o.order[i]
               PROVE  LET f == [r EXCEPT !.leaves = 0, !.state = final]
                      IN  /\ f \in OrderRecord
                          /\ f.leaves = 0 /\ f.state = final
                          /\ f.symbol = r.symbol /\ f.side = r.side
                          /\ f.filled = r.filled /\ f.quantity = r.quantity
    BY DEF Typed
  <2> QED BY DEF OrderRecord, Terminal
<1> HIDE DEF final_
<1>8. Tracked(n) = Tracked(o) \ forgotten
  BY <1>1 DEF Tracked
<1>9. \A i \in Tracked(n) :
        /\ n.order[i] = IF i \in done THEN final_(i) ELSE o.order[i]
        /\ n.order[i] \in OrderRecord
        /\ n.order[i].symbol = o.order[i].symbol /\ n.order[i].side = o.order[i].side
        /\ n.order[i].filled = o.order[i].filled
        /\ n.order[i].quantity = o.order[i].quantity
  BY <1>1, <1>7, <1>8 DEF Typed
<1>10. /\ Finished(n) = (Finished(o) \cup done) \ forgotten
       /\ Working(n) = Working(o) \ done
  <2>1. \A i \in Tracked(n) :
          n.order[i].state = IF i \in done THEN final ELSE o.order[i].state
    BY <1>7, <1>8, <1>9
  <2>2. \A i \in Tracked(n) : /\ i \in Finished(n) <=> i \in Finished(o) \cup done
                              /\ i \in Working(n) <=> i \in Working(o) /\ i \notin done
    BY <2>1, <1>8 DEF Finished, Working, Live, Terminal
  <2>3. Finished(n) \subseteq Tracked(n) /\ Working(n) \subseteq Tracked(n)
    BY DEF Finished, Working
  <2> QED BY <2>2, <2>3, <1>2, <1>3, <1>6, <1>8
<1>11. IsFiniteSet(Tracked(n)) /\ IsFiniteSet(Working(n)) /\ Cardinality(Working(n)) \in Nat
  <2>1. IsFiniteSet(Tracked(n))
    <3>1. IsFiniteSet(Tracked(o))
      BY DEF Typed
    <3> QED BY <3>1, <1>8, FS_Difference
  <2> QED BY <2>1, FS_Subset, FS_CardinalityType DEF Working
<1>12. n.open = Cardinality(Working(n)) /\ n.open <= MaxOpenOrders
  <2>1. IsFiniteSet(Working(o)) /\ Cardinality(Working(o)) \in Nat
    BY FS_Subset, FS_CardinalityType DEF Working, Typed
  <2>2. IsFiniteSet(done) /\ Cardinality(done) \in Nat
    BY <2>1, <1>3, FS_Subset, FS_CardinalityType
  <2>3. Cardinality(Working(n)) = Cardinality(Working(o)) - Cardinality(done)
    <3>1. Working(o) \cap done = done
      BY <1>3
    <3> QED BY <3>1, <2>1, <1>10, FS_Difference
  <2>4. o.open = Cardinality(Working(o)) /\ o.open <= MaxOpenOrders
    BY DEF Books
  <2>5. n.open = AtLeastZero(Cardinality(Working(n)))
    BY <2>3, <2>4, <1>1
  <2> QED BY <2>1, <2>2, <2>3, <2>4, <2>5, <1>11, OmsConstants DEF OmsConstants, AtLeastZero
<1>13. DOMAIN released = done /\ \A i \in done : released[i] = o.order[i]
  BY DEF Restrict
<1> HIDE DEF released
<1>14. \A s \in Symbol, d \in Side : exposure[s][d] = Cardinality(Lots(n.order, s, d))
  <2> SUFFICES ASSUME NEW s \in Symbol, NEW d \in Side
               PROVE  exposure[s][d] = Cardinality(Lots(n.order, s, d))
    OBVIOUS
  <2>1. Lots(n.order, s, d) = Lots(o.order, s, d) \ Lots(released, s, d)
    <3>1. \A i \in done \cap Tracked(n) : n.order[i].leaves = 0
      BY <1>7, <1>8, <1>9
    <3>2. \A i \in Tracked(n) \ done : n.order[i] = o.order[i]
      BY <1>9
    <3>3. \A i \in Tracked(o) \ Tracked(n) : i \notin done => o.order[i].leaves = 0
      BY <1>6, <1>8 DEF Finished, Settled, Live, Terminal, done
    <3> QED BY <3>1, <3>2, <3>3, <1>3, <1>8, <1>13 DEF Lots, Tracked
  <2>2. IsFiniteSet(Lots(o.order, s, d)) /\ Cardinality(Lots(o.order, s, d)) \in Nat
    BY LotsType DEF Typed, Tracked
  <2>3. Lots(o.order, s, d) \cap Lots(released, s, d) = Lots(released, s, d)
    BY <1>3, <1>13 DEF Lots, Tracked
  <2>4. Cardinality(Lots(n.order, s, d)) =
          Cardinality(Lots(o.order, s, d)) - Cardinality(Lots(released, s, d))
    <3> DEFINE A == Lots(o.order, s, d)
               B == Lots(released, s, d)
    <3>1. IsFiniteSet(A) /\ A \cap B = B
      BY <2>2, <2>3
    <3> HIDE DEF A, B
    <3>2. Cardinality(A \ B) = Cardinality(A) - Cardinality(B)
      BY <3>1, FS_Difference
    <3> QED BY <3>2, <2>1 DEF A, B
  <2>5. Cardinality(Lots(n.order, s, d)) \in Nat /\ Cardinality(Lots(released, s, d)) \in Nat
    <3>1. Lots(n.order, s, d) \subseteq Lots(o.order, s, d)
          /\ Lots(released, s, d) \subseteq Lots(o.order, s, d)
      BY <2>1, <2>3
    <3> QED BY <3>1, <2>2, FS_Subset, FS_CardinalityType
  <2>6. exposure[s][d] = AtLeastZero(Cardinality(Lots(o.order, s, d))
                                       - Cardinality(Lots(released, s, d)))
    BY DEF Exact
  <2> QED BY <2>2, <2>4, <2>5, <2>6 DEF AtLeastZero
<1>15. exposure \in [Symbol -> [Side -> Nat]]
  <2>1. n.order \in [DOMAIN n.order -> OrderRecord] /\ IsFiniteSet(DOMAIN n.order)
    BY <1>1, <1>8, <1>9, <1>11 DEF Tracked
  <2>2. \A s \in Symbol, d \in Side : exposure[s][d] \in Nat
    BY <2>1, <1>14, LotsType
  <2> QED BY <2>2
<1>16. n.gross = GrossOf(exposure)
  <2> HIDE DEF exposure
  <2>1. GrossOf(exposure) \in Nat /\ GrossOf(o.exposure) \in Nat
    BY <1>15, GrossType DEF Typed
  <2>2. o.gross = GrossOf(o.exposure)
    BY DEF Exact
  <2> QED BY <2>1, <2>2, <1>1
<1> HIDE DEF exposure
<1>17. Typed(n)
  <2>1. n.order \in [Tracked(n) -> OrderRecord]
    BY <1>1, <1>8, <1>9
  <2>2. n.open \in Nat
    BY <1>11, <1>12
  <2>3. DOMAIN n = {"order", "retired", "open", "next", "exposure", "gross", "breaks"}
    BY <1>1 DEF Typed
  <2> QED BY <1>1, <1>6, <1>8, <1>11, <1>15, <2>1, <2>2, <2>3 DEF Typed
<1>18. Exact(n)
  BY <1>1, <1>14, <1>16 DEF Exact
<1>19. Books(n)
  BY <1>6, <1>10, <1>12 DEF Books
<1>20. Settled(n, {})
  <2>1. ASSUME NEW i \in Tracked(n), i \in done
        PROVE  n.order[i].leaves = 0 /\ n.order[i].state \notin Live
    BY <2>1, <1>7, <1>8, <1>9 DEF Live, Terminal
  <2>2. ASSUME NEW i \in Tracked(n), i \notin done
        PROVE  n.order[i] = o.order[i] /\ i \in Tracked(o) \ Range(ids)
    BY <2>2, <1>8, <1>9 DEF done
  <2> QED BY <2>1, <2>2 DEF Settled
<1>21. Flagged(n)
  BY <1>1, <1>8, <1>9 DEF Flagged
<1> QED BY <1>17, <1>18, <1>19, <1>20, <1>21 DEF IInv, Sound, n

-----------------------------------------------------------------------------

\* The lesser of two integers.
LEMMA MinOfTwo ==
  ASSUME NEW a \in Int, NEW b \in Int
  PROVE  Min({a, b}) = IF a <= b THEN a ELSE b
BY DEF Min

\* Every tracked order is either working or finished.
LEMMA WorkingOrFinished ==
  ASSUME NEW o, Typed(o)
  PROVE  Working(o) \cap Finished(o) = {} /\ Working(o) \cup Finished(o) = Tracked(o)
BY DEF Working, Finished, Typed, OrderRecord, Live, Terminal

\* n is o with the record of x rewritten to r, and the exposure following.
Rewrites(o, n, x, r) ==
  /\ r \in OrderRecord
  /\ r.symbol = o.order[x].symbol /\ r.side = o.order[x].side
  /\ r.state \in Live
  /\ r.filled > r.quantity => "overfill" \in n.breaks
  /\ DOMAIN n = DOMAIN o
  /\ n.order = [o.order EXCEPT ![x] = r]
  /\ n.retired = o.retired /\ n.open = o.open /\ n.next = o.next
  /\ o.breaks \subseteq n.breaks /\ n.breaks \subseteq Breaks
  /\ n.exposure \in [Symbol -> [Side -> Nat]]
  /\ n.gross = GrossOf(n.exposure)
  /\ \A s \in Symbol, d \in Side :
       n.exposure[s][d] =
         IF s = r.symbol /\ d = r.side
         THEN AtLeastZero(o.exposure[s][d] + (r.leaves - o.order[x].leaves))
         ELSE o.exposure[s][d]

\* Rewriting one working record preserves everything but what Settled says of it.
LEMMA RewriteKeeps ==
  ASSUME NEW o, NEW x \in Working(o), Sound(o, {x}), NEW n, NEW r, Rewrites(o, n, x, r)
  PROVE  /\ Sound(n, {x}) /\ x \in Working(n)
         /\ r.leaves = r.quantity - r.filled => IInv(n)
<1> USE DEF IInv, Sound, Rewrites
<1>1. x \in Tracked(o) /\ o.order[x].state \in Live /\ o.order[x] \in OrderRecord
  BY DEF Working, Typed
<1>2. /\ Tracked(n) = Tracked(o)
      /\ n.order \in [Tracked(n) -> OrderRecord]
      /\ n.order[x] = r
      /\ \A i \in Tracked(o) \ {x} : n.order[i] = o.order[i]
  BY <1>1 DEF Typed, Tracked
<1>3. Working(n) = Working(o) /\ Finished(n) = Finished(o)
  BY <1>1, <1>2 DEF Working, Finished, Live, Terminal
<1>4. Typed(n)
  BY <1>2 DEF Typed
<1>5. Books(n)
  BY <1>3 DEF Books
<1>6. Exact(n)
  <2> SUFFICES ASSUME NEW s \in Symbol, NEW d \in Side
               PROVE  n.exposure[s][d] = Cardinality(Lots(n.order, s, d))
    BY DEF Exact
  <2>1. Cardinality(Lots(n.order, s, d)) =
          IF s = r.symbol /\ d = r.side
          THEN Cardinality(Lots(o.order, s, d)) + r.leaves - o.order[x].leaves
          ELSE Cardinality(Lots(o.order, s, d))
    <3> DEFINE new == n.order
               old == o.order
    <3>1. /\ old \in [DOMAIN old -> OrderRecord] /\ IsFiniteSet(DOMAIN old)
          /\ new \in [DOMAIN new -> OrderRecord]
          /\ DOMAIN new = DOMAIN old \cup {x} /\ x \in DOMAIN old
          /\ \A i \in DOMAIN old \ {x} : new[i] = old[i]
          /\ r = new[x]
          /\ new[x].symbol = old[x].symbol /\ new[x].side = old[x].side
      BY <1>1, <1>2 DEF Typed, Tracked
    <3> HIDE DEF new, old
    <3>2. Cardinality(Lots(new, s, d)) =
            IF s = new[x].symbol /\ d = new[x].side
            THEN Cardinality(Lots(old, s, d)) + new[x].leaves
                   - (IF x \in DOMAIN old THEN old[x].leaves ELSE 0)
            ELSE Cardinality(Lots(old, s, d))
      BY <3>1, LotsUpdate
    <3> QED BY <3>1, <3>2 DEF new, old
  <2>2. Cardinality(Lots(o.order, s, d)) \in Nat /\ Cardinality(Lots(n.order, s, d)) \in Nat
    BY <1>4, LotsType DEF Typed, Tracked
  <2>3. r.leaves \in Nat /\ o.order[x].leaves \in Nat
    BY <1>1 DEF OrderRecord
  <2>4. o.exposure[s][d] = Cardinality(Lots(o.order, s, d))
    BY DEF Exact
  <2>5. CASE s = r.symbol /\ d = r.side
    BY <2>1, <2>2, <2>3, <2>4, <2>5 DEF AtLeastZero
  <2>6. CASE ~(s = r.symbol /\ d = r.side)
    BY <2>1, <2>4, <2>6
  <2> QED BY <2>5, <2>6
<1>7. Flagged(n)
  BY <1>2 DEF Flagged
<1>8. Settled(n, {x})
  BY <1>2 DEF Settled
<1>9. ASSUME r.leaves = r.quantity - r.filled PROVE Settled(n, {})
  BY <1>2, <1>8, <1>9 DEF Settled
<1> QED BY <1>3, <1>4, <1>5, <1>6, <1>7, <1>8, <1>9

\* Moving a working order to another working state preserves the invariant.
LEMMA SetStateKeeps ==
  ASSUME NEW o, NEW x \in Working(o), Sound(o, {x}),
         o.order[x].leaves = o.order[x].quantity - o.order[x].filled,
         NEW state \in Live
  PROVE  IInv(SetState(o, x, state))
<1> DEFINE r == [o.order[x] EXCEPT !.state = state]
           n == SetState(o, x, state)
<1>1. x \in Tracked(o) /\ o.order[x] \in OrderRecord
  BY DEF Working, Typed, Sound
<1>2. /\ r \in OrderRecord
      /\ r.state = state /\ r.symbol = o.order[x].symbol /\ r.side = o.order[x].side
      /\ r.leaves = o.order[x].leaves /\ r.filled = o.order[x].filled
      /\ r.quantity = o.order[x].quantity
  BY <1>1 DEF OrderRecord, Live
<1> HIDE DEF r
<1>3. /\ DOMAIN n = DOMAIN o /\ n.order = [o.order EXCEPT ![x] = r]
      /\ n.retired = o.retired /\ n.open = o.open /\ n.next = o.next /\ n.breaks = o.breaks
      /\ n.exposure = o.exposure /\ n.gross = o.gross
  BY DEF SetState, Sound, Typed, r
<1> HIDE DEF n
<1>4. \A s \in Symbol, d \in Side :
        n.exposure[s][d] =
          IF s = r.symbol /\ d = r.side
          THEN AtLeastZero(o.exposure[s][d] + (r.leaves - o.order[x].leaves))
          ELSE o.exposure[s][d]
  <2>1. \A s \in Symbol, d \in Side : o.exposure[s][d] \in Nat
    BY DEF Sound, Typed
  <2>2. o.order[x].leaves \in Nat
    BY <1>1 DEF OrderRecord
  <2> QED BY <2>1, <2>2, <1>2, <1>3 DEF AtLeastZero
<1>5. /\ n.exposure \in [Symbol -> [Side -> Nat]] /\ n.gross = GrossOf(n.exposure)
      /\ n.breaks \subseteq Breaks
      /\ r.filled > r.quantity => "overfill" \in n.breaks
  BY <1>1, <1>2, <1>3 DEF Sound, Typed, Exact, Flagged
<1>6. Rewrites(o, n, x, r)
  BY <1>2, <1>3, <1>4, <1>5 DEF Rewrites
<1> QED BY <1>2, <1>6, RewriteKeeps DEF n

-----------------------------------------------------------------------------

\* Working and retired records are all the records there are, so below the cap
\* on open orders a slot is free and create_with_id() never evicts.
LEMMA RoomForOneMore ==
  ASSUME NEW o, IInv(o)
  PROVE  /\ Cardinality(Tracked(o)) = o.open + Len(o.retired)
         /\ o.open < MaxOpenOrders => Cardinality(Tracked(o)) < PoolCapacity
<1>1. IsFiniteSet(Working(o)) /\ IsFiniteSet(Finished(o))
  BY FS_Subset DEF IInv, Sound, Typed, Working, Finished
<1>2. /\ Working(o) \cap Finished(o) = {} /\ Working(o) \cup Finished(o) = Tracked(o)
      /\ Cardinality(Working(o)) \in Nat /\ Cardinality(Finished(o)) \in Nat
  BY <1>1, WorkingOrFinished, FS_CardinalityType DEF IInv, Sound
<1>3. Cardinality(Finished(o)) = Len(o.retired)
  BY CountOnce DEF IInv, Sound, Books, Typed
<1>4. Cardinality(Tracked(o)) =
        Cardinality(Working(o)) + Cardinality(Finished(o)) - Cardinality({})
  BY <1>1, <1>2, FS_Union
<1>5. /\ o.open = Cardinality(Working(o)) /\ o.open <= MaxOpenOrders
      /\ Len(o.retired) <= RetiredHistory
  BY DEF IInv, Sound, Books
<1> QED BY <1>2, <1>3, <1>4, <1>5, FS_EmptySet, OmsConstants DEF OmsConstants, PoolCapacity

\* Counting a report that made no sense changes nothing else.
LEMMA CountKeeps ==
  ASSUME NEW o, NEW S, Sound(o, S), NEW kind \in Breaks
  PROVE  /\ Sound(Count(o, kind), S)
         /\ Count(o, kind).order = o.order
         /\ Count(o, kind).breaks = o.breaks \cup {kind}
         /\ \A f \in DOMAIN o \ {"breaks"} : Count(o, kind)[f] = o[f]
         /\ DOMAIN Count(o, kind) = DOMAIN o
<1> DEFINE n == Count(o, kind)
<1>1. /\ DOMAIN n = DOMAIN o
      /\ n.order = o.order /\ n.retired = o.retired /\ n.open = o.open /\ n.next = o.next
      /\ n.exposure = o.exposure /\ n.gross = o.gross
      /\ n.breaks = o.breaks \cup {kind}
      /\ \A f \in DOMAIN o \ {"breaks"} : n[f] = o[f]
  BY DEF Count, Sound, Typed
<1> HIDE DEF n
<1>2. Tracked(n) = Tracked(o) /\ Working(n) = Working(o) /\ Finished(n) = Finished(o)
  BY <1>1 DEF Tracked, Working, Finished
<1>3. Sound(n, S)
  BY <1>1, <1>2 DEF Sound, Typed, Exact, Books, Flagged, Settled
<1> QED BY <1>1, <1>3 DEF n

\* create_with_id() preserves the invariant, and books the order it was asked for.
LEMMA CreateKeeps ==
  ASSUME NEW o, IInv(o), NEW id \in Nat, NEW s \in Symbol, NEW d \in Side,
         NEW quantity \in Nat \ {0}
  PROVE  LET n == CreateWithId(o, id, s, d, quantity)
         IN  /\ IInv(n)
             /\ CanCreate(o, id, quantity) =>
                  /\ id \in Working(n)
                  /\ n.order[id] =
                       [symbol |-> s, side |-> d, quantity |-> quantity, filled |-> 0,
                        leaves |-> quantity, state |-> "PendingNew", age |-> 0]
<1> DEFINE n   == CreateWithId(o, id, s, d, quantity)
           rec == [symbol |-> s, side |-> d, quantity |-> quantity, filled |-> 0,
                   leaves |-> quantity, state |-> "PendingNew", age |-> 0]
<1>1. CASE ~CanCreate(o, id, quantity)
  <2>1. n = Count(o, "capacity")
    BY <1>1 DEF CreateWithId
  <2> QED BY <1>1, <2>1, CountKeeps DEF IInv, Breaks
<1>2. CASE CanCreate(o, id, quantity)
  <2> DEFINE new == [i \in Tracked(o) \cup {id} |-> IF i = id THEN rec ELSE o.order[i]]
             mid == [o EXCEPT !.next = IF id >= o.next THEN id + 1 ELSE o.next,
                              !.order = new, !.open = o.open + 1]
  <2>1. /\ Typed(o) /\ Exact(o) /\ Books(o) /\ Flagged(o) /\ Settled(o, {})
        /\ id \notin Tracked(o) /\ id \in Nat \ {0} /\ o.open < MaxOpenOrders
    BY <1>2 DEF IInv, Sound, CanCreate
  <2>2. WithFreeSlot(o) = o
    BY <2>1, RoomForOneMore DEF WithFreeSlot
  <2>3. n = AddExposure(mid, s, d, quantity)
    BY <1>2, <2>2 DEF CreateWithId, Tracked
  <2>4. /\ DOMAIN mid = DOMAIN o
        /\ mid.order = new /\ mid.retired = o.retired /\ mid.open = o.open + 1
        /\ mid.next = (IF id >= o.next THEN id + 1 ELSE o.next)
        /\ mid.exposure = o.exposure /\ mid.gross = o.gross /\ mid.breaks = o.breaks
    BY <2>1 DEF Typed
  <2> HIDE DEF mid
  <2>5. /\ DOMAIN n = DOMAIN o
        /\ n.order = new /\ n.retired = o.retired /\ n.open = o.open + 1
        /\ n.next = (IF id >= o.next THEN id + 1 ELSE o.next)
        /\ n.breaks = o.breaks
        /\ n.exposure \in [Symbol -> [Side -> Nat]]
        /\ \A t \in Symbol, e \in Side :
             n.exposure[t][e] = IF t = s /\ e = d
                                THEN AtLeastZero(o.exposure[s][d] + quantity)
                                ELSE o.exposure[t][e]
        /\ n.gross = GrossOf(n.exposure)
    <3> HIDE DEF n, new
    <3>1. /\ "exposure" \in DOMAIN mid /\ "gross" \in DOMAIN mid /\ quantity \in Int
          /\ mid.exposure \in [Symbol -> [Side -> Nat]] /\ mid.gross = GrossOf(mid.exposure)
      BY <2>1, <2>4 DEF Typed, Exact
    <3>2. ExposureMoved(mid, n, s, d, quantity)
      BY <3>1, <2>3, AddExposureKeeps
    <3>3. \A f \in {"order", "retired", "open", "next", "breaks"} : n[f] = mid[f]
      BY <3>2, <2>1, <2>4 DEF ExposureMoved, Typed
    <3> QED BY <3>2, <3>3, <2>4 DEF ExposureMoved
  <2>6. rec \in OrderRecord
    BY OmsConstants DEF OmsConstants, OrderRecord, Live
  <2> HIDE DEF n
  <2>7. /\ Tracked(n) = Tracked(o) \cup {id}
        /\ n.order \in [Tracked(n) -> OrderRecord]
        /\ n.order[id] = rec
        /\ \A i \in Tracked(o) : n.order[i] = o.order[i]
    BY <2>1, <2>5, <2>6 DEF Tracked, Typed
  <2>8. IsFiniteSet(Tracked(n))
    <3>1. IsFiniteSet(Tracked(o)) BY <2>1 DEF Typed
    <3> QED BY <3>1, <2>7, FS_AddElement
  <2>9. Working(n) = Working(o) \cup {id} /\ Finished(n) = Finished(o) /\ id \notin Working(o)
    BY <2>1, <2>7 DEF Working, Finished, Live, Terminal
  <2>10. Typed(n)
    <3>1. \A i \in Tracked(n) : i < n.next
      BY <2>1, <2>5, <2>7 DEF Typed
    <3>2. n.open \in Nat /\ n.next \in Nat \ {0} /\ Tracked(n) \subseteq Nat \ {0}
      BY <2>1, <2>5, <2>7 DEF Typed
    <3>3. /\ DOMAIN n = {"order", "retired", "open", "next", "exposure", "gross", "breaks"}
          /\ n.retired \in Seq(Nat \ {0}) /\ n.breaks \subseteq Breaks
      BY <2>1, <2>5 DEF Typed
    <3> QED BY <3>1, <3>2, <3>3, <2>5, <2>7, <2>8 DEF Typed
  <2>11. Books(n)
    <3>1. IsFiniteSet(Working(o)) /\ Cardinality(Working(o)) \in Nat
      BY <2>1, FS_Subset, FS_CardinalityType DEF Working, Typed
    <3>2. Cardinality(Working(n)) = Cardinality(Working(o)) + 1
      BY <3>1, <2>9, FS_AddElement
    <3> QED BY <3>1, <3>2, <2>1, <2>5, <2>9, OmsConstants DEF OmsConstants, Books
  <2>12. Exact(n)
    <3> SUFFICES ASSUME NEW t \in Symbol, NEW e \in Side
                 PROVE  n.exposure[t][e] = Cardinality(Lots(n.order, t, e))
      BY <2>5 DEF Exact
    <3> DEFINE old == o.order
               now == n.order
    <3>1. /\ old \in [DOMAIN old -> OrderRecord] /\ IsFiniteSet(DOMAIN old)
          /\ now \in [DOMAIN now -> OrderRecord]
          /\ DOMAIN now = DOMAIN old \cup {id} /\ id \notin DOMAIN old
          /\ \A i \in DOMAIN old \ {id} : now[i] = old[i]
          /\ now[id].symbol = s /\ now[id].side = d /\ now[id].leaves = quantity
      BY <2>1, <2>7 DEF Typed, Tracked
    <3>2. o.exposure[t][e] = Cardinality(Lots(old, t, e))
      BY <2>1 DEF Exact
    <3>3. n.exposure[t][e] = IF t = s /\ e = d
                             THEN AtLeastZero(o.exposure[s][d] + quantity)
                             ELSE o.exposure[t][e]
      BY <2>5
    <3> HIDE DEF old, now
    <3>4. Cardinality(Lots(now, t, e)) =
            IF t = now[id].symbol /\ e = now[id].side
            THEN Cardinality(Lots(old, t, e)) + now[id].leaves
                   - (IF id \in DOMAIN old THEN old[id].leaves ELSE 0)
            ELSE Cardinality(Lots(old, t, e))
      BY <3>1, LotsUpdate
    <3>5. Cardinality(Lots(old, t, e)) \in Nat
      BY <3>1, LotsType
    <3>6. CASE t = s /\ e = d
      BY <3>1, <3>2, <3>3, <3>4, <3>5, <3>6 DEF AtLeastZero, now
    <3>7. CASE ~(t = s /\ e = d)
      BY <3>1, <3>2, <3>3, <3>4, <3>7 DEF now
    <3> QED BY <3>6, <3>7
  <2>13. Flagged(n) /\ Settled(n, {})
    BY <2>1, <2>5, <2>7 DEF Flagged, Settled, Live
  <2> QED BY <2>7, <2>9, <2>10, <2>11, <2>12, <2>13 DEF IInv, Sound, n
<1> QED BY <1>1, <1>2

\* set_next_id() preserves the invariant.
LEMMA SetNextIdKeeps ==
  ASSUME NEW o, IInv(o), NEW k \in Nat
  PROVE  IInv(SetNextId(o, k))
<1> DEFINE n == SetNextId(o, k)
<1>1. /\ DOMAIN n = DOMAIN o
      /\ n.order = o.order /\ n.retired = o.retired /\ n.open = o.open
      /\ n.exposure = o.exposure /\ n.gross = o.gross /\ n.breaks = o.breaks
      /\ n.next = IF k > o.next THEN k ELSE o.next
  BY DEF SetNextId, IInv, Sound, Typed
<1> HIDE DEF n
<1>2. Tracked(n) = Tracked(o) /\ Working(n) = Working(o) /\ Finished(n) = Finished(o)
  BY <1>1 DEF Tracked, Working, Finished
<1>3. n.next \in Nat \ {0} /\ \A i \in Tracked(n) : i < n.next
  BY <1>1, <1>2 DEF IInv, Sound, Typed
<1>4. Sound(n, {})
  BY <1>1, <1>2, <1>3 DEF IInv, Sound, Typed, Exact, Books, Flagged, Settled
<1> QED BY <1>4 DEF n, IInv

\* An order the venue still holds, as adopt() is given it.
OpenSnapshot(snap) ==
  /\ snap.id \in Nat /\ snap.symbol \in Symbol /\ snap.side \in Side
  /\ snap.quantity \in Nat \ {0} /\ snap.filled \in Nat /\ snap.leaves \in Nat
  /\ snap.state \in {"New", "PartiallyFilled"}

\* adopt() preserves the invariant, provided the snapshot's filled and leaves add
\* up to its quantity.
LEMMA AdoptKeeps ==
  ASSUME NEW o, IInv(o), NEW snap, OpenSnapshot(snap),
         snap.filled + snap.leaves = snap.quantity
  PROVE  IInv(Adopt(o, snap))
<1> DEFINE id     == snap.id
           booked == CreateWithId(o, id, snap.symbol, snap.side, snap.quantity)
           taken  == AddExposure(booked, snap.symbol, snap.side, snap.leaves - snap.quantity)
           r      == [booked.order[id] EXCEPT !.leaves = snap.leaves, !.filled = snap.filled,
                                              !.state = snap.state]
           n      == Adopt(o, snap)
<1>1. /\ id \in Nat /\ snap.symbol \in Symbol /\ snap.side \in Side
      /\ snap.quantity \in Nat \ {0} /\ snap.filled \in Nat /\ snap.leaves \in Nat
      /\ snap.filled + snap.leaves = snap.quantity
      /\ snap.state \in {"New", "PartiallyFilled"}
  BY DEF OpenSnapshot
<1>2. CASE ~CanCreate(o, id, snap.quantity)
  <2>1. n = Count(o, "capacity")
    BY <1>2 DEF Adopt
  <2> QED BY <2>1, CountKeeps DEF IInv, Breaks
<1>3. CASE CanCreate(o, id, snap.quantity)
  <2>1. snap.state \notin Terminal
    BY <1>1 DEF Terminal
  <2>2. Min({snap.leaves, snap.quantity}) = snap.leaves
        /\ Min({snap.filled, snap.quantity}) = snap.filled
    BY <1>1, MinOfTwo
  <2>3. n = [taken EXCEPT !.order[id].leaves = snap.leaves, !.order[id].filled = snap.filled,
                          !.order[id].state = snap.state]
    BY <1>3, <2>1, <2>2 DEF Adopt
  <2>4. /\ IInv(booked) /\ id \in Working(booked)
        /\ booked.order[id] =
             [symbol |-> snap.symbol, side |-> snap.side, quantity |-> snap.quantity,
              filled |-> 0, leaves |-> snap.quantity, state |-> "PendingNew", age |-> 0]
    BY <1>1, <1>3, CreateKeeps
  <2> HIDE DEF booked
  <2>5. /\ Typed(booked) /\ Exact(booked) /\ Settled(booked, {}) /\ id \in Tracked(booked)
        /\ Sound(booked, {id})
    BY <2>4 DEF IInv, Sound, Working, Settled
  <2>6. ExposureMoved(booked, taken, snap.symbol, snap.side, snap.leaves - snap.quantity)
    <3>1. /\ "exposure" \in DOMAIN booked /\ "gross" \in DOMAIN booked
          /\ snap.leaves - snap.quantity \in Int
          /\ booked.exposure \in [Symbol -> [Side -> Nat]]
          /\ booked.gross = GrossOf(booked.exposure)
      BY <1>1, <2>5 DEF Typed, Exact
    <3> QED BY <3>1, <1>1, AddExposureKeeps
  <2> HIDE DEF taken
  <2>7. /\ DOMAIN n = DOMAIN booked
        /\ n.order = [booked.order EXCEPT ![id] = r]
        /\ n.retired = booked.retired /\ n.open = booked.open /\ n.next = booked.next
        /\ n.breaks = booked.breaks
        /\ n.exposure = taken.exposure /\ n.gross = taken.gross
    <3>1. \A f \in {"order", "retired", "open", "next", "breaks"} : taken[f] = booked[f]
      BY <2>5, <2>6 DEF Typed, ExposureMoved
    <3>2. DOMAIN taken = {"order", "retired", "open", "next", "exposure", "gross", "breaks"}
      BY <2>5, <2>6 DEF Typed, ExposureMoved
    <3>3. n.order = [taken.order EXCEPT ![id].leaves = snap.leaves, ![id].filled = snap.filled,
                                        ![id].state = snap.state]
      BY <2>3, <3>2
    <3>4. [booked.order EXCEPT ![id].leaves = snap.leaves, ![id].filled = snap.filled,
                               ![id].state = snap.state] = [booked.order EXCEPT ![id] = r]
      BY <2>5 DEF Typed, Tracked
    <3> QED BY <2>3, <2>6, <3>1, <3>2, <3>3, <3>4 DEF ExposureMoved
  <2> HIDE DEF n
  <2>8. /\ r \in OrderRecord
        /\ r.symbol = snap.symbol /\ r.side = snap.side
        /\ r.state \in Live /\ r.leaves = snap.leaves /\ r.filled = snap.filled
        /\ r.quantity = snap.quantity
    <3> DEFINE q == booked.order[id]
    <3>1. q \in OrderRecord
      BY <2>5 DEF Typed
    <3>2. q.symbol = snap.symbol /\ q.side = snap.side /\ q.quantity = snap.quantity
      BY <2>4
    <3>3. r = [q EXCEPT !.leaves = snap.leaves, !.filled = snap.filled, !.state = snap.state]
      OBVIOUS
    <3> HIDE DEF q, r
    <3> QED BY <3>1, <3>2, <3>3, <1>1 DEF OrderRecord, Live
  <2> HIDE DEF r
  <2>9. Rewrites(booked, n, id, r)
    <3>1. /\ booked.order[id].symbol = snap.symbol /\ booked.order[id].side = snap.side
          /\ booked.order[id].leaves = snap.quantity
      BY <2>4
    <3>2. n.breaks \subseteq Breaks
      BY <2>5, <2>7 DEF Typed
    <3>3. r.filled <= r.quantity
      BY <1>1, <2>8
    <3> QED BY <3>1, <3>2, <3>3, <1>1, <2>6, <2>7, <2>8 DEF Rewrites, ExposureMoved
  <2>10. r.leaves = r.quantity - r.filled
    BY <1>1, <2>8
  <2> QED BY <2>4, <2>5, <2>9, <2>10, RewriteKeeps DEF n
<1> QED BY <1>2, <1>3

-----------------------------------------------------------------------------

\* retire() of a single order.
LEMMA RetireOneKeeps ==
  ASSUME NEW o, NEW x \in Working(o), Sound(o, {x}), NEW final \in Terminal
  PROVE  IInv(Retire(o, <<x>>, final))
<1> DEFINE ids == <<x>>
<1>1. x \in Nat \ {0}
  BY DEF Working, Sound, Typed
<1>2. ids \in Seq(Nat \ {0}) /\ Range(ids) = {x} /\ NoRepeats(ids)
  BY <1>1 DEF Range, NoRepeats
<1> HIDE DEF ids
<1>3. Range(ids) \subseteq Working(o) /\ Sound(o, Range(ids))
  BY <1>2
<1>4. IInv(Retire(o, ids, final))
  BY <1>2, <1>3, RetireKeeps
<1> QED BY <1>4 DEF ids

\* Booking an execution preserves the invariant, but for an order that is now
\* filled and still has to be retired.
LEMMA ExecuteKeeps ==
  ASSUME NEW o, IInv(o), NEW x \in Working(o), NEW quantity \in Nat \ {0}
  PROVE  LET n == Execute(o, x, quantity)
         IN  /\ Sound(n, {x}) /\ x \in Working(n)
             /\ n.order[x].state = o.order[x].state
             /\ n.order[x].leaves # 0 => n.order[x].leaves = n.order[x].quantity - n.order[x].filled
<1> DEFINE old     == o.order[x]
           flagged == IF quantity > old.leaves THEN Count(o, "overfill") ELSE o
           filled  == old.filled + quantity
           left    == LeavesAfter(old, quantity)
           r       == [old EXCEPT !.filled = filled, !.leaves = left]
           mid     == [flagged EXCEPT !.order[x].filled = filled, !.order[x].leaves = left]
           n       == Execute(o, x, quantity)
           delta   == -Consumed(old, quantity)
<1>1. Typed(o) /\ Exact(o) /\ Flagged(o) /\ Settled(o, {}) /\ Sound(o, {x}) /\ Sound(o, {})
  BY DEF IInv, Sound, Settled
<1>2. x \in Tracked(o) /\ old \in OrderRecord /\ old.state \in Live
      /\ old.leaves = old.quantity - old.filled
  BY <1>1 DEF Working, Typed, Settled
<1>3. /\ old.leaves \in Nat /\ old.filled \in Nat /\ old.quantity \in Nat /\ filled \in Nat
      /\ old.symbol \in Symbol /\ old.side \in Side
  BY <1>2 DEF OrderRecord
<1>4. left = (IF quantity <= old.leaves THEN old.leaves - quantity ELSE 0) /\ left \in Nat
  BY <1>2, <1>3 DEF LeavesAfter, AtLeastZero
<1>5. delta = left - old.leaves /\ delta \in Int
  <2>1. Consumed(old, quantity) = IF quantity <= old.leaves THEN quantity ELSE old.leaves
    BY <1>3, MinOfTwo DEF Consumed
  <2> QED BY <2>1, <1>3, <1>4
<1>6. n = AddExposure(mid, old.symbol, old.side, delta)
  BY DEF Execute
<1> HIDE DEF delta, left, n
<1>7. /\ r \in OrderRecord
      /\ r.symbol = old.symbol /\ r.side = old.side /\ r.state = old.state
      /\ r.quantity = old.quantity /\ r.filled = filled /\ r.leaves = left
  <2> HIDE DEF old, filled
  <2> QED BY <1>2, <1>3, <1>4 DEF OrderRecord
<1>8. /\ DOMAIN flagged = DOMAIN o
      /\ \A f \in DOMAIN o \ {"breaks"} : flagged[f] = o[f]
      /\ flagged.breaks \subseteq Breaks /\ o.breaks \subseteq flagged.breaks
      /\ quantity > old.leaves => "overfill" \in flagged.breaks
  <2>1. o.breaks \subseteq Breaks
    BY <1>1 DEF Typed
  <2>2. CASE quantity > old.leaves
    <3>1. "overfill" \in Breaks
      BY DEF Breaks
    <3>2. flagged = Count(o, "overfill")
      BY <2>2
    <3> HIDE DEF flagged
    <3> QED BY <3>1, <3>2, <2>1, <1>1, CountKeeps
  <2>3. CASE ~(quantity > old.leaves)
    BY <2>1, <2>3
  <2> QED BY <2>2, <2>3
<1> HIDE DEF flagged
<1>9. /\ DOMAIN mid = DOMAIN o
      /\ mid.order = [o.order EXCEPT ![x] = r]
      /\ \A f \in DOMAIN o \ {"order", "breaks"} : mid[f] = o[f]
      /\ mid.breaks = flagged.breaks
  <2>1. flagged.order = o.order /\ "order" \in DOMAIN flagged
    BY <1>1, <1>8 DEF Typed
  <2>2. mid.order = [o.order EXCEPT ![x].filled = filled, ![x].leaves = left]
    BY <2>1
  <2>3. [o.order EXCEPT ![x].filled = filled, ![x].leaves = left] = [o.order EXCEPT ![x] = r]
    BY <1>1, <1>2 DEF Typed, Tracked
  <2>4. /\ DOMAIN mid = DOMAIN flagged
        /\ \A f \in DOMAIN flagged \ {"order"} : mid[f] = flagged[f]
    OBVIOUS
  <2>5. "breaks" \in DOMAIN flagged
    BY <1>1, <1>8 DEF Typed
  <2> HIDE DEF mid, r
  <2> QED BY <2>2, <2>3, <2>4, <2>5, <1>8
<1> HIDE DEF mid, r
<1>10. ExposureMoved(mid, n, old.symbol, old.side, delta)
  <2>1. mid.exposure = o.exposure /\ mid.gross = o.gross
        /\ "exposure" \in DOMAIN mid /\ "gross" \in DOMAIN mid
    BY <1>1, <1>9 DEF Typed
  <2>2. mid.exposure \in [Symbol -> [Side -> Nat]] /\ mid.gross = GrossOf(mid.exposure)
    BY <2>1, <1>1 DEF Typed, Exact
  <2> HIDE DEF old
  <2> QED BY <2>1, <2>2, <1>3, <1>5, <1>6, AddExposureKeeps
<1>11. /\ DOMAIN n = DOMAIN o
       /\ n.order = [o.order EXCEPT ![x] = r]
       /\ n.retired = o.retired /\ n.open = o.open /\ n.next = o.next
       /\ n.breaks = flagged.breaks
  <2>1. \A f \in {"order", "retired", "open", "next", "breaks"} : n[f] = mid[f]
    BY <1>1, <1>9, <1>10 DEF ExposureMoved, Typed
  <2>2. \A f \in {"retired", "open", "next"} : mid[f] = o[f]
    BY <1>1, <1>9 DEF Typed
  <2> QED BY <2>1, <2>2, <1>9, <1>10 DEF ExposureMoved
<1>12. Rewrites(o, n, x, r)
  <2>1. r.filled > r.quantity => "overfill" \in n.breaks
    <3>1. r.filled > r.quantity => quantity > old.leaves
      BY <1>2, <1>3, <1>7
    <3> QED BY <3>1, <1>8, <1>11
  <2>2. mid.exposure = o.exposure
    BY <1>1, <1>9 DEF Typed
  <2>3. \A s \in Symbol, d \in Side :
          n.exposure[s][d] =
            IF s = r.symbol /\ d = r.side
            THEN AtLeastZero(o.exposure[s][d] + (r.leaves - old.leaves))
            ELSE o.exposure[s][d]
    BY <2>2, <1>5, <1>7, <1>10 DEF ExposureMoved
  <2> QED BY <2>1, <2>3, <1>2, <1>7, <1>8, <1>10, <1>11 DEF Rewrites, ExposureMoved
<1>13. n.order[x] = r
  BY <1>2, <1>11 DEF Tracked
<1>14. Sound(n, {x}) /\ x \in Working(n)
  BY <1>1, <1>12, RewriteKeeps
<1>15. r.leaves # 0 => r.leaves = r.quantity - r.filled
  BY <1>2, <1>3, <1>4, <1>7
<1> QED BY <1>7, <1>13, <1>14, <1>15 DEF n

\* A fill preserves the invariant, whatever quantity the venue reports.
LEMMA ApplyFillKeeps ==
  ASSUME NEW o, IInv(o), NEW x \in Working(o), NEW quantity \in Nat \ {0}
  PROVE  IInv(ApplyFill(o, x, quantity))
<1> DEFINE hit == Execute(o, x, quantity)
           n   == ApplyFill(o, x, quantity)
<1>1. /\ Sound(hit, {x}) /\ x \in Working(hit)
      /\ hit.order[x].leaves # 0 =>
           hit.order[x].leaves = hit.order[x].quantity - hit.order[x].filled
  BY ExecuteKeeps
<1>2. n = IF hit.order[x].leaves = 0 THEN Retire(hit, <<x>>, "Filled")
          ELSE IF hit.order[x].state = "PendingCancel" THEN hit
          ELSE SetState(hit, x, "PartiallyFilled")
  BY DEF ApplyFill
<1> HIDE DEF hit, n
<1>3. ASSUME hit.order[x].leaves = 0 PROVE IInv(n)
  BY <1>1, <1>2, <1>3, RetireOneKeeps DEF Terminal
<1>4. ASSUME hit.order[x].leaves # 0, hit.order[x].state = "PendingCancel" PROVE IInv(n)
  <2>1. Settled(hit, {})
    BY <1>1, <1>4 DEF Sound, Settled, Working
  <2> QED BY <2>1, <1>1, <1>2, <1>4 DEF IInv, Sound
<1>5. ASSUME hit.order[x].leaves # 0, hit.order[x].state # "PendingCancel" PROVE IInv(n)
  BY <1>1, <1>2, <1>5, SetStateKeeps DEF Live
<1> QED BY <1>3, <1>4, <1>5 DEF n

\* A report of a known kind.
ReadableReport(rep) == rep.type \in ExecType /\ rep.quantity \in Nat

\* apply() preserves the invariant, whatever report it is given.
LEMMA ApplyKeeps ==
  ASSUME NEW o, IInv(o), NEW rep, ReadableReport(rep)
  PROVE  IInv(Apply(o, rep))
<1> DEFINE n == Apply(o, rep)
<1>1. rep.type \in ExecType /\ rep.quantity \in Nat
  BY DEF ReadableReport
<1>2. CASE rep.id \notin Tracked(o)
  <2>1. n = Count(o, IF rep.id # 0 /\ rep.id < o.next THEN "late" ELSE "unknown")
    BY <1>2 DEF Apply
  <2> QED BY <2>1, CountKeeps DEF IInv, Breaks
<1>3. CASE rep.id \in Tracked(o) /\ ~Applies(o, rep)
  <2>1. n = Count(o, "invalid")
    BY <1>3 DEF Apply
  <2> QED BY <2>1, CountKeeps DEF IInv, Breaks
<1>4. CASE Applies(o, rep)
  <2>1. rep.id \in Working(o) /\ (rep.type = "Fill" => rep.quantity \in Nat \ {0})
    BY <1>1, <1>4 DEF Applies, AcceptedIn, ExecType, Working, Live
  <2>2. /\ Sound(o, {rep.id})
        /\ o.order[rep.id].leaves = o.order[rep.id].quantity - o.order[rep.id].filled
    BY <2>1 DEF IInv, Sound, Settled, Working
  <2>3. rep.id \in Tracked(o)
    BY <1>4 DEF Applies
  <2>4. CASE rep.type = "Acked"
    <3>1. n = SetState(o, rep.id, "New")
      BY <1>4, <2>3, <2>4 DEF Apply
    <3> QED BY <3>1, <2>1, <2>2, SetStateKeeps DEF Live
  <2>5. CASE rep.type = "VenueRejected"
    <3>1. n = Retire(o, <<rep.id>>, "Rejected")
      BY <1>4, <2>3, <2>5 DEF Apply
    <3> QED BY <3>1, <2>1, <2>2, RetireOneKeeps DEF Terminal
  <2>6. CASE rep.type = "Fill"
    <3>1. n = ApplyFill(o, rep.id, rep.quantity)
      BY <1>4, <2>3, <2>6 DEF Apply
    <3> QED BY <3>1, <2>1, <2>6, ApplyFillKeeps
  <2>7. CASE rep.type = "Cancelled"
    <3>1. n = Retire(o, <<rep.id>>, "Cancelled")
      BY <1>4, <2>3, <2>7 DEF Apply
    <3> QED BY <3>1, <2>1, <2>2, RetireOneKeeps DEF Terminal
  <2>8. CASE rep.type = "CancelRejected"
    <3>1. PICK state \in Live : n = SetState(o, rep.id, state)
      BY <1>4, <2>3, <2>8 DEF Apply, Live
    <3> QED BY <3>1, <2>1, <2>2, SetStateKeeps
  <2> QED BY <1>1, <2>4, <2>5, <2>6, <2>7, <2>8 DEF ExecType, AcceptedIn
<1> QED BY <1>2, <1>3, <1>4

\* request_cancel() preserves the invariant, whatever id it is given.
LEMMA RequestCancelKeeps ==
  ASSUME NEW o, IInv(o), NEW id
  PROVE  IInv(RequestCancel(o, id))
<1>1. CASE ~Cancellable(o, id)
  BY <1>1 DEF RequestCancel
<1>2. CASE Cancellable(o, id)
  <2>1. id \in Working(o)
    BY <1>2 DEF Cancellable, Working, Live
  <2>2. Sound(o, {id}) /\ o.order[id].leaves = o.order[id].quantity - o.order[id].filled
    BY <2>1 DEF IInv, Sound, Settled, Working
  <2> QED BY <1>2, <2>1, <2>2, SetStateKeeps DEF RequestCancel, Live
<1> QED BY <1>1, <1>2

\* sweep_timeouts() preserves the invariant, in whatever order the index is walked.
LEMMA SweepKeeps ==
  ASSUME NEW o, IInv(o), NEW walk \in WalkOrders(Overdue(o))
  PROVE  IInv(SweepTimeouts(o, walk))
<1> DEFINE S == Overdue(o)
<1>1. S \subseteq Working(o) /\ S \subseteq Tracked(o)
  BY DEF Overdue, Unanswered, Working, Live
<1>2. IsFiniteSet(S)
  <2>1. IsFiniteSet(Tracked(o))
    BY DEF IInv, Sound, Typed
  <2> QED BY <2>1, <1>1, FS_Subset
<1>3. walk \in [1 .. Cardinality(S) -> S] /\ Range(walk) = S
  BY DEF WalkOrders
<1> HIDE DEF S
<1>4. walk \in Seq(S) /\ NoRepeats(walk)
  BY <1>2, <1>3, EnumerationOnce
<1>5. walk \in Seq(Nat \ {0})
  <2>1. S \subseteq Nat \ {0}
    BY <1>1 DEF IInv, Sound, Typed
  <2>2. walk \in [1 .. Cardinality(S) -> Nat \ {0}] /\ Cardinality(S) \in Nat
    BY <2>1, <1>2, <1>3, FS_CardinalityType
  <2> QED BY <2>2
<1>6. Sound(o, Range(walk)) /\ Range(walk) \subseteq Working(o)
  BY <1>1, <1>3 DEF IInv, Sound, Settled
<1> QED BY <1>4, <1>5, <1>6, RetireKeeps DEF SweepTimeouts, Terminal

\* The passing of time preserves the invariant.
LEMMA OlderKeeps ==
  ASSUME NEW o, IInv(o)
  PROVE  IInv(Older(o))
<1> DEFINE n == Older(o)
<1>1. /\ DOMAIN n = DOMAIN o
      /\ n.order = [i \in Tracked(o) |->
                      IF i \in Unanswered(o) THEN Aged(o.order[i]) ELSE o.order[i]]
      /\ n.retired = o.retired /\ n.open = o.open /\ n.next = o.next /\ n.breaks = o.breaks
      /\ n.exposure = o.exposure /\ n.gross = o.gross
  <2> DEFINE order == [i \in Tracked(o) |->
                        IF i \in Unanswered(o) THEN Aged(o.order[i]) ELSE o.order[i]]
  <2>1. n = [o EXCEPT !.order = order]
    BY DEF Older, Tracked
  <2> HIDE DEF order, n
  <2>2. DOMAIN o = {"order", "retired", "open", "next", "exposure", "gross", "breaks"}
    BY DEF IInv, Sound, Typed
  <2>3. /\ DOMAIN n = DOMAIN o /\ n.order = order
        /\ n.retired = o.retired /\ n.open = o.open /\ n.next = o.next /\ n.breaks = o.breaks
        /\ n.exposure = o.exposure /\ n.gross = o.gross
    BY <2>1, <2>2
  <2> QED BY <2>3 DEF order
<1>2. ASSUME NEW r \in OrderRecord
      PROVE  /\ Aged(r) \in OrderRecord
             /\ Aged(r).symbol = r.symbol /\ Aged(r).side = r.side
             /\ Aged(r).leaves = r.leaves /\ Aged(r).filled = r.filled
             /\ Aged(r).quantity = r.quantity /\ Aged(r).state = r.state
  <2> DEFINE age == r.age
             now == Min({age + 1, AckTimeout})
  <2>1. age \in Nat /\ age + 1 \in Int /\ AckTimeout \in Nat
    BY OmsConstants DEF OmsConstants, OrderRecord
  <2>2. now \in 0 .. AckTimeout
    <3> HIDE DEF age
    <3>1. now = IF age + 1 <= AckTimeout THEN age + 1 ELSE AckTimeout
      BY <2>1, MinOfTwo
    <3> QED BY <2>1, <3>1
  <2>3. Aged(r) = [r EXCEPT !.age = now]
    BY DEF Aged
  <2> HIDE DEF now
  <2> QED BY <2>2, <2>3 DEF OrderRecord
<1> HIDE DEF n
<1>3. /\ Tracked(n) = Tracked(o)
      /\ \A i \in Tracked(o) :
           /\ n.order[i] \in OrderRecord
           /\ n.order[i].symbol = o.order[i].symbol /\ n.order[i].side = o.order[i].side
           /\ n.order[i].leaves = o.order[i].leaves /\ n.order[i].filled = o.order[i].filled
           /\ n.order[i].quantity = o.order[i].quantity
           /\ n.order[i].state = o.order[i].state
  BY <1>1, <1>2 DEF Tracked, IInv, Sound, Typed
<1>4. n.order \in [Tracked(n) -> OrderRecord]
  BY <1>1, <1>3
<1>5. Working(n) = Working(o) /\ Finished(n) = Finished(o)
  BY <1>3 DEF Working, Finished
<1>6. \A s, d : Lots(n.order, s, d) = Lots(o.order, s, d)
  BY <1>3 DEF Lots, Tracked
<1>7. Typed(n)
  BY <1>1, <1>3, <1>4 DEF IInv, Sound, Typed
<1>8. Exact(n) /\ Books(n)
  BY <1>1, <1>5, <1>6 DEF IInv, Sound, Exact, Books
<1>9. Flagged(n) /\ Settled(n, {})
  BY <1>1, <1>3 DEF IInv, Sound, Flagged, Settled
<1> QED BY <1>7, <1>8, <1>9 DEF IInv, Sound, n

\* The state of a new or cleared order manager satisfies the invariant.
LEMMA InitSound == IInv(InitOms)
<1> DEFINE o == InitOms
<1>1. /\ DOMAIN o = {"order", "retired", "open", "next", "exposure", "gross", "breaks"}
      /\ o.order = [i \in {} |-> i] /\ o.retired = << >> /\ o.open = 0 /\ o.next = 1
      /\ o.exposure = [s \in Symbol |-> [d \in Side |-> 0]] /\ o.gross = 0 /\ o.breaks = {}
  BY DEF InitOms
<1> HIDE DEF o
<1>2. Tracked(o) = {} /\ Working(o) = {} /\ Finished(o) = {}
  BY <1>1 DEF Tracked, Working, Finished
<1>3. Typed(o)
  <2>1. o.order \in [Tracked(o) -> OrderRecord]
    BY <1>1, <1>2
  <2>2. o.exposure \in [Symbol -> [Side -> Nat]]
    BY <1>1
  <2>3. o.retired \in Seq(Nat \ {0})
    BY <1>1
  <2> QED BY <2>1, <2>2, <2>3, <1>1, <1>2, FS_EmptySet DEF Typed
<1>4. Exact(o)
  <2>1. \A s, d : Lots(o.order, s, d) = {}
    BY <1>1 DEF Lots
  <2>2. GrossUnits(o.exposure) = {}
    <3>1. \A s \in Symbol : Magnitude(Net(o.exposure[s])) = 0
      BY <1>1 DEF Magnitude, Net, Side
    <3> QED BY <3>1 DEF GrossUnits
  <2> QED BY <2>1, <2>2, <1>1, FS_EmptySet DEF Exact, GrossOf
<1>5. Books(o)
  <2>1. Range(o.retired) = {} /\ NoRepeats(o.retired) /\ Len(o.retired) = 0
    BY <1>1 DEF Range, NoRepeats
  <2> QED BY <2>1, <1>1, <1>2, FS_EmptySet, OmsConstants DEF OmsConstants, Books
<1>6. Flagged(o) /\ Settled(o, {})
  BY <1>2 DEF Flagged, Settled
<1> QED BY <1>3, <1>4, <1>5, <1>6 DEF IInv, Sound, o

-----------------------------------------------------------------------------

\* n tracks no new order, issues no id and differs from o on X at most.
Within(o, n, X) ==
  /\ n.next = o.next
  /\ Tracked(n) \subseteq Tracked(o)
  /\ \A i \in Tracked(n) \ X : n.order[i] = o.order[i]

\* Ids move forward, finished orders keep their records, and whatever entered
\* PendingNew took an id that had not been issued.
Advances(o, n) ==
  /\ n.next >= o.next
  /\ \A i \in Finished(o) \cap Tracked(n) : n.order[i] = o.order[i]
  /\ \A i \in Unanswered(n) \ Tracked(o) : o.next <= i /\ i < n.next

\* Changing working orders only is an advance.
LEMMA WithinAdvances ==
  ASSUME NEW o, Typed(o), NEW n, NEW X \in SUBSET Working(o), Within(o, n, X)
  PROVE  Advances(o, n)
<1>1. X \cap Finished(o) = {}
  BY WorkingOrFinished
<1>2. o.next \in Nat
  BY DEF Typed
<1> QED BY <1>1, <1>2 DEF Within, Advances, Unanswered

\* SetState changes one order.
LEMMA SetStateWithin ==
  ASSUME NEW o, Typed(o), NEW x, NEW state
  PROVE  Within(o, SetState(o, x, state), {x})
BY DEF Typed, Within, SetState, Tracked

\* retire() changes the orders it retires.
LEMMA RetireWithin ==
  ASSUME NEW o, Typed(o), NEW ids, NEW final
  PROVE  Within(o, Retire(o, ids, final), Range(ids))
BY DEF Typed, Within, Retire, Tracked

\* Booking an execution changes one order.
LEMMA ExecuteWithin ==
  ASSUME NEW o, IInv(o), NEW x \in Working(o), NEW quantity \in Nat \ {0}
  PROVE  Within(o, Execute(o, x, quantity), {x})
<1> DEFINE r       == o.order[x]
           flagged == IF quantity > r.leaves THEN Count(o, "overfill") ELSE o
           left    == LeavesAfter(r, quantity)
           mid     == [flagged EXCEPT !.order[x].filled = r.filled + quantity,
                                      !.order[x].leaves = left]
           n       == Execute(o, x, quantity)
<1>1. n = AddExposure(mid, r.symbol, r.side, -Consumed(r, quantity))
  BY DEF Execute
<1>2. DOMAIN o = {"order", "retired", "open", "next", "exposure", "gross", "breaks"}
  BY DEF IInv, Sound, Typed
<1>3. DOMAIN flagged = DOMAIN o /\ flagged.order = o.order /\ flagged.next = o.next
  BY <1>2 DEF Count
<1> HIDE DEF flagged, left, r
<1>4. /\ DOMAIN mid = DOMAIN o /\ mid.next = o.next
      /\ DOMAIN mid.order = DOMAIN o.order
      /\ \A i \in DOMAIN o.order \ {x} : mid.order[i] = o.order[i]
  BY <1>2, <1>3
<1> HIDE DEF mid
<1>5. n.order = mid.order /\ n.next = mid.next
  BY <1>1, <1>2, <1>4 DEF AddExposure
<1> HIDE DEF n
<1>6. Within(o, n, {x})
  BY <1>4, <1>5 DEF Within, Tracked
<1> QED BY <1>6 DEF n

\* A fill changes one order.
LEMMA ApplyFillWithin ==
  ASSUME NEW o, IInv(o), NEW x \in Working(o), NEW quantity \in Nat \ {0}
  PROVE  Within(o, ApplyFill(o, x, quantity), {x})
<1> DEFINE hit == Execute(o, x, quantity)
           n   == ApplyFill(o, x, quantity)
<1>1. Typed(hit) /\ Within(o, hit, {x})
  BY ExecuteKeeps, ExecuteWithin DEF Sound
<1>2. n \in {Retire(hit, <<x>>, "Filled"), hit, SetState(hit, x, "PartiallyFilled")}
  BY DEF ApplyFill
<1> HIDE DEF hit, n
<1>3. Range(<<x>>) = {x}
  BY DEF Range
<1>4. Within(hit, n, {x}) \/ n = hit
  BY <1>1, <1>2, <1>3, RetireWithin, SetStateWithin
<1>5. Within(o, n, {x})
  BY <1>1, <1>4 DEF Within
<1> QED BY <1>5 DEF n

\* apply() issues no id and touches no finished order.
LEMMA ApplyAdvances ==
  ASSUME NEW o, IInv(o), NEW rep, ReadableReport(rep)
  PROVE  Advances(o, Apply(o, rep))
<1> DEFINE n == Apply(o, rep)
           x == rep.id
<1>1. rep.type \in ExecType /\ rep.quantity \in Nat /\ Typed(o)
  BY DEF ReadableReport, IInv, Sound
<1>2. CASE ~Applies(o, rep)
  <2>1. \E kind : n = Count(o, kind)
    BY <1>2 DEF Apply, Applies
  <2>2. Within(o, n, {})
    BY <2>1, <1>1 DEF Count, Within, Tracked, Typed
  <2> QED BY <2>2, <1>1, WithinAdvances
<1>3. CASE Applies(o, rep)
  <2>1. x \in Tracked(o) /\ x \in Working(o) /\ (rep.type = "Fill" => rep.quantity \in Nat \ {0})
    BY <1>1, <1>3 DEF Applies, AcceptedIn, ExecType, Working, Live
  <2>2. \/ \E state : n = SetState(o, x, state)
        \/ \E final : n = Retire(o, <<x>>, final)
        \/ rep.type = "Fill" /\ n = ApplyFill(o, x, rep.quantity)
    BY <1>1, <1>3, <2>1 DEF Apply, ExecType, AcceptedIn
  <2>3. Range(<<x>>) = {x}
    BY DEF Range
  <2> HIDE DEF n, x
  <2>4. Within(o, n, {x})
    BY <1>1, <2>1, <2>2, <2>3, SetStateWithin, RetireWithin, ApplyFillWithin
  <2>5. Advances(o, n)
    BY <1>1, <2>1, <2>4, WithinAdvances
  <2> QED BY <2>5 DEF n
<1> QED BY <1>2, <1>3

\* create_with_id() adds at most one record, and touches no other.
LEMMA CreateAdvances ==
  ASSUME NEW o, IInv(o), NEW id \in Nat, NEW s, NEW d, NEW quantity
  PROVE  LET n == CreateWithId(o, id, s, d, quantity)
         IN  /\ DOMAIN n = DOMAIN o
             /\ o.next <= n.next /\ (id >= o.next /\ id \in Tracked(n) => id < n.next)
             /\ Tracked(o) \subseteq Tracked(n) /\ Tracked(n) \subseteq Tracked(o) \cup {id}
             /\ \A i \in Tracked(o) : n.order[i] = o.order[i]
             /\ o.breaks \subseteq n.breaks
             /\ ~CanCreate(o, id, quantity) => n.next = o.next /\ n.order = o.order
             /\ CanCreate(o, id, quantity) /\ id >= o.next => n.next = id + 1
<1> DEFINE n == CreateWithId(o, id, s, d, quantity)
<1>1. /\ DOMAIN o = {"order", "retired", "open", "next", "exposure", "gross", "breaks"}
      /\ o.next \in Nat /\ \A i \in Tracked(o) : i < o.next
  BY DEF IInv, Sound, Typed
<1>2. CASE ~CanCreate(o, id, quantity)
  <2>1. n = Count(o, "capacity")
    BY <1>2 DEF CreateWithId
  <2>2. /\ DOMAIN n = DOMAIN o /\ n.next = o.next /\ n.order = o.order
        /\ o.breaks \subseteq n.breaks
    BY <2>1, <1>1 DEF Count
  <2> HIDE DEF n
  <2> QED BY <1>2, <2>2, <1>1 DEF n, Tracked
<1>3. CASE CanCreate(o, id, quantity)
  <2> DEFINE rec == [symbol |-> s, side |-> d, quantity |-> quantity, filled |-> 0,
                     leaves |-> quantity, state |-> "PendingNew", age |-> 0]
             new == [i \in Tracked(o) \cup {id} |-> IF i = id THEN rec ELSE o.order[i]]
             mid == [o EXCEPT !.next = IF id >= o.next THEN id + 1 ELSE o.next,
                              !.order = new, !.open = o.open + 1]
  <2>1. id \notin Tracked(o) /\ o.open < MaxOpenOrders
    BY <1>3 DEF CanCreate
  <2>2. WithFreeSlot(o) = o
    BY <2>1, RoomForOneMore DEF WithFreeSlot
  <2>3. n = AddExposure(mid, s, d, quantity)
    BY <1>3, <2>2 DEF CreateWithId, Tracked
  <2>4. /\ DOMAIN mid = DOMAIN o /\ mid.order = new
        /\ mid.next = IF id >= o.next THEN id + 1 ELSE o.next
        /\ mid.breaks = o.breaks
    BY <1>1
  <2> HIDE DEF mid
  <2>5. /\ DOMAIN n = DOMAIN o /\ n.order = new /\ n.next = mid.next
        /\ n.breaks = mid.breaks
    BY <2>3, <2>4, <1>1 DEF AddExposure
  <2> HIDE DEF n
  <2> QED BY <1>3, <2>1, <2>4, <2>5, <1>1 DEF n, Tracked
<1> QED BY <1>2, <1>3

\* adopt() adds no unanswered order, and touches no other record.
LEMMA AdoptAdvances ==
  ASSUME NEW o, IInv(o), NEW snap, OpenSnapshot(snap)
  PROVE  Advances(o, Adopt(o, snap))
<1> DEFINE id     == snap.id
           booked == CreateWithId(o, id, snap.symbol, snap.side, snap.quantity)
           n      == Adopt(o, snap)
<1>1. /\ DOMAIN o = {"order", "retired", "open", "next", "exposure", "gross", "breaks"}
      /\ o.next \in Nat /\ id \in Nat /\ snap.state \in {"New", "PartiallyFilled"}
      /\ Typed(o)
  BY DEF IInv, Sound, Typed, OpenSnapshot
<1>2. CASE ~CanCreate(o, id, snap.quantity)
  <2>1. n = Count(o, "capacity")
    BY <1>2 DEF Adopt
  <2>2. Within(o, n, {})
    BY <2>1, <1>1 DEF Count, Within, Tracked
  <2> QED BY <2>2, <1>1, WithinAdvances
<1>3. CASE CanCreate(o, id, snap.quantity)
  <2> DEFINE leaves == Min({snap.leaves, snap.quantity})
             filled == Min({snap.filled, snap.quantity})
             taken  == AddExposure(booked, snap.symbol, snap.side, leaves - snap.quantity)
  <2>1. /\ DOMAIN booked = DOMAIN o
        /\ o.next <= booked.next
        /\ Tracked(o) \subseteq Tracked(booked) /\ Tracked(booked) \subseteq Tracked(o) \cup {id}
        /\ \A i \in Tracked(o) : booked.order[i] = o.order[i]
    BY <1>1, CreateAdvances
  <2>2. n = [taken EXCEPT !.order[id].leaves = leaves, !.order[id].filled = filled,
                          !.order[id].state = snap.state]
    BY <1>1, <1>3 DEF Adopt, Terminal
  <2>3. id \notin Tracked(o)
    BY <1>3 DEF CanCreate
  <2> HIDE DEF booked, leaves, filled
  <2>4. DOMAIN taken = DOMAIN booked /\ taken.order = booked.order /\ taken.next = booked.next
    BY <1>1, <2>1 DEF AddExposure
  <2> HIDE DEF taken
  <2>5. /\ n.next = booked.next
        /\ DOMAIN n.order = DOMAIN booked.order
        /\ \A i \in DOMAIN booked.order \ {id} : n.order[i] = booked.order[i]
    BY <1>1, <2>1, <2>2, <2>4
  <2>6. n.order[id].state = snap.state
    <3>1. /\ snap.symbol \in Symbol /\ snap.side \in Side /\ snap.quantity \in Nat \ {0}
      BY DEF OpenSnapshot
    <3>2. /\ id \in Working(booked)
          /\ booked.order[id] =
               [symbol |-> snap.symbol, side |-> snap.side, quantity |-> snap.quantity,
                filled |-> 0, leaves |-> snap.quantity, state |-> "PendingNew", age |-> 0]
      BY <1>1, <1>3, <3>1, CreateKeeps DEF booked
    <3>3. id \in DOMAIN booked.order /\ "state" \in DOMAIN booked.order[id]
      BY <3>2 DEF Working, Tracked
    <3> QED BY <1>1, <2>1, <2>2, <2>4, <3>3
  <2> HIDE DEF n
  <2>7. \A i \in Tracked(o) : n.order[i] = o.order[i]
    BY <2>1, <2>3, <2>5 DEF Tracked
  <2>8. Unanswered(n) \subseteq Tracked(o)
    BY <1>1, <2>1, <2>5, <2>6 DEF Unanswered, Tracked
  <2>9. Advances(o, n)
    BY <2>1, <2>5, <2>7, <2>8 DEF Advances, Finished
  <2> QED BY <2>9 DEF n
<1> QED BY <1>2, <1>3

-----------------------------------------------------------------------------

\* Order i is still findable in n, as the order it was, with no less filled.
SameOrder(o, n, i) ==
  /\ i \in Tracked(n)
  /\ \A f \in {"symbol", "side", "quantity"} : n.order[i][f] = o.order[i][f]
  /\ n.order[i].filled >= o.order[i].filled

\* An order whose record is untouched is the order it was.
LEMMA UntouchedIsSame ==
  ASSUME NEW o, Typed(o), NEW n, NEW i \in Tracked(o), i \in Tracked(n),
         n.order[i] = o.order[i]
  PROVE  SameOrder(o, n, i)
<1>1. o.order[i] \in OrderRecord
  BY DEF Typed
<1>2. o.order[i].filled \in Nat
  BY <1>1 DEF OrderRecord
<1> QED BY <1>2 DEF SameOrder

\* retire() takes out of the working set the orders it is given and no other; it
\* forgets none of the orders left, and none of its own unless it is given more
\* of them than the history holds.
LEMMA RetireRemembers ==
  ASSUME NEW o, Typed(o), Books(o), NEW ids \in Seq(Nat \ {0}), NoRepeats(ids),
         Range(ids) \subseteq Working(o), NEW final \in Terminal
  PROVE  LET n == Retire(o, ids, final)
         IN  /\ Working(n) = Working(o) \ Range(ids)
             /\ \A i \in Working(o) :
                  i \notin Range(ids) \/ Len(ids) <= RetiredHistory => SameOrder(o, n, i)
<1> DEFINE n         == Retire(o, ids, final)
           done      == Range(ids)
           ring      == o.retired \o ids
           drop      == AtLeastZero(Len(ring) - RetiredHistory)
           forgotten == {ring[k] : k \in 1 .. drop}
           final_(i) == [o.order[i] EXCEPT !.leaves = 0, !.state = final]
<1>1. /\ Tracked(n) = Tracked(o) \ forgotten
      /\ \A i \in Tracked(n) : n.order[i] = IF i \in done THEN final_(i) ELSE o.order[i]
  BY DEF Retire, Typed, Tracked
<1>2. Working(o) \cap Finished(o) = {} /\ Working(o) \subseteq Tracked(o)
  BY WorkingOrFinished
<1>3. /\ o.retired \in Seq(Nat \ {0}) /\ NoRepeats(o.retired)
      /\ Range(o.retired) = Finished(o) /\ Len(o.retired) <= RetiredHistory
  BY DEF Typed, Books
<1>4. /\ Len(o.retired) \in Nat /\ DOMAIN o.retired = 1 .. Len(o.retired)
      /\ Len(ids) \in Nat /\ DOMAIN ids = 1 .. Len(ids)
      /\ Len(ring) = Len(o.retired) + Len(ids)
      /\ \A k \in 1 .. Len(ring) :
           ring[k] = IF k <= Len(o.retired) THEN o.retired[k] ELSE ids[k - Len(o.retired)]
  BY <1>3, LenProperties, ConcatProperties
<1> HIDE DEF ring
<1>5. drop \in 0 .. Len(ring) /\ (Len(ids) <= RetiredHistory => drop <= Len(o.retired))
  BY <1>3, <1>4, OmsConstants DEF OmsConstants, AtLeastZero
<1> HIDE DEF drop
<1>6. ASSUME NEW i \in Working(o), i \in forgotten
      PROVE  i \in done /\ ~(Len(ids) <= RetiredHistory)
  <2>1. PICK k \in 1 .. drop : i = ring[k]
    BY <1>6
  <2>2. k > Len(o.retired)
    <3>1. SUFFICES ASSUME k <= Len(o.retired) PROVE FALSE
      BY <1>4, <1>5
    <3>2. i = o.retired[k] /\ k \in DOMAIN o.retired
      BY <2>1, <3>1, <1>4, <1>5
    <3>3. i \in Finished(o)
      BY <3>2, <1>3 DEF Range
    <3> QED BY <3>3, <1>2
  <2>3. k \in Nat /\ k <= drop /\ k \in 1 .. Len(ring) /\ k - Len(o.retired) \in 1 .. Len(ids)
    BY <2>1, <2>2, <1>4, <1>5
  <2>4. i = ids[k - Len(o.retired)]
    BY <2>1, <2>2, <2>3, <1>4
  <2>5. i \in done
    BY <2>3, <2>4, <1>4 DEF Range
  <2>6. ~(Len(ids) <= RetiredHistory)
    BY <2>2, <2>3, <1>4, <1>5
  <2> QED BY <2>5, <2>6
<1> HIDE DEF n, done, forgotten
<1>7. \A i \in Working(o) :
        /\ o.order[i] \in OrderRecord /\ o.order[i].filled \in Nat
        /\ final_(i).state = final /\ final_(i).filled = o.order[i].filled
        /\ \A f \in {"symbol", "side", "quantity"} : final_(i)[f] = o.order[i][f]
  <2> SUFFICES ASSUME NEW i \in Working(o), NEW r, r = o.order[i]
               PROVE  LET g == [r EXCEPT !.leaves = 0, !.state = final]
                      IN  /\ r \in OrderRecord /\ r.filled \in Nat
                          /\ g.state = final /\ g.filled = r.filled
                          /\ \A f \in {"symbol", "side", "quantity"} : g[f] = r[f]
    OBVIOUS
  <2>1. r \in OrderRecord
    BY <1>2 DEF Typed
  <2> QED BY <2>1 DEF OrderRecord
<1> HIDE DEF final_
<1>8. \A i \in Working(o) :
        i \notin done \/ Len(ids) <= RetiredHistory => SameOrder(o, n, i)
  BY <1>1, <1>2, <1>6, <1>7 DEF SameOrder
<1>9. Working(n) = Working(o) \ done
  <2>1. ASSUME NEW i \in Working(n) PROVE i \in Working(o) \ done
    <3>1. i \in Tracked(n) /\ n.order[i].state \in Live /\ i \in Tracked(o)
      BY <1>1 DEF Working
    <3>2. i \notin done
      BY <3>1, <1>1, <1>7 DEF Live, Terminal, done
    <3> QED BY <3>1, <3>2, <1>1 DEF Working
  <2>2. ASSUME NEW i \in Working(o), i \notin done PROVE i \in Working(n)
    BY <2>2, <1>1, <1>2, <1>6 DEF Working
  <2> QED BY <2>1, <2>2
<1> QED BY <1>8, <1>9 DEF n, done

\* retire() of a single order forgets no working order, itself included.
LEMMA RetireOneRemembers ==
  ASSUME NEW o, Typed(o), Books(o), NEW x \in Working(o), NEW final \in Terminal
  PROVE  LET n == Retire(o, <<x>>, final)
         IN  /\ Working(n) = Working(o) \ {x}
             /\ \A i \in Working(o) : SameOrder(o, n, i)
<1> DEFINE ids == <<x>>
<1>1. x \in Nat \ {0}
  BY DEF Working, Typed
<1>2. ids \in Seq(Nat \ {0}) /\ Range(ids) = {x} /\ NoRepeats(ids) /\ Len(ids) = 1
  BY <1>1 DEF Range, NoRepeats
<1> HIDE DEF ids
<1>3. Len(ids) <= RetiredHistory /\ Range(ids) \subseteq Working(o)
  BY <1>2, OmsConstants DEF OmsConstants
<1>4. /\ Working(Retire(o, ids, final)) = Working(o) \ Range(ids)
      /\ \A i \in Working(o) : SameOrder(o, Retire(o, ids, final), i)
  BY <1>2, <1>3, RetireRemembers
<1> QED BY <1>2, <1>4 DEF ids

\* Booking an execution leaves the order what it was, with more of it filled and
\* less of it left, and every other record alone.
LEMMA ExecuteRemembers ==
  ASSUME NEW o, IInv(o), NEW x \in Working(o), NEW quantity \in Nat \ {0}
  PROVE  LET n == Execute(o, x, quantity)
         IN  /\ Tracked(n) = Tracked(o) /\ Working(n) = Working(o)
             /\ \A i \in Tracked(o) : SameOrder(o, n, i)
             /\ n.order[x].state = o.order[x].state
             /\ n.order[x].filled = o.order[x].filled + quantity
             /\ n.order[x].leaves = LeavesAfter(o.order[x], quantity)
<1> DEFINE r       == o.order[x]
           flagged == IF quantity > r.leaves THEN Count(o, "overfill") ELSE o
           left    == LeavesAfter(r, quantity)
           filled  == r.filled + quantity
           mid     == [flagged EXCEPT !.order[x].filled = filled, !.order[x].leaves = left]
           n       == Execute(o, x, quantity)
<1>1. n = AddExposure(mid, r.symbol, r.side, -Consumed(r, quantity))
  BY DEF Execute
<1>2. /\ DOMAIN o = {"order", "retired", "open", "next", "exposure", "gross", "breaks"}
      /\ Typed(o)
  BY DEF IInv, Sound, Typed
<1>3. DOMAIN flagged = DOMAIN o /\ flagged.order = o.order
  BY <1>2 DEF Count
<1>4. x \in DOMAIN o.order /\ r \in OrderRecord /\ r.filled \in Nat /\ r.state \in Live
  BY <1>2 DEF Working, Typed, Tracked, OrderRecord
<1> HIDE DEF flagged, left
<1>5. /\ DOMAIN mid = DOMAIN o
      /\ mid.order = [o.order EXCEPT ![x].filled = filled, ![x].leaves = left]
  BY <1>2, <1>3
<1>6. [o.order EXCEPT ![x].filled = filled, ![x].leaves = left] =
        [o.order EXCEPT ![x] = [r EXCEPT !.filled = filled, !.leaves = left]]
  BY <1>4
<1> HIDE DEF mid
<1>7. n.order = mid.order
  BY <1>1, <1>2, <1>5 DEF AddExposure
<1> HIDE DEF n
<1>8. /\ DOMAIN n.order = DOMAIN o.order
      /\ n.order[x] = [r EXCEPT !.filled = filled, !.leaves = left]
      /\ \A i \in DOMAIN o.order \ {x} : n.order[i] = o.order[i]
  BY <1>4, <1>5, <1>6, <1>7
<1>9. /\ n.order[x].state = r.state /\ n.order[x].filled = filled /\ n.order[x].leaves = left
      /\ \A f \in {"symbol", "side", "quantity"} : n.order[x][f] = r[f]
  <2> HIDE DEF r, filled
  <2> QED BY <1>4, <1>8 DEF OrderRecord
<1>10. Tracked(n) = Tracked(o) /\ Working(n) = Working(o)
  BY <1>8, <1>9 DEF Tracked, Working
<1>11. \A i \in Tracked(o) : SameOrder(o, n, i)
  <2>1. SameOrder(o, n, x)
    BY <1>4, <1>9, <1>10 DEF SameOrder, Tracked
  <2>2. \A i \in Tracked(o) \ {x} : SameOrder(o, n, i)
    BY <1>2, <1>8, <1>10, UntouchedIsSame DEF Tracked
  <2> QED BY <2>1, <2>2
<1> QED BY <1>9, <1>10, <1>11 DEF n, left, filled

\* Moving an order to another state changes nothing else of it.
LEMMA SetStateRemembers ==
  ASSUME NEW o, Typed(o), NEW x \in Tracked(o), NEW state
  PROVE  LET n == SetState(o, x, state)
         IN  /\ Tracked(n) = Tracked(o)
             /\ \A i \in Tracked(o) :
                  /\ SameOrder(o, n, i)
                  /\ n.order[i].leaves = o.order[i].leaves
                  /\ i # x => n.order[i] = o.order[i]
             /\ n.order[x].state = state
<1> DEFINE n == SetState(o, x, state)
           r == o.order[x]
<1>1. r \in OrderRecord /\ r.filled \in Nat
  BY DEF Typed, OrderRecord
<1>2. /\ DOMAIN n.order = DOMAIN o.order
      /\ n.order[x] = [r EXCEPT !.state = state]
      /\ \A i \in DOMAIN o.order \ {x} : n.order[i] = o.order[i]
  BY DEF SetState, Typed, Tracked
<1>3. /\ n.order[x].state = state /\ n.order[x].filled = r.filled
      /\ n.order[x].leaves = r.leaves
      /\ \A f \in {"symbol", "side", "quantity"} : n.order[x][f] = r[f]
  <2> HIDE DEF n, r
  <2> QED BY <1>1, <1>2 DEF OrderRecord
<1> HIDE DEF n
<1>4. SameOrder(o, n, x)
  BY <1>1, <1>2, <1>3 DEF SameOrder, Tracked
<1>5. \A i \in Tracked(o) \ {x} : SameOrder(o, n, i)
  BY <1>2, UntouchedIsSame DEF Tracked
<1> QED BY <1>2, <1>3, <1>4, <1>5 DEF n, Tracked

\* A report the order manager takes is for a working order, and is one of the
\* five operations of apply().
LEMMA ApplyCases ==
  ASSUME NEW o, NEW rep, ReadableReport(rep)
  PROVE  LET n == Apply(o, rep)
             x == rep.id
         IN  \/ \E kind \in Breaks : n = Count(o, kind)
             \/ /\ x \in Working(o)
                /\ \/ \E state \in Live : n = SetState(o, x, state)
                   \/ \E final \in Terminal : n = Retire(o, <<x>>, final)
                   \/ rep.quantity \in Nat \ {0} /\ n = ApplyFill(o, x, rep.quantity)
<1> DEFINE n == Apply(o, rep)
           x == rep.id
<1>1. rep.type \in ExecType /\ rep.quantity \in Nat
  BY DEF ReadableReport
<1>2. CASE x \notin Tracked(o)
  BY <1>2 DEF Apply, Breaks
<1>3. CASE x \in Tracked(o) /\ ~Applies(o, rep)
  BY <1>3 DEF Apply, Breaks
<1>4. CASE x \in Tracked(o) /\ Applies(o, rep)
  <2>1. x \in Working(o) /\ (rep.type = "Fill" => rep.quantity \in Nat \ {0})
    BY <1>1, <1>4 DEF Applies, AcceptedIn, ExecType, Working, Live
  <2> DEFINE taken == \/ \E state \in Live : n = SetState(o, x, state)
                      \/ \E final \in Terminal : n = Retire(o, <<x>>, final)
                      \/ rep.quantity \in Nat \ {0} /\ n = ApplyFill(o, x, rep.quantity)
  <2>2. ASSUME rep.type = "Acked" PROVE taken
    <3>1. n = SetState(o, x, "New") /\ "New" \in Live
      BY <1>4, <2>2 DEF Apply, Live
    <3> QED BY <3>1
  <2>3. ASSUME rep.type = "VenueRejected" PROVE taken
    <3>1. n = Retire(o, <<x>>, "Rejected") /\ "Rejected" \in Terminal
      BY <1>4, <2>3 DEF Apply, Terminal
    <3> QED BY <3>1
  <2>4. ASSUME rep.type = "Fill" PROVE taken
    <3>1. n = ApplyFill(o, x, rep.quantity)
      BY <1>4, <2>4 DEF Apply
    <3> QED BY <3>1, <2>1, <2>4
  <2>5. ASSUME rep.type = "Cancelled" PROVE taken
    <3>1. n = Retire(o, <<x>>, "Cancelled") /\ "Cancelled" \in Terminal
      BY <1>4, <2>5 DEF Apply, Terminal
    <3> QED BY <3>1
  <2>6. ASSUME rep.type = "CancelRejected" PROVE taken
    <3>1. \E state \in Live : n = SetState(o, x, state)
      BY <1>4, <2>6 DEF Apply, Live
    <3> QED BY <3>1
  <2>7. rep.type \in {"Acked", "VenueRejected", "Fill", "Cancelled", "CancelRejected"}
    BY <1>1 DEF ExecType, AcceptedIn
  <2>8. taken
    <3> HIDE DEF taken
    <3> QED BY <2>2, <2>3, <2>4, <2>5, <2>6, <2>7
  <2> QED BY <2>1, <2>8
<1> QED BY <1>2, <1>3, <1>4

\* Having been the same order is transitive.
LEMMA SameTransitive ==
  ASSUME NEW o, Typed(o), NEW n, Typed(n), NEW m, Typed(m), NEW i \in Tracked(o),
         SameOrder(o, n, i), SameOrder(n, m, i)
  PROVE  SameOrder(o, m, i)
<1>1. /\ o.order[i] \in OrderRecord /\ n.order[i] \in OrderRecord /\ m.order[i] \in OrderRecord
  BY DEF Typed, SameOrder
<1>2. /\ o.order[i].filled \in Nat /\ n.order[i].filled \in Nat /\ m.order[i].filled \in Nat
  BY <1>1 DEF OrderRecord
<1> QED BY <1>2 DEF SameOrder

\* apply() forgets no working order, whatever it is told: a report that finishes
\* one evicts a finished record to make room for it.
LEMMA ApplyRemembers ==
  ASSUME NEW o, IInv(o), NEW rep, ReadableReport(rep), NEW i \in Working(o)
  PROVE  SameOrder(o, Apply(o, rep), i)
<1> DEFINE n == Apply(o, rep)
           x == rep.id
           q == rep.quantity
           hit == Execute(o, x, q)
<1>1. /\ Typed(o) /\ Books(o) /\ i \in Tracked(o) /\ IInv(n)
      /\ DOMAIN o = {"order", "retired", "open", "next", "exposure", "gross", "breaks"}
  BY ApplyKeeps DEF IInv, Sound, Typed, Working
<1>2. ASSUME NEW kind \in Breaks, n = Count(o, kind) PROVE SameOrder(o, n, i)
  <2>1. n.order = o.order
    BY <1>1, <1>2 DEF Count
  <2> QED BY <2>1, <1>1, UntouchedIsSame DEF Tracked
<1>3. ASSUME x \in Working(o), NEW state \in Live, n = SetState(o, x, state)
      PROVE  SameOrder(o, n, i)
  BY <1>1, <1>3, SetStateRemembers DEF Working
<1>4. ASSUME x \in Working(o), NEW final \in Terminal, n = Retire(o, <<x>>, final)
      PROVE  SameOrder(o, n, i)
  BY <1>1, <1>4, RetireOneRemembers
<1>5. ASSUME x \in Working(o), q \in Nat \ {0}, n = ApplyFill(o, x, q)
      PROVE  SameOrder(o, n, i)
  <2>1. Sound(hit, {x}) /\ x \in Working(hit)
    BY <1>5, ExecuteKeeps
  <2>2. Working(hit) = Working(o) /\ SameOrder(o, hit, i)
    BY <1>1, <1>5, ExecuteRemembers
  <2>3. n \in {Retire(hit, <<x>>, "Filled"), hit, SetState(hit, x, "PartiallyFilled")}
    BY <1>5 DEF ApplyFill
  <2>4. Typed(hit) /\ Books(hit) /\ Typed(n) /\ x \in Tracked(hit) /\ i \in Tracked(hit)
    BY <2>1, <2>2, <1>1 DEF IInv, Sound, Working
  <2> HIDE DEF hit, n, x, q
  <2>5. ASSUME n = Retire(hit, <<x>>, "Filled") PROVE SameOrder(hit, n, i)
    BY <2>1, <2>2, <2>4, <2>5, RetireOneRemembers DEF Terminal
  <2>6. ASSUME n = SetState(hit, x, "PartiallyFilled") PROVE SameOrder(hit, n, i)
    BY <2>4, <2>6, SetStateRemembers
  <2>7. n = hit \/ SameOrder(hit, n, i)
    BY <2>3, <2>5, <2>6
  <2> QED BY <2>2, <2>4, <2>7, <1>1, SameTransitive
<1> HIDE DEF n, x, q, hit
<1>6. \/ \E kind \in Breaks : n = Count(o, kind)
      \/ /\ x \in Working(o)
         /\ \/ \E state \in Live : n = SetState(o, x, state)
            \/ \E final \in Terminal : n = Retire(o, <<x>>, final)
            \/ q \in Nat \ {0} /\ n = ApplyFill(o, x, q)
  BY ApplyCases DEF n, x, q
<1>7. SameOrder(o, n, i)
  BY <1>2, <1>3, <1>4, <1>5, <1>6
<1> QED BY <1>7 DEF n

\* adopt() adds at most the order it is given, as one that works, and touches no
\* other record.
LEMMA AdoptRemembers ==
  ASSUME NEW o, IInv(o), NEW snap, OpenSnapshot(snap)
  PROVE  LET n == Adopt(o, snap)
         IN  /\ \A i \in Tracked(o) : i \in Tracked(n) /\ n.order[i] = o.order[i]
             /\ \/ Tracked(n) = Tracked(o)
                \/ /\ snap.id \notin Tracked(o)
                   /\ Tracked(n) = Tracked(o) \cup {snap.id}
                   /\ snap.id \in Working(n)
                   /\ n.order[snap.id].quantity = snap.quantity
                   /\ snap.filled <= snap.quantity => n.order[snap.id].filled = snap.filled
<1> DEFINE id     == snap.id
           booked == CreateWithId(o, id, snap.symbol, snap.side, snap.quantity)
           n      == Adopt(o, snap)
<1>1. /\ DOMAIN o = {"order", "retired", "open", "next", "exposure", "gross", "breaks"}
      /\ id \in Nat /\ snap.state \in {"New", "PartiallyFilled"}
      /\ snap.symbol \in Symbol /\ snap.side \in Side /\ snap.quantity \in Nat \ {0}
  BY DEF IInv, Sound, Typed, OpenSnapshot
<1>2. CASE ~CanCreate(o, id, snap.quantity)
  <2>1. n.order = o.order
    BY <1>1, <1>2 DEF Adopt, Count
  <2> HIDE DEF n
  <2> QED BY <2>1 DEF n, Tracked
<1>3. CASE CanCreate(o, id, snap.quantity)
  <2> DEFINE leaves == Min({snap.leaves, snap.quantity})
             filled == Min({snap.filled, snap.quantity})
             taken  == AddExposure(booked, snap.symbol, snap.side, leaves - snap.quantity)
  <2>1. /\ DOMAIN booked = DOMAIN o
        /\ Tracked(o) \subseteq Tracked(booked) /\ Tracked(booked) \subseteq Tracked(o) \cup {id}
        /\ \A i \in Tracked(o) : booked.order[i] = o.order[i]
    BY <1>1, CreateAdvances
  <2>2. /\ id \in Working(booked)
        /\ booked.order[id] =
             [symbol |-> snap.symbol, side |-> snap.side, quantity |-> snap.quantity,
              filled |-> 0, leaves |-> snap.quantity, state |-> "PendingNew", age |-> 0]
    BY <1>1, <1>3, CreateKeeps
  <2>3. n = [taken EXCEPT !.order[id].leaves = leaves, !.order[id].filled = filled,
                          !.order[id].state = snap.state]
    BY <1>1, <1>3 DEF Adopt, Terminal
  <2>4. id \notin Tracked(o)
    BY <1>3 DEF CanCreate
  <2> HIDE DEF booked, leaves, filled
  <2>5. DOMAIN taken = DOMAIN booked /\ taken.order = booked.order
    BY <1>1, <2>1 DEF AddExposure
  <2> HIDE DEF taken
  <2>6. /\ DOMAIN n.order = DOMAIN booked.order
        /\ \A i \in DOMAIN booked.order \ {id} : n.order[i] = booked.order[i]
    BY <1>1, <2>1, <2>3, <2>5
  <2>7. /\ n.order[id].state = snap.state /\ n.order[id].filled = filled
        /\ n.order[id].quantity = snap.quantity
    <3>1. id \in DOMAIN booked.order /\ "state" \in DOMAIN booked.order[id]
          /\ "filled" \in DOMAIN booked.order[id] /\ "quantity" \in DOMAIN booked.order[id]
          /\ booked.order[id].quantity = snap.quantity
      BY <2>2 DEF Working, Tracked
    <3> QED BY <1>1, <2>1, <2>3, <2>5, <3>1
  <2>8. snap.filled <= snap.quantity => filled = snap.filled
    BY <1>1, MinOfTwo DEF filled, OpenSnapshot
  <2> HIDE DEF n
  <2> QED BY <1>1, <2>1, <2>2, <2>4, <2>6, <2>7, <2>8 DEF n, Tracked, Working, Live
<1> QED BY <1>2, <1>3

\* The passing of time changes nothing but ages.
LEMMA OlderRemembers ==
  ASSUME NEW o, Typed(o)
  PROVE  /\ Tracked(Older(o)) = Tracked(o)
         /\ \A i \in Tracked(o) :
              \A f \in {"symbol", "side", "quantity", "filled", "leaves", "state"} :
                Older(o).order[i][f] = o.order[i][f]
<1> DEFINE n == Older(o)
<1>1. n.order = [i \in Tracked(o) |->
                   IF i \in Unanswered(o) THEN Aged(o.order[i]) ELSE o.order[i]]
  BY DEF Older, Typed, Tracked
<1> HIDE DEF n
<1>2. ASSUME NEW r \in OrderRecord, NEW f \in {"symbol", "side", "quantity", "filled", "leaves", "state"}
      PROVE  Aged(r)[f] = r[f]
  BY DEF Aged, OrderRecord
<1>3. \A i \in Tracked(o) : o.order[i] \in OrderRecord
  BY DEF Typed
<1> QED BY <1>1, <1>2, <1>3 DEF n, Tracked

-----------------------------------------------------------------------------

\* n is o with one order moved on: more of it filled, and no count taken back.
MovesOn(o, n, x, more) ==
  /\ Within(o, n, {x}) /\ o.breaks \subseteq n.breaks
  /\ Working(n) \ {x} = Working(o) \ {x}
  /\ x \in Tracked(n) /\ n.order[x].quantity = o.order[x].quantity
  /\ n.order[x].filled = o.order[x].filled + more

\* SetState moves one order on.
LEMMA SetStateMovesOn ==
  ASSUME NEW o, Typed(o), NEW x \in Working(o), NEW state \in Live
  PROVE  LET n == SetState(o, x, state)
         IN  MovesOn(o, n, x, 0) /\ x \in Working(n) /\ n.order[x].state = state
<1> DEFINE n == SetState(o, x, state)
           r == o.order[x]
<1>1. /\ x \in Tracked(o) /\ r \in OrderRecord /\ r.filled \in Nat
      /\ DOMAIN o = {"order", "retired", "open", "next", "exposure", "gross", "breaks"}
  BY DEF Working, Typed, OrderRecord
<1>2. /\ Tracked(n) = Tracked(o)
      /\ \A i \in Tracked(o) : SameOrder(o, n, i) /\ (i # x => n.order[i] = o.order[i])
      /\ n.order[x].state = state
  BY <1>1, SetStateRemembers
<1>3. n.breaks = o.breaks /\ n.order = [o.order EXCEPT ![x].state = state]
  BY <1>1 DEF SetState
<1>4. n.order[x] = [r EXCEPT !.state = state]
  BY <1>1, <1>3 DEF Tracked
<1>5. n.order[x].filled = r.filled + 0
  <2> HIDE DEF n, r
  <2> QED BY <1>1, <1>4 DEF OrderRecord
<1>6. Within(o, n, {x})
  BY SetStateWithin
<1> HIDE DEF n
<1>7. Working(n) \ {x} = Working(o) \ {x} /\ x \in Working(n)
  BY <1>1, <1>2 DEF Working
<1> QED BY <1>1, <1>2, <1>3, <1>5, <1>6, <1>7 DEF MovesOn, SameOrder, n

\* retire() of one order moves it on, out of the working set.
LEMMA RetireMovesOn ==
  ASSUME NEW o, Typed(o), Books(o), NEW x \in Working(o), NEW final \in Terminal
  PROVE  LET n == Retire(o, <<x>>, final)
         IN  MovesOn(o, n, x, 0) /\ x \notin Working(n)
<1> DEFINE n == Retire(o, <<x>>, final)
           r == o.order[x]
           g == [r EXCEPT !.leaves = 0, !.state = final]
<1>1. /\ x \in Tracked(o) /\ r \in OrderRecord /\ r.filled \in Nat
      /\ DOMAIN o = {"order", "retired", "open", "next", "exposure", "gross", "breaks"}
  BY DEF Working, Typed, OrderRecord
<1>2. Working(n) = Working(o) \ {x} /\ SameOrder(o, n, x)
  BY RetireOneRemembers
<1>3. Range(<<x>>) = {x}
  BY DEF Range
<1>4. n.breaks = o.breaks /\ (x \in Tracked(n) => n.order[x] = g)
  BY <1>1, <1>3 DEF Retire, Tracked
<1>5. g.filled = r.filled + 0
  <2> HIDE DEF r
  <2> QED BY <1>1 DEF OrderRecord
<1>6. Within(o, n, {x})
  BY <1>3, RetireWithin
<1> HIDE DEF n, g
<1> QED BY <1>1, <1>2, <1>4, <1>5, <1>6 DEF MovesOn, SameOrder, n

\* A fill moves its order on by its quantity; the order goes on working until
\* nothing of it is left.
LEMMA ApplyFillMovesOn ==
  ASSUME NEW o, IInv(o), NEW x \in Working(o), NEW quantity \in Nat \ {0}
  PROVE  LET n == ApplyFill(o, x, quantity)
         IN  /\ MovesOn(o, n, x, quantity)
             /\ x \in Working(n) <=> o.order[x].filled + quantity < o.order[x].quantity
             /\ x \in Working(n) => n.order[x].state # "PendingNew"
<1> DEFINE hit == Execute(o, x, quantity)
           n   == ApplyFill(o, x, quantity)
           r   == o.order[x]
<1>1. /\ Typed(o) /\ x \in Tracked(o) /\ r \in OrderRecord
      /\ r.filled \in Nat /\ r.quantity \in Nat
      /\ DOMAIN o = {"order", "retired", "open", "next", "exposure", "gross", "breaks"}
  BY DEF IInv, Sound, Working, Typed, OrderRecord
<1>2. Sound(hit, {x}) /\ x \in Working(hit)
  BY ExecuteKeeps
<1>3. /\ Tracked(hit) = Tracked(o) /\ Working(hit) = Working(o)
      /\ SameOrder(o, hit, x)
      /\ hit.order[x].filled = r.filled + quantity
      /\ hit.order[x].leaves = LeavesAfter(r, quantity)
  BY <1>1, ExecuteRemembers
<1>4. o.breaks \subseteq hit.breaks
  <2> DEFINE flagged == IF quantity > r.leaves THEN Count(o, "overfill") ELSE o
             mid     == [flagged EXCEPT !.order[x].filled = r.filled + quantity,
                                        !.order[x].leaves = LeavesAfter(r, quantity)]
  <2>1. hit = AddExposure(mid, r.symbol, r.side, -Consumed(r, quantity))
    BY DEF Execute
  <2>2. DOMAIN flagged = DOMAIN o /\ o.breaks \subseteq flagged.breaks
    BY <1>1 DEF Count
  <2> HIDE DEF flagged
  <2>3. DOMAIN mid = DOMAIN o /\ mid.breaks = flagged.breaks
    BY <1>1, <2>2
  <2> HIDE DEF mid
  <2>4. hit.breaks = mid.breaks
    BY <1>1, <2>1, <2>3 DEF AddExposure
  <2> QED BY <2>2, <2>3, <2>4
<1>5. Within(o, hit, {x})
  BY ExecuteWithin
<1>6. MovesOn(o, hit, x, quantity)
  BY <1>3, <1>4, <1>5 DEF MovesOn, SameOrder
<1>7. r.filled + quantity < r.quantity <=> hit.order[x].leaves # 0
  BY <1>1, <1>3 DEF LeavesAfter, AtLeastZero
<1>8. /\ Typed(hit) /\ Books(hit)
      /\ hit.order[x].filled \in Nat /\ hit.order[x].state \in Live
  BY <1>2 DEF Sound, Typed, OrderRecord, Working
<1>9. \/ hit.order[x].leaves = 0 /\ n = Retire(hit, <<x>>, "Filled")
      \/ hit.order[x].leaves # 0 /\ hit.order[x].state = "PendingCancel" /\ n = hit
      \/ hit.order[x].leaves # 0 /\ n = SetState(hit, x, "PartiallyFilled")
  BY DEF ApplyFill
<1> HIDE DEF hit, n, r
<1>10. ASSUME NEW m, MovesOn(hit, m, x, 0) PROVE MovesOn(o, m, x, quantity)
  BY <1>6, <1>8, <1>10 DEF MovesOn, Within
<1>11. CASE hit.order[x].leaves = 0 /\ n = Retire(hit, <<x>>, "Filled")
  <2>1. MovesOn(hit, n, x, 0) /\ x \notin Working(n)
    BY <1>2, <1>8, <1>11, RetireMovesOn DEF Terminal
  <2> QED BY <1>7, <1>10, <1>11, <2>1 DEF r, n
<1>12. CASE hit.order[x].leaves # 0 /\ hit.order[x].state = "PendingCancel" /\ n = hit
  BY <1>2, <1>6, <1>7, <1>12 DEF r, n
<1>13. CASE hit.order[x].leaves # 0 /\ n = SetState(hit, x, "PartiallyFilled")
  <2>1. MovesOn(hit, n, x, 0) /\ x \in Working(n) /\ n.order[x].state = "PartiallyFilled"
    BY <1>2, <1>8, <1>13, SetStateMovesOn DEF Live
  <2> QED BY <1>7, <1>10, <1>13, <2>1 DEF r, n
<1> QED BY <1>9, <1>11, <1>12, <1>13

\* A report that is not taken changes no order and is counted, as invalid if the order
\* is on record.
LEMMA RefusedIsCounted ==
  ASSUME NEW o, Typed(o), NEW rep, ~Applies(o, rep)
  PROVE  LET n == Apply(o, rep)
         IN  /\ n.order = o.order /\ n.next = o.next
             /\ o.breaks \subseteq n.breaks /\ n.breaks # {}
             /\ rep.id \in Tracked(o) => "invalid" \in n.breaks
<1> DEFINE n == Apply(o, rep)
<1>1. \E kind : n = Count(o, kind) /\ (rep.id \in Tracked(o) => kind = "invalid")
  BY DEF Apply, Applies
<1> HIDE DEF n
<1>2. /\ n.order = o.order /\ n.next = o.next
      /\ o.breaks \subseteq n.breaks /\ n.breaks # {}
      /\ rep.id \in Tracked(o) => "invalid" \in n.breaks
  BY <1>1 DEF Count, Typed
<1> QED BY <1>2 DEF n

\* A report that is taken is for a working order, which moves on: by what a fill
\* says, and out of the working set if it is rejected or cancelled.
LEMMA TakenMovesOn ==
  ASSUME NEW o, IInv(o), NEW rep, ReadableReport(rep), Applies(o, rep)
  PROVE  LET n == Apply(o, rep)
             x == rep.id
             more == IF rep.type = "Fill" THEN rep.quantity ELSE 0
         IN  /\ x \in Working(o) /\ MovesOn(o, n, x, more)
             /\ rep.type \in {"VenueRejected", "Cancelled"} => x \notin Working(n)
             /\ rep.type \in {"Acked", "CancelRejected"} => x \in Working(n)
             /\ o.order[x].filled + more < o.order[x].quantity =>
                  x \in Working(n) \/ rep.type \in {"VenueRejected", "Cancelled"}
             /\ rep.type = "Fill" /\ x \in Working(n) =>
                  o.order[x].filled + more < o.order[x].quantity
             /\ x \in Working(n) => n.order[x].state # "PendingNew"
<1> DEFINE n == Apply(o, rep)
           x == rep.id
<1>1. /\ rep.type \in ExecType /\ rep.quantity \in Nat /\ Typed(o) /\ Books(o)
      /\ x \in Tracked(o)
  BY DEF ReadableReport, IInv, Sound, Applies
<1>2. x \in Working(o) /\ (rep.type = "Fill" => rep.quantity \in Nat \ {0})
  BY <1>1 DEF Applies, AcceptedIn, ExecType, Working, Live
<1>3. CASE rep.type = "Acked"
  <2>1. n = SetState(o, x, "New")
    BY <1>1, <1>3 DEF Apply
  <2> HIDE DEF n, x
  <2> QED BY <1>1, <1>2, <1>3, <2>1, SetStateMovesOn DEF Live, n, x
<1>4. CASE rep.type = "VenueRejected"
  <2>1. n = Retire(o, <<x>>, "Rejected")
    BY <1>1, <1>4 DEF Apply
  <2> HIDE DEF n, x
  <2> QED BY <1>1, <1>2, <1>4, <2>1, RetireMovesOn DEF Terminal, n, x
<1>5. CASE rep.type = "Fill"
  <2>1. n = ApplyFill(o, x, rep.quantity)
    BY <1>1, <1>5 DEF Apply
  <2> HIDE DEF n, x
  <2> QED BY <1>1, <1>2, <1>5, <2>1, ApplyFillMovesOn DEF n, x
<1>6. CASE rep.type = "Cancelled"
  <2>1. n = Retire(o, <<x>>, "Cancelled")
    BY <1>1, <1>6 DEF Apply
  <2> HIDE DEF n, x
  <2> QED BY <1>1, <1>2, <1>6, <2>1, RetireMovesOn DEF Terminal, n, x
<1>7. CASE rep.type = "CancelRejected"
  <2>1. PICK state \in {"New", "PartiallyFilled"} : n = SetState(o, x, state)
    BY <1>1, <1>7 DEF Apply
  <2> HIDE DEF n, x
  <2> QED BY <1>1, <1>2, <1>7, <2>1, SetStateMovesOn DEF Live, n, x
<1> QED BY <1>1, <1>3, <1>4, <1>5, <1>6, <1>7 DEF ExecType, AcceptedIn

\* The sweep expires the overdue orders, and changes nothing else that is kept.
LEMMA SweepMovesOn ==
  ASSUME NEW o, IInv(o), NEW walk \in WalkOrders(Overdue(o))
  PROVE  LET n == SweepTimeouts(o, walk)
         IN  /\ n.next = o.next /\ n.breaks = o.breaks
             /\ Tracked(n) \subseteq Tracked(o)
             /\ Working(n) = Working(o) \ Overdue(o)
             /\ \A i \in Tracked(n) :
                  /\ n.order[i].quantity = o.order[i].quantity
                  /\ n.order[i].filled = o.order[i].filled
                  /\ n.order[i].state =
                       IF i \in Overdue(o) THEN "Expired" ELSE o.order[i].state
<1> DEFINE S == Overdue(o)
           n == SweepTimeouts(o, walk)
<1>1. /\ Range(walk) = S /\ Typed(o)
      /\ DOMAIN o = {"order", "retired", "open", "next", "exposure", "gross", "breaks"}
  BY DEF WalkOrders, IInv, Sound, Typed
<1> HIDE DEF S
<1>2. /\ n.next = o.next /\ n.breaks = o.breaks /\ Tracked(n) \subseteq Tracked(o)
      /\ \A i \in Tracked(n) :
           n.order[i] = IF i \in S THEN [o.order[i] EXCEPT !.leaves = 0, !.state = "Expired"]
                        ELSE o.order[i]
  BY <1>1 DEF SweepTimeouts, Retire, Tracked
<1> HIDE DEF n
<1>3. ASSUME NEW i \in Tracked(n)
      PROVE  /\ n.order[i].quantity = o.order[i].quantity
             /\ n.order[i].filled = o.order[i].filled
             /\ n.order[i].state = IF i \in S THEN "Expired" ELSE o.order[i].state
  <2> DEFINE r == o.order[i]
  <2>1. /\ r \in OrderRecord
        /\ n.order[i] = IF i \in S THEN [r EXCEPT !.leaves = 0, !.state = "Expired"] ELSE r
    BY <1>1, <1>2 DEF Typed
  <2> HIDE DEF r
  <2>2. /\ n.order[i].quantity = r.quantity /\ n.order[i].filled = r.filled
        /\ n.order[i].state = IF i \in S THEN "Expired" ELSE r.state
    BY <2>1 DEF OrderRecord
  <2> QED BY <2>2 DEF r
<1>4. Working(n) = Working(o) \ S
  <2>1. S \subseteq Working(o) /\ S \subseteq Tracked(o) /\ S \subseteq Nat \ {0}
    BY <1>1 DEF Overdue, Unanswered, Working, Live, Typed, S
  <2>2. IsFiniteSet(S) /\ Cardinality(S) \in Nat
    BY <1>1, <2>1, FS_Subset, FS_CardinalityType DEF Typed
  <2>3. walk \in [1 .. Cardinality(S) -> S] /\ NoRepeats(walk)
    BY <1>1, <2>2, EnumerationOnce DEF WalkOrders, S
  <2>4. walk \in [1 .. Cardinality(S) -> Nat \ {0}]
    BY <2>1, <2>3
  <2>5. walk \in Seq(Nat \ {0})
    BY <2>2, <2>4
  <2>6. Books(o) /\ n = Retire(o, walk, "Expired")
    BY DEF IInv, Sound, SweepTimeouts, n
  <2> QED BY <1>1, <2>1, <2>3, <2>5, <2>6, RetireRemembers DEF Terminal
<1> QED BY <1>2, <1>3, <1>4 DEF n, S
=============================================================================
