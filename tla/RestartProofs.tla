---------------------------- MODULE RestartProofs ----------------------------
(***************************************************************************)
(* What the invariants of Restart.tla promise, for every number of         *)
(* symbols, sessions, orders and units to a record, every sync policy and  *)
(* every way to crash.                                                     *)
(*                                                                         *)
(* The argument goes by the file.  It is read frame by frame, so the first *)
(* sections say what is read of a file that is longer by a record, or by   *)
(* part of one: as long as recovery finds no fault with the result, the    *)
(* one record is replayed after all that was read before.  Whatever a step *)
(* does to the file is one of the two, or nothing, or a cut that loses     *)
(* records.  Five invariants follow step by step, each resting on those    *)
(* before it:                                                              *)
(*                                                                         *)
(*   Shape       the journal, the order manager and the venue's book       *)
(*   SyncInv     how far the system and the device may be behind the file  *)
(*   Numbered    an intact file is numbered without a gap                  *)
(*   FreshIds    the ids on record, in use and given to the venue          *)
(*   TrackedInv  what the venue can still execute is known to the session, *)
(*               and to whoever reads the file: with the reports on the    *)
(*               wire, no more of it filled than the venue has executed    *)
(*                                                                         *)
(* The last needs the file as well as the session: a session starts from   *)
(* the file, and one that starts unasked has nothing else.                 *)
(***************************************************************************)
EXTENDS Restart, OmsProofs

-----------------------------------------------------------------------------
(***************************************************************************)
(* The file, and what recovery makes of it.                                *)
(***************************************************************************)

Report == [id : Nat \ {0}, type : ExecType, quantity : Nat, symbol : Symbol, side : Side]
Event ==
  {SessionStart, SessionEnd, [type |-> "Torn"]}
    \cup [type : {"OrderSent"}, id : Nat \ {0}, symbol : Symbol, side : Side,
          quantity : Nat \ {0}]
    \cup [type : {"ExecReport"}, report : Report]
    \cup [type : {"Checkpoint"}, symbol : Int, position : Int]
Record == [seq : Nat, session : Nat, event : Event]
Unit == [rec : Record, part : 1 .. Units]

\* A recovered state, as far as its counts go.
Recovered(r) ==
  /\ DOMAIN r = {"order", "read", "seq", "truncated", "corrupt", "gaps", "clean",
                 "position", "next"}
  /\ r.read \in Nat /\ r.seq \in Nat /\ r.corrupt \in Nat /\ r.gaps \in Nat /\ r.next \in Nat
  /\ r.truncated \in BOOLEAN

\* Two recovered states that differ in what they say of the tail at most.
Alike(a, b) ==
  /\ a.order = b.order /\ a.read = b.read /\ a.seq = b.seq
  /\ a.corrupt = b.corrupt /\ a.gaps = b.gaps /\ a.next = b.next

Whole(file) == Len(file) \div Units

\* Units is a positive number.
LEMMA UnitsType == Units \in Nat \ {0}
BY JournalConstants

\* The frames of a file lie side by side in it, and the tail is shorter than one.
LEMMA FramesFit ==
  ASSUME NEW file \in Seq(Unit)
  PROVE  /\ Len(file) \in Nat /\ Whole(file) \in Nat
         /\ Whole(file) * Units \in Nat
         /\ Whole(file) * Units <= Len(file)
         /\ Len(file) < Whole(file) * Units + Units
         /\ \A k \in 1 .. Whole(file) :
              /\ (k - 1) * Units \in Nat
              /\ k * Units = (k - 1) * Units + Units
              /\ k * Units <= Whole(file) * Units
<1>1. Len(file) \in Nat
  BY LenProperties
<1>2. /\ Whole(file) \in Nat /\ Whole(file) * Units <= Len(file)
      /\ Len(file) < Whole(file) * Units + Units
  BY <1>1, UnitsType, WholePart DEF Whole
<1>3. Whole(file) * Units \in Nat
  BY <1>2, UnitsType, Multiples
<1> HIDE DEF Whole
<1>4. ASSUME NEW k \in 1 .. Whole(file)
      PROVE  /\ (k - 1) * Units \in Nat
             /\ k * Units = (k - 1) * Units + Units
             /\ k * Units <= Whole(file) * Units
  <2> DEFINE w == Whole(file)
  <2>0. /\ \A j \in Nat : j * Units \in Nat /\ (j + 1) * Units = j * Units + Units
        /\ \A i, j \in Nat : i < j => i * Units + Units <= j * Units
    BY UnitsType, Multiples
  <2>1. k - 1 \in Nat /\ k - 1 + 1 = k /\ w \in Nat /\ k - 1 < w
    BY <1>2
  <2>2. (k - 1) * Units \in Nat /\ k * Units = (k - 1) * Units + Units
    BY <2>0, <2>1
  <2>3. (k - 1) * Units + Units <= w * Units
    BY <2>0, <2>1
  <2> QED BY <2>2, <2>3
<1> QED BY <1>1, <1>2, <1>3, <1>4

\* The units of a frame.
LEMMA FrameUnits ==
  ASSUME NEW file \in Seq(Unit), NEW k \in 1 .. Whole(file)
  PROVE  /\ Frame(file, k) \in [1 .. Units -> Unit]
         /\ \A p \in 1 .. Units : /\ (k - 1) * Units + p \in 1 .. Len(file)
                                  /\ Frame(file, k)[p] = file[(k - 1) * Units + p]
<1> DEFINE b == (k - 1) * Units
           m == b + 1
           n == k * Units
<1>1. b \in Nat /\ n = b + Units /\ n <= Len(file) /\ Len(file) \in Nat /\ Units \in Nat \ {0}
  BY FramesFit, UnitsType
<1> HIDE DEF b, n
<1>2. m \in Int /\ n \in Int /\ m <= n /\ n - m + 1 = Units
  BY <1>1
<1>3. \A i \in m .. n : file[i] \in Unit
  BY <1>1, LenProperties
<1> HIDE DEF m
<1>4. /\ SubSeq(file, m, n) \in Seq(Unit)
      /\ Len(SubSeq(file, m, n)) = n - m + 1
      /\ \A i \in 1 .. n - m + 1 : SubSeq(file, m, n)[i] = file[m + i - 1]
  BY <1>2, <1>3, SubSeqProperties
<1>5. Frame(file, k) = SubSeq(file, m, n)
  BY DEF Frame, m, n, b
<1>6. Frame(file, k) \in [1 .. Units -> Unit]
  BY <1>2, <1>4, <1>5, LenProperties
<1>7. ASSUME NEW p \in 1 .. Units
      PROVE  b + p \in 1 .. Len(file) /\ Frame(file, k)[p] = file[b + p]
  <2>1. b + p \in 1 .. Len(file) /\ m + p - 1 = b + p
    BY <1>1 DEF m
  <2> QED BY <2>1, <1>2, <1>4, <1>5
<1> QED BY <1>6, <1>7 DEF b

\* A frame passes if and only if it holds the parts of one record in their order.
LEMMA PassesPointwise ==
  ASSUME NEW frame, frame \in [1 .. Units -> Unit]
  PROVE  Passes(frame) <=>
           \A p \in 1 .. Units : frame[p].part = p /\ frame[p].rec = frame[1].rec
<1>1. ASSUME Passes(frame), NEW p \in 1 .. Units
      PROVE  frame[p].part = p /\ frame[p].rec = frame[1].rec
  <2>1. UnitsOf(frame[1].rec)[p] = [rec |-> frame[1].rec, part |-> p]
    BY DEF UnitsOf
  <2>2. frame[p] = UnitsOf(frame[1].rec)[p]
    BY <1>1, Zenon DEF Passes
  <2>3. frame[p] = [rec |-> frame[1].rec, part |-> p]
    BY <2>1, <2>2, Zenon
  <2> QED BY <2>3
<1>2. ASSUME \A p \in 1 .. Units : frame[p].part = p /\ frame[p].rec = frame[1].rec
      PROVE  Passes(frame)
  <2>1. ASSUME NEW p \in 1 .. Units
        PROVE  frame[p] = UnitsOf(frame[1].rec)[p]
    <3>1. frame[p] = [rec |-> frame[p].rec, part |-> frame[p].part]
      BY DEF Unit
    <3> QED BY <1>2, <3>1 DEF UnitsOf
  <2>2. UnitsOf(frame[1].rec) = [p \in 1 .. Units |-> UnitsOf(frame[1].rec)[p]]
    BY DEF UnitsOf
  <2> QED BY <2>1, <2>2 DEF Passes
<1> QED BY <1>1, <1>2

\* The reader goes through the frames one after another.
LEMMA ReadInOrder ==
  ASSUME NEW file \in Seq(Unit)
  PROVE  FramesRead(file) =
           [k \in 0 .. Whole(file) |->
              IF k = 0 THEN NothingRecovered ELSE ReadFrame(FramesRead(file)[k - 1], file, k)]
<1> DEFINE n == Whole(file)
           Reads(g, m) == g = [k \in 0 .. m |-> IF k = 0 THEN NothingRecovered
                                                ELSE ReadFrame(g[k - 1], file, k)]
           S == {m \in Nat : \E g : Reads(g, m)}
<1>1. n \in Nat
  BY FramesFit
<1>2. 0 \in S
  <2>1. Reads([k \in 0 .. 0 |-> NothingRecovered], 0)
    OBVIOUS
  <2> QED BY <2>1
<1>3. ASSUME NEW m \in Nat, m \in S PROVE m + 1 \in S
  <2>1. PICK g : Reads(g, m)
    BY <1>3
  <2> DEFINE h == [k \in 0 .. m + 1 |-> IF k = m + 1 THEN ReadFrame(g[m], file, m + 1) ELSE g[k]]
             h2 == [k \in 0 .. m + 1 |-> IF k = 0 THEN NothingRecovered
                                         ELSE ReadFrame(h[k - 1], file, k)]
  <2>2. ASSUME NEW k \in 0 .. m + 1 PROVE h[k] = h2[k]
    <3>1. CASE k = m + 1
      BY <3>1
    <3>2. CASE k # m + 1
      <4>1. k \in 0 .. m /\ h[k] = g[k]
        BY <3>2
      <4>2. g[k] = IF k = 0 THEN NothingRecovered ELSE ReadFrame(g[k - 1], file, k)
        BY <2>1, <4>1
      <4>3. k # 0 => h[k - 1] = g[k - 1]
        BY <4>1
      <4> QED BY <4>1, <4>2, <4>3
    <3> QED BY <3>1, <3>2
  <2>3. h = h2
    BY <2>2
  <2>4. Reads(h, m + 1)
    BY <2>3, Zenon
  <2> HIDE DEF Reads, h
  <2> QED BY <2>4
<1>4. n \in S
  <2> HIDE DEF S
  <2> QED BY <1>1, <1>2, <1>3, UpTo
<1>5. FramesRead(file) = CHOOSE g : Reads(g, n)
  BY DEF FramesRead, Whole
<1> QED BY <1>4, <1>5

\* What the reader has after no frame and after one more.
LEMMA ReadStep ==
  ASSUME NEW file \in Seq(Unit)
  PROVE  /\ FramesRead(file)[0] = NothingRecovered
         /\ \A k \in 1 .. Whole(file) :
              FramesRead(file)[k] = ReadFrame(FramesRead(file)[k - 1], file, k)
<1>1. Whole(file) \in Nat
  BY FramesFit
<1> DEFINE R == FramesRead(file)
<1>2. R = [k \in 0 .. Whole(file) |->
             IF k = 0 THEN NothingRecovered ELSE ReadFrame(R[k - 1], file, k)]
  BY ReadInOrder
<1> HIDE DEF R
<1>3. \A k \in 0 .. Whole(file) :
        R[k] = IF k = 0 THEN NothingRecovered ELSE ReadFrame(R[k - 1], file, k)
  BY <1>2
<1>4. R[0] = NothingRecovered
  BY <1>1, <1>3
<1>5. \A k \in 1 .. Whole(file) : R[k] = ReadFrame(R[k - 1], file, k)
  BY <1>1, <1>3
<1> QED BY <1>4, <1>5 DEF R

\* The orders and the highest id after one more event.
OrdersAfter(r, event) ==
  IF event.type = "OrderSent"
  THEN WithOrder(r.order, event.id, event.symbol, event.side, event.quantity)
  ELSE IF event.type = "ExecReport" THEN AfterReport(r, event.report)
  ELSE r.order

NextAfter(r, event) ==
  IF event.type = "OrderSent" /\ event.id > r.next THEN event.id ELSE r.next

\* Replaying an event.
LEMMA ReplayedIs ==
  ASSUME NEW r, Recovered(r), NEW event \in Event
  PROVE  LET n == Replayed(r, event)
         IN  /\ Recovered(n)
             /\ n.order = OrdersAfter(r, event) /\ n.next = NextAfter(r, event)
             /\ n.read = r.read /\ n.seq = r.seq /\ n.gaps = r.gaps
             /\ n.corrupt = r.corrupt /\ n.truncated = r.truncated
<1> DEFINE n == Replayed(r, event)
<1>1. CASE event.type = "OrderSent"
  <2>1. event.id \in Nat
    BY <1>1 DEF Event, SessionStart, SessionEnd
  <2> DEFINE order == WithOrder(r.order, event.id, event.symbol, event.side, event.quantity)
             next  == IF event.id > r.next THEN event.id ELSE r.next
  <2>2. n = [r EXCEPT !.order = order, !.next = next]
    BY <1>1 DEF Replayed
  <2>3. next \in Nat
    BY <2>1 DEF Recovered
  <2>4. order = OrdersAfter(r, event) /\ next = NextAfter(r, event)
    BY <1>1 DEF OrdersAfter, NextAfter
  <2> HIDE DEF n, order, next
  <2>5. Recovered(n) /\ n.order = order /\ n.next = next
        /\ n.read = r.read /\ n.seq = r.seq /\ n.gaps = r.gaps
        /\ n.corrupt = r.corrupt /\ n.truncated = r.truncated
    BY <2>2, <2>3 DEF Recovered
  <2> QED BY <2>4, <2>5 DEF n
<1>2. CASE event.type = "ExecReport"
  <2> DEFINE rep == event.report
             order == AfterReport(r, rep)
             position == [r.position EXCEPT ![rep.symbol] =
                            IF rep.type = "Fill" THEN @ + SignedFill(rep) ELSE @]
  <2>2. n = [r EXCEPT !.order = order, !.position = position]
    BY <1>2 DEF Replayed
  <2>4. order = OrdersAfter(r, event) /\ r.next = NextAfter(r, event)
    BY <1>2 DEF OrdersAfter, NextAfter
  <2> HIDE DEF n, order, position
  <2>5. Recovered(n) /\ n.order = order /\ n.next = r.next
        /\ n.read = r.read /\ n.seq = r.seq /\ n.gaps = r.gaps
        /\ n.corrupt = r.corrupt /\ n.truncated = r.truncated
    BY <2>2 DEF Recovered
  <2> QED BY <2>4, <2>5 DEF n
<1>3. CASE event.type = "Checkpoint"
  <2> DEFINE position == [r.position EXCEPT ![event.symbol] = event.position]
  <2>2. n = [r EXCEPT !.position = position]
    BY <1>3 DEF Replayed
  <2>4. r.order = OrdersAfter(r, event) /\ r.next = NextAfter(r, event)
    BY <1>3 DEF OrdersAfter, NextAfter
  <2> HIDE DEF n, position
  <2>5. Recovered(n) /\ n.order = r.order /\ n.next = r.next
        /\ n.read = r.read /\ n.seq = r.seq /\ n.gaps = r.gaps
        /\ n.corrupt = r.corrupt /\ n.truncated = r.truncated
    BY <2>2 DEF Recovered
  <2> QED BY <2>4, <2>5 DEF n
<1>4. CASE event.type \notin {"OrderSent", "ExecReport", "Checkpoint"}
  <2>2. n = r
    BY <1>4 DEF Replayed
  <2>4. r.order = OrdersAfter(r, event) /\ r.next = NextAfter(r, event)
    BY <1>4 DEF OrdersAfter, NextAfter
  <2> QED BY <2>2, <2>4
<1> QED BY <1>1, <1>2, <1>3, <1>4

\* Reading a record counts it, looks at its number, and replays its event.
LEMMA ReadRecordIs ==
  ASSUME NEW r, Recovered(r), NEW rec \in Record
  PROVE  LET n == ReadRecord(r, rec)
         IN  /\ Recovered(n)
             /\ n.order = OrdersAfter(r, rec.event) /\ n.next = NextAfter(r, rec.event)
             /\ n.read = r.read + 1 /\ n.seq = rec.seq
             /\ n.gaps = IF r.seq # 0 /\ rec.seq # r.seq + 1 THEN r.gaps + 1 ELSE r.gaps
             /\ n.corrupt = r.corrupt /\ n.truncated = r.truncated
<1> DEFINE gaps  == IF r.seq # 0 /\ rec.seq # r.seq + 1 THEN r.gaps + 1 ELSE r.gaps
           clean == rec.event.type = "SessionEnd"
           m == [r EXCEPT !.gaps = gaps, !.seq = rec.seq, !.read = r.read + 1, !.clean = clean]
           n == ReadRecord(r, rec)
<1>1. n = Replayed(m, rec.event)
  BY DEF ReadRecord
<1>2. gaps \in Nat /\ rec.seq \in Nat /\ r.read + 1 \in Nat /\ rec.event \in Event
  BY DEF Recovered, Record
<1> HIDE DEF gaps, clean, n
<1>3. /\ Recovered(m) /\ m.order = r.order /\ m.next = r.next
      /\ m.read = r.read + 1 /\ m.seq = rec.seq /\ m.gaps = gaps
      /\ m.corrupt = r.corrupt /\ m.truncated = r.truncated
  BY <1>2 DEF Recovered
<1> HIDE DEF m
<1>4. /\ Recovered(n)
      /\ n.order = OrdersAfter(m, rec.event) /\ n.next = NextAfter(m, rec.event)
      /\ n.read = m.read /\ n.seq = m.seq /\ n.gaps = m.gaps
      /\ n.corrupt = m.corrupt /\ n.truncated = m.truncated
  BY <1>1, <1>2, <1>3, ReplayedIs
<1>5. OrdersAfter(m, rec.event) = OrdersAfter(r, rec.event)
      /\ NextAfter(m, rec.event) = NextAfter(r, rec.event)
  BY <1>3 DEF OrdersAfter, NextAfter, AfterReport, Applies, Tracked
<1> QED BY <1>3, <1>4, <1>5 DEF gaps, n

\* The record of a frame.
RecordOf(file, k) == Frame(file, k)[1].rec

\* Reading a frame.
LEMMA ReadFrameIs ==
  ASSUME NEW file \in Seq(Unit), NEW k \in 1 .. Whole(file), NEW r, Recovered(r)
  PROVE  LET n == ReadFrame(r, file, k)
         IN  /\ Recovered(n) /\ RecordOf(file, k) \in Record
             /\ Passes(Frame(file, k)) => n = ReadRecord(r, RecordOf(file, k))
             /\ ~ Passes(Frame(file, k)) =>
                  /\ n.read = r.read /\ n.order = r.order /\ n.seq = r.seq
                  /\ n.gaps = r.gaps /\ n.next = r.next
                  /\ n.corrupt = IF k * Units = Len(file) THEN r.corrupt ELSE r.corrupt + 1
<1> DEFINE n == ReadFrame(r, file, k)
<1>1. RecordOf(file, k) \in Record
  <2>1. Frame(file, k) \in [1 .. Units -> Unit] /\ 1 \in 1 .. Units
    BY FrameUnits, UnitsType
  <2> QED BY <2>1 DEF RecordOf, Unit
<1>2. CASE Passes(Frame(file, k))
  <2>1. n = ReadRecord(r, RecordOf(file, k))
    BY <1>2 DEF ReadFrame, RecordOf
  <2> HIDE DEF n
  <2> QED BY <1>1, <1>2, <2>1, ReadRecordIs DEF n
<1>3. CASE ~ Passes(Frame(file, k))
  <2>1. n = IF k * Units = Len(file) THEN [r EXCEPT !.truncated = TRUE]
            ELSE [r EXCEPT !.corrupt = r.corrupt + 1]
    BY <1>3 DEF ReadFrame
  <2> HIDE DEF n
  <2>2. /\ Recovered(n)
        /\ n.read = r.read /\ n.order = r.order /\ n.seq = r.seq
        /\ n.gaps = r.gaps /\ n.next = r.next
        /\ n.corrupt = IF k * Units = Len(file) THEN r.corrupt ELSE r.corrupt + 1
    <3> DEFINE last == k * Units = Len(file)
               more == r.corrupt + 1
    <3>0. more \in Nat
      BY DEF Recovered
    <3>1. CASE last
      <4>1. n = [r EXCEPT !.truncated = TRUE]
        BY <2>1, <3>1
      <4> QED BY <3>1, <4>1 DEF Recovered
    <3>2. CASE ~ last
      <4>1. n = [r EXCEPT !.corrupt = more]
        BY <2>1, <3>2
      <4> HIDE DEF more, last
      <4>2. Recovered(n) /\ n.read = r.read /\ n.order = r.order /\ n.seq = r.seq
            /\ n.gaps = r.gaps /\ n.next = r.next /\ n.corrupt = more
        BY <3>0, <4>1 DEF Recovered
      <4> QED BY <3>2, <4>2 DEF last, more
    <3> QED BY <3>1, <3>2
  <2> QED BY <1>1, <1>3, <2>2 DEF n
<1> QED BY <1>2, <1>3

\* What is read of a file is a recovered state after every frame.
LEMMA FramesTyped ==
  ASSUME NEW file \in Seq(Unit)
  PROVE  \A k \in 0 .. Whole(file) : Recovered(FramesRead(file)[k])
<1> DEFINE R == FramesRead(file)
           n == Whole(file)
           S == {k \in 0 .. n : Recovered(R[k])}
<1>0. /\ n \in Nat /\ R[0] = NothingRecovered
      /\ \A k \in 1 .. n : R[k] = ReadFrame(R[k - 1], file, k)
  BY FramesFit, ReadStep
<1> HIDE DEF R
<1>1. 0 \in S
  <2>1. Recovered(NothingRecovered)
    BY DEF Recovered, NothingRecovered
  <2> QED BY <1>0, <2>1
<1>2. ASSUME NEW k \in 0 .. n - 1, k \in S PROVE k + 1 \in S
  <2>1. k + 1 \in 1 .. n /\ Recovered(R[k]) /\ R[k + 1] = ReadFrame(R[k], file, k + 1)
    BY <1>0, <1>2
  <2>2. Recovered(R[k + 1])
    BY <2>1, ReadFrameIs
  <2> QED BY <1>0, <2>1, <2>2
<1> HIDE DEF S
<1>3. \A k \in 0 .. n : k \in S
  BY <1>0, <1>1, <1>2, UpTo
<1> QED BY <1>3 DEF S, R

\* A frame that does not count as corrupt.
Fine(file, k) == Passes(Frame(file, k)) \/ k * Units = Len(file)

\* Corruption is reported if and only if a frame is bad and not the last of the file.
LEMMA CorruptIfBad ==
  ASSUME NEW file \in Seq(Unit)
  PROVE  \A k \in 0 .. Whole(file) :
           FramesRead(file)[k].corrupt = 0 <=> \A j \in 1 .. k : Fine(file, j)
<1> DEFINE R == FramesRead(file)
           n == Whole(file)
           S == {k \in 0 .. n : R[k].corrupt = 0 <=> \A j \in 1 .. k : Fine(file, j)}
<1>0. /\ n \in Nat /\ R[0] = NothingRecovered
      /\ \A k \in 1 .. n : R[k] = ReadFrame(R[k - 1], file, k)
      /\ \A k \in 0 .. n : Recovered(R[k])
  BY FramesFit, ReadStep, FramesTyped
<1> HIDE DEF R
<1>1. 0 \in S
  BY <1>0 DEF NothingRecovered
<1>2. ASSUME NEW k \in 0 .. n - 1, k \in S PROVE k + 1 \in S
  <2>1. k + 1 \in 1 .. n /\ Recovered(R[k]) /\ R[k + 1] = ReadFrame(R[k], file, k + 1)
        /\ k \in Nat
    BY <1>0, <1>2
  <2>2. R[k + 1].corrupt = IF Fine(file, k + 1) THEN R[k].corrupt ELSE R[k].corrupt + 1
    <3>1. CASE Passes(Frame(file, k + 1))
      <4>1. R[k + 1] = ReadRecord(R[k], RecordOf(file, k + 1)) /\ RecordOf(file, k + 1) \in Record
        BY <2>1, <3>1, ReadFrameIs
      <4>2. R[k + 1].corrupt = R[k].corrupt
        BY <2>1, <4>1, ReadRecordIs
      <4> QED BY <3>1, <4>2 DEF Fine
    <3>2. CASE ~ Passes(Frame(file, k + 1))
      <4>1. R[k + 1].corrupt = IF (k + 1) * Units = Len(file) THEN R[k].corrupt ELSE R[k].corrupt + 1
        BY <2>1, <3>2, ReadFrameIs
      <4>2. Fine(file, k + 1) <=> (k + 1) * Units = Len(file)
        BY <3>2 DEF Fine
      <4> QED BY <4>1, <4>2, Zenon
    <3> QED BY <3>1, <3>2
  <2>3. R[k].corrupt \in Nat
    BY <2>1 DEF Recovered
  <2>4. (\A j \in 1 .. k + 1 : Fine(file, j)) <=> (\A j \in 1 .. k : Fine(file, j)) /\ Fine(file, k + 1)
    <3>1. \A j : j \in 1 .. k + 1 <=> j \in 1 .. k \/ j = k + 1
      BY <2>1
    <3> QED BY <3>1
  <2>5. R[k].corrupt = 0 <=> \A j \in 1 .. k : Fine(file, j)
    BY <1>2
  <2>6. R[k + 1].corrupt = 0 <=> \A j \in 1 .. k + 1 : Fine(file, j)
    BY <2>2, <2>3, <2>4, <2>5
  <2> QED BY <1>0, <2>1, <2>6
<1> HIDE DEF S
<1>3. \A k \in 0 .. n : k \in S
  BY <1>0, <1>1, <1>2, UpTo
<1> QED BY <1>3 DEF S, R

\* As long as the frames pass, one record is read of each.
LEMMA ReadCount ==
  ASSUME NEW file \in Seq(Unit), NEW m \in 0 .. Whole(file),
         \A j \in 1 .. m : Passes(Frame(file, j))
  PROVE  FramesRead(file)[m].read = m
<1> DEFINE R == FramesRead(file)
           n == Whole(file)
           S == {k \in 0 .. m : R[k].read = k}
<1>0. /\ n \in Nat /\ m \in Nat /\ m <= n /\ R[0] = NothingRecovered
      /\ \A k \in 1 .. n : R[k] = ReadFrame(R[k - 1], file, k)
      /\ \A k \in 0 .. n : Recovered(R[k])
  BY FramesFit, ReadStep, FramesTyped
<1> HIDE DEF R, n
<1>1. 0 \in S
  BY <1>0 DEF NothingRecovered
<1>2. ASSUME NEW k \in 0 .. m - 1, k \in S PROVE k + 1 \in S
  <2>1. k + 1 \in 1 .. n /\ Recovered(R[k]) /\ R[k + 1] = ReadFrame(R[k], file, k + 1)
        /\ R[k].read = k /\ Passes(Frame(file, k + 1)) /\ k + 1 \in 0 .. m
    BY <1>0, <1>2
  <2>2. R[k + 1] = ReadRecord(R[k], RecordOf(file, k + 1)) /\ RecordOf(file, k + 1) \in Record
    BY <2>1, ReadFrameIs DEF n
  <2>3. R[k + 1].read = k + 1
    BY <2>1, <2>2, ReadRecordIs
  <2> QED BY <2>1, <2>3
<1> HIDE DEF S
<1>3. \A k \in 0 .. m : k \in S
  BY <1>0, <1>1, <1>2, UpTo
<1>4. m \in S
  BY <1>0, <1>3
<1> QED BY <1>4 DEF S, R

\* Two files that begin with the same frames, all of which pass, are read alike so far.
LEMMA SameFrames ==
  ASSUME NEW file \in Seq(Unit), NEW other \in Seq(Unit), NEW m \in 0 .. Whole(file),
         m <= Whole(other),
         \A j \in 1 .. m : Passes(Frame(file, j)) /\ Frame(other, j) = Frame(file, j)
  PROVE  FramesRead(other)[m] = FramesRead(file)[m]
<1> DEFINE R == FramesRead(file)
           Q == FramesRead(other)
           S == {k \in 0 .. m : Q[k] = R[k]}
<1>0. /\ Whole(file) \in Nat /\ Whole(other) \in Nat /\ m \in Nat
      /\ m <= Whole(file) /\ m <= Whole(other)
      /\ R[0] = NothingRecovered /\ Q[0] = NothingRecovered
      /\ \A k \in 1 .. Whole(file) : R[k] = ReadFrame(R[k - 1], file, k)
      /\ \A k \in 1 .. Whole(other) : Q[k] = ReadFrame(Q[k - 1], other, k)
  BY FramesFit, ReadStep
<1> HIDE DEF R, Q
<1>1. 0 \in S
  BY <1>0
<1>2. ASSUME NEW k \in 0 .. m - 1, k \in S PROVE k + 1 \in S
  <2>1. /\ k + 1 \in 0 .. m /\ k + 1 \in 1 .. m /\ Q[k] = R[k]
        /\ R[k + 1] = ReadFrame(R[k], file, k + 1)
        /\ Q[k + 1] = ReadFrame(Q[k], other, k + 1)
    <3>1. k + 1 \in 1 .. Whole(file) /\ k + 1 \in 1 .. Whole(other) /\ k + 1 - 1 = k
      BY <1>0
    <3> QED BY <1>0, <1>2, <3>1
  <2>2. Passes(Frame(file, k + 1)) /\ Frame(other, k + 1) = Frame(file, k + 1)
    BY <2>1
  <2>3. ReadFrame(R[k], other, k + 1) = ReadFrame(R[k], file, k + 1)
    BY <2>2 DEF ReadFrame
  <2> QED BY <2>1, <2>3
<1> HIDE DEF S
<1>3. \A k \in 0 .. m : k \in S
  BY <1>0, <1>1, <1>2, UpTo
<1>4. m \in S
  BY <1>0, <1>3
<1> QED BY <1>4 DEF S, R, Q

\* What recovery returns.
LEMMA RecoverIs ==
  ASSUME NEW file \in Seq(Unit)
  PROVE  /\ Recovered(Recover(file))
         /\ Alike(Recover(file), FramesRead(file)[Whole(file)])
         /\ Recover(file).corrupt = 0 <=> \A k \in 1 .. Whole(file) : Fine(file, k)
<1> DEFINE n == Whole(file)
           r == FramesRead(file)[n]
           torn == r.truncated \/ n * Units # Len(file)
           out == Recover(file)
<1>1. n \in Nat /\ Recovered(r) /\ (r.corrupt = 0 <=> \A k \in 1 .. n : Fine(file, k))
  <2>1. n \in Nat
    BY FramesFit
  <2>2. n \in 0 .. n
    BY <2>1
  <2> QED BY <2>1, <2>2, FramesTyped, CorruptIfBad
<1>2. out = [r EXCEPT !.truncated = torn]
  BY DEF Recover, Whole
<1>3. torn \in BOOLEAN
  OBVIOUS
<1> HIDE DEF r, torn, out
<1>4. Recovered(out) /\ Alike(out, r) /\ out.corrupt = r.corrupt
  BY <1>1, <1>2, <1>3 DEF Recovered, Alike
<1> QED BY <1>1, <1>4 DEF r, out

\* What is written next to a file: a record, or the first part of one.
Chunk(more) == more \in Seq(Unit) /\ Len(more) \in 1 .. Units /\ more[1].part = 1

\* Appending to a file leaves its frames, and completes at most one more.
LEMMA AppendedFrames ==
  ASSUME NEW file \in Seq(Unit), NEW more, Chunk(more)
  PROVE  LET new == file \o more
             n   == Whole(file)
         IN  /\ new \in Seq(Unit) /\ Len(new) = Len(file) + Len(more)
             /\ \A i \in 1 .. Len(more) : new[Len(file) + i] = more[i]
             /\ Whole(new) = n \/ Whole(new) = n + 1
             /\ Len(more) = Units => Whole(new) = n + 1
             /\ Len(file) = n * Units /\ Len(more) < Units => Whole(new) = n
             /\ \A k \in 1 .. n : Frame(new, k) = Frame(file, k) /\ k * Units # Len(new)
             /\ (n + 1) * Units = n * Units + Units
<1> DEFINE new == file \o more
           n   == Whole(file)
           w   == Whole(new)
           b   == n * Units
           c   == w * Units
<1>1. /\ new \in Seq(Unit) /\ Len(new) = Len(file) + Len(more)
      /\ \A i \in 1 .. Len(file) : new[i] = file[i]
      /\ \A i \in 1 .. Len(more) : new[Len(file) + i] = more[i]
      /\ Len(file) \in Nat /\ Len(more) \in 1 .. Units /\ Units \in Nat \ {0}
  <2>1. more \in Seq(Unit) /\ Len(more) \in 1 .. Units
    BY DEF Chunk
  <2>2. Len(file) \in Nat /\ Len(more) \in Nat
    BY <2>1, LenProperties
  <2>3. /\ new \in Seq(Unit) /\ Len(new) = Len(file) + Len(more)
        /\ \A i \in 1 .. Len(file) + Len(more) :
             new[i] = IF i <= Len(file) THEN file[i] ELSE more[i - Len(file)]
    BY <2>1, ConcatProperties
  <2> HIDE DEF new
  <2>4. \A i \in 1 .. Len(file) : new[i] = file[i]
    BY <2>2, <2>3
  <2>5. ASSUME NEW i \in 1 .. Len(more) PROVE new[Len(file) + i] = more[i]
    <3>1. Len(file) + i \in 1 .. Len(file) + Len(more) /\ ~ (Len(file) + i <= Len(file))
          /\ Len(file) + i - Len(file) = i
      BY <2>2
    <3> QED BY <2>3, <3>1
  <2> QED BY <2>1, <2>2, <2>3, <2>4, <2>5, UnitsType
<1> HIDE DEF new
<1>2. /\ n \in Nat /\ b \in Nat /\ b <= Len(file) /\ Len(file) < b + Units
      /\ w \in Nat /\ c \in Nat /\ c <= Len(new) /\ Len(new) < c + Units
      /\ \A k \in 1 .. n : (k - 1) * Units \in Nat /\ k * Units = (k - 1) * Units + Units
                           /\ k * Units <= b
  BY <1>1, FramesFit
<1>3. /\ (n + 1) * Units = b + Units
      /\ w < n => c + Units <= b
      /\ n < w => b + Units <= c
      /\ n + 1 < w => b + Units + Units <= c
  <2>0. /\ \A j \in Nat : j * Units \in Nat /\ (j + 1) * Units = j * Units + Units
        /\ \A i, j \in Nat : i < j => i * Units + Units <= j * Units
    BY UnitsType, Multiples
  <2> HIDE DEF n, w
  <2>1. (n + 1) * Units = b + Units /\ n + 1 \in Nat
    BY <1>2, <2>0
  <2>2. w < n => c + Units <= b
    BY <1>2, <2>0
  <2>3. n < w => b + Units <= c
    BY <1>2, <2>0
  <2>4. n + 1 < w => (n + 1) * Units + Units <= c
    BY <1>2, <2>0, <2>1
  <2> QED BY <2>1, <2>2, <2>3, <2>4
<1>4. /\ w = n \/ w = n + 1
      /\ Len(more) = Units => w = n + 1
      /\ Len(file) = b /\ Len(more) < Units => w = n
  <2> DEFINE l == Len(file)
             m == Len(more)
             L == Len(new)
  <2>1. /\ l \in Nat /\ m \in Nat /\ 0 < m /\ m <= Units /\ Units \in Nat /\ L = l + m
        /\ n \in Nat /\ w \in Nat /\ b \in Nat /\ c \in Nat
        /\ b <= l /\ l < b + Units /\ c <= L /\ L < c + Units
    BY <1>1, <1>2
  <2>2. /\ w < n => c + Units <= b
        /\ n < w => b + Units <= c
        /\ n + 1 < w => b + Units + Units <= c
        /\ w = n => c = b
        /\ w = n + 1 => c = b + Units
    BY <1>3
  <2> HIDE DEF n, w, b, c, l, m, L
  <2>3. ~ (w < n) /\ ~ (n + 1 < w)
    BY <2>1, <2>2
  <2>4. w = n \/ w = n + 1
    BY <2>1, <2>3
  <2>5. m = Units => w = n + 1
    BY <2>1, <2>2, <2>4
  <2>6. l = b /\ m < Units => w = n
    BY <2>1, <2>2, <2>4
  <2> QED BY <2>4, <2>5, <2>6 DEF l, m
<1>5. ASSUME NEW k \in 1 .. n
      PROVE  Frame(new, k) = Frame(file, k) /\ k * Units # Len(new)
  <2>1. k \in 1 .. w
    <3> HIDE DEF n, w
    <3> QED BY <1>2, <1>4
  <2>2. /\ Frame(new, k) \in [1 .. Units -> Unit] /\ Frame(file, k) \in [1 .. Units -> Unit]
        /\ \A p \in 1 .. Units :
             /\ (k - 1) * Units + p \in 1 .. Len(file)
             /\ Frame(file, k)[p] = file[(k - 1) * Units + p]
             /\ Frame(new, k)[p] = new[(k - 1) * Units + p]
    BY <1>1, <2>1, FrameUnits
  <2>3. \A p \in 1 .. Units : Frame(new, k)[p] = Frame(file, k)[p]
    BY <1>1, <2>2
  <2>4. Frame(new, k) = Frame(file, k)
    <3> DEFINE f == Frame(new, k)
               g == Frame(file, k)
    <3>1. f \in [1 .. Units -> Unit] /\ g \in [1 .. Units -> Unit]
          /\ \A p \in 1 .. Units : f[p] = g[p]
      BY <2>2, <2>3
    <3> HIDE DEF f, g
    <3>2. f = [p \in 1 .. Units |-> f[p]] /\ g = [p \in 1 .. Units |-> g[p]]
      BY <3>1
    <3>3. f = g
      BY <3>1, <3>2
    <3> QED BY <3>3 DEF f, g
  <2>5. k * Units # Len(new)
    <3> DEFINE kU == k * Units
    <3>1. kU = (k - 1) * Units + Units /\ (k - 1) * Units \in Nat /\ kU <= b
      BY <1>2
    <3> HIDE DEF kU, b
    <3>2. kU < Len(new)
      BY <1>1, <1>2, <3>1
    <3> QED BY <3>1, <3>2, <1>1 DEF kU
  <2> QED BY <2>4, <2>5
<1> QED BY <1>1, <1>3, <1>4, <1>5 DEF new

\* After an unfinished record no frame is whole: the parts that follow it start anew.
LEMMA TornFrameFails ==
  ASSUME NEW file \in Seq(Unit), NEW more, Chunk(more),
         Whole(file \o more) = Whole(file) + 1, Len(file) # Whole(file) * Units
  PROVE  ~ Passes(Frame(file \o more, Whole(file) + 1))
<1> DEFINE new == file \o more
           n   == Whole(file)
           b   == n * Units
           p   == Len(file) - b + 1
           frame == Frame(new, n + 1)
<1>1. /\ n \in Nat /\ b \in Nat /\ b <= Len(file) /\ Len(file) < b + Units /\ Len(file) \in Nat
      /\ Units \in Nat \ {0}
  BY FramesFit, UnitsType
<1>2. /\ new \in Seq(Unit) /\ new[Len(file) + 1] = more[1]
  <2>1. 1 \in 1 .. Len(more)
    <3>1. Len(more) \in 1 .. Units
      BY DEF Chunk
    <3> QED BY <3>1, <1>1
  <2> QED BY <2>1, AppendedFrames
<1>3. /\ frame \in [1 .. Units -> Unit]
      /\ \A q \in 1 .. Units : frame[q] = new[(n + 1 - 1) * Units + q]
  <2> DEFINE k == n + 1
  <2>1. k \in 1 .. Whole(new)
    BY <1>1
  <2>2. frame = Frame(new, k)
    OBVIOUS
  <2> HIDE DEF new, frame
  <2>3. /\ k - 1 = n + 1 - 1
        /\ frame \in [1 .. Units -> Unit]
        /\ \A q \in 1 .. Units : frame[q] = new[(k - 1) * Units + q]
    <3>1. k - 1 = n + 1 - 1
      BY <1>1
    <3> HIDE DEF k
    <3> QED BY <1>2, <2>1, <2>2, <3>1, FrameUnits
  <2> QED BY <2>3
<1> HIDE DEF new, n, frame
<1>4. p \in 1 .. Units /\ p # 1 /\ b + p = Len(file) + 1 /\ n + 1 - 1 = n
  <2> HIDE DEF b
  <2>1. Len(file) # b
    BY DEF b, n
  <2> QED BY <1>1, <2>1
<1>5. frame[p].part = 1
  <2>1. frame[p] = new[b + p]
    BY <1>3, <1>4
  <2>2. frame[p] = more[1]
    BY <1>2, <1>4, <2>1
  <2> QED BY <2>2 DEF Chunk
<1>6. ~ Passes(frame)
  <2> HIDE DEF p
  <2> QED BY <1>3, <1>4, <1>5, PassesPointwise
<1> QED BY <1>6 DEF frame, new, n

\* A file that is not corrupt after something was appended was not before, and all
\* its frames passed.
LEMMA NotCorruptBefore ==
  ASSUME NEW file \in Seq(Unit), NEW more, Chunk(more), Recover(file \o more).corrupt = 0
  PROVE  /\ Recover(file).corrupt = 0
         /\ \A k \in 1 .. Whole(file) : Passes(Frame(file, k))
         /\ FramesRead(file \o more)[Whole(file)] = FramesRead(file)[Whole(file)]
<1> DEFINE new == file \o more
           n   == Whole(file)
<1>1. /\ new \in Seq(Unit) /\ n \in Nat /\ Whole(new) \in Nat /\ n <= Whole(new)
      /\ \A k \in 1 .. n : Frame(new, k) = Frame(file, k) /\ k * Units # Len(new)
  <2>1. n \in Nat
    BY FramesFit
  <2>2. /\ new \in Seq(Unit)
        /\ Whole(new) = n \/ Whole(new) = n + 1
        /\ \A k \in 1 .. n : Frame(new, k) = Frame(file, k) /\ k * Units # Len(new)
    BY AppendedFrames
  <2> HIDE DEF new, n
  <2> QED BY <2>1, <2>2
<1>2. \A k \in 1 .. Whole(new) : Fine(new, k)
  BY <1>1, RecoverIs
<1> HIDE DEF new
<1>3. \A k \in 1 .. n : Passes(Frame(file, k))
  BY <1>1, <1>2 DEF Fine
<1>4. Recover(file).corrupt = 0
  BY <1>3, RecoverIs DEF Fine
<1>5. FramesRead(new)[n] = FramesRead(file)[n]
  <2>1. n \in 0 .. Whole(file)
    BY <1>1
  <2> HIDE DEF n
  <2> QED BY <1>1, <1>3, <2>1, SameFrames
<1> QED BY <1>3, <1>4, <1>5 DEF new

\* A record appended to the file is read after those before it, unless the file is
\* corrupt then.
LEMMA RecordAppended ==
  ASSUME NEW file \in Seq(Unit), NEW rec \in Record,
         Recover(file \o UnitsOf(rec)).corrupt = 0
  PROVE  LET r == Recover(file)
             q == Recover(file \o UnitsOf(rec))
         IN  /\ r.corrupt = 0
             /\ q.order = OrdersAfter(r, rec.event) /\ q.next = NextAfter(r, rec.event)
             /\ q.read = r.read + 1 /\ q.seq = rec.seq
             /\ q.gaps = IF r.seq # 0 /\ rec.seq # r.seq + 1 THEN r.gaps + 1 ELSE r.gaps
<1> DEFINE more == UnitsOf(rec)
           new  == file \o more
           n    == Whole(file)
           old  == FramesRead(file)[n]
           r    == Recover(file)
           q    == Recover(new)
<1>1. /\ Chunk(more) /\ Len(more) = Units
      /\ \A p \in 1 .. Units : more[p].rec = rec /\ more[p].part = p
  <2>1. Units \in Nat \ {0}
    BY UnitsType
  <2>2. more \in [1 .. Units -> Unit]
    <3>1. \A p \in 1 .. Units : [rec |-> rec, part |-> p] \in Unit
      BY DEF Unit
    <3> QED BY <3>1 DEF UnitsOf
  <2>3. \A p \in 1 .. Units : more[p].rec = rec /\ more[p].part = p
    BY DEF UnitsOf
  <2> HIDE DEF more
  <2>4. more \in Seq(Unit) /\ Len(more) = Units
    BY <2>1, <2>2
  <2>5. more[1].part = 1
    BY <2>1, <2>3
  <2> QED BY <2>1, <2>3, <2>4, <2>5 DEF Chunk
<1> HIDE DEF more
<1>2. /\ r.corrupt = 0 /\ FramesRead(new)[n] = old
  BY <1>1, NotCorruptBefore DEF more
<1>3. /\ new \in Seq(Unit) /\ Len(new) = Len(file) + Units
      /\ \A i \in 1 .. Units : new[Len(file) + i] = more[i]
      /\ Whole(new) = n + 1 /\ (n + 1) * Units = n * Units + Units
      /\ n \in Nat /\ n * Units \in Nat /\ Len(file) \in Nat
  <2>1. n \in Nat /\ n * Units \in Nat /\ Len(file) \in Nat
    BY FramesFit
  <2> QED BY <1>1, <2>1, AppendedFrames
<1>4. /\ Fine(new, n + 1) /\ Recovered(q) /\ Alike(q, FramesRead(new)[n + 1])
  <2>1. /\ \A k \in 1 .. Whole(new) : Fine(new, k)
        /\ Recovered(q) /\ Alike(q, FramesRead(new)[Whole(new)])
    <3>1. q.corrupt = 0
      BY DEF more
    <3> HIDE DEF new
    <3> QED BY <1>3, <3>1, RecoverIs
  <2>2. n + 1 \in 1 .. Whole(new)
    BY <1>3
  <2> QED BY <2>1, <2>2, <1>3
<1>5. Len(file) = n * Units
  <2> SUFFICES ASSUME Len(file) # n * Units PROVE FALSE
    OBVIOUS
  <2>1. ~ Passes(Frame(new, n + 1))
    BY <1>1, <1>3, TornFrameFails
  <2>2. n * Units + Units = Len(file) + Units
    BY <1>3, <1>4, <2>1 DEF Fine
  <2> DEFINE b == n * Units
  <2>3. b + Units = Len(file) + Units /\ b \in Nat /\ b # Len(file)
    BY <1>3, <2>2
  <2> HIDE DEF b
  <2> QED BY <2>3, <1>3, UnitsType
<1>6. Passes(Frame(new, n + 1)) /\ RecordOf(new, n + 1) = rec
  <2> DEFINE frame == Frame(new, n + 1)
  <2>1. n + 1 \in 1 .. Whole(new) /\ n + 1 - 1 = n
    BY <1>3
  <2>2. /\ frame \in [1 .. Units -> Unit]
        /\ \A p \in 1 .. Units : frame[p] = new[n * Units + p]
    <3>1. /\ frame \in [1 .. Units -> Unit]
          /\ \A p \in 1 .. Units : frame[p] = new[(n + 1 - 1) * Units + p]
      <4> DEFINE k == n + 1
      <4>1. /\ frame = Frame(new, k) /\ k \in 1 .. Whole(new) /\ k - 1 = n + 1 - 1
            /\ new \in Seq(Unit)
        BY <1>3, <2>1
      <4> HIDE DEF new, frame, k
      <4>2. /\ frame \in [1 .. Units -> Unit]
            /\ \A p \in 1 .. Units : frame[p] = new[(k - 1) * Units + p]
        BY <4>1, FrameUnits
      <4> QED BY <4>1, <4>2
    <3> QED BY <2>1, <3>1
  <2> HIDE DEF frame
  <2>3. \A p \in 1 .. Units : frame[p].rec = rec /\ frame[p].part = p
    <3>1. \A p \in 1 .. Units : frame[p] = more[p]
      BY <1>3, <1>5, <2>2
    <3> QED BY <1>1, <3>1
  <2>4. 1 \in 1 .. Units
    BY UnitsType
  <2>5. \A p \in 1 .. Units : frame[p].part = p /\ frame[p].rec = frame[1].rec
    BY <2>3, <2>4
  <2>6. Passes(frame)
    BY <2>2, <2>5, PassesPointwise
  <2>7. frame[1].rec = rec
    BY <2>3, <2>4
  <2> QED BY <2>6, <2>7 DEF frame, RecordOf
<1>7. FramesRead(new)[n + 1] = ReadRecord(old, rec)
  <2>1. n + 1 \in 1 .. Whole(new) /\ n + 1 - 1 = n
    BY <1>3
  <2>2. FramesRead(new)[n + 1] = ReadFrame(FramesRead(new)[n], new, n + 1)
    <3> DEFINE k == n + 1
    <3>1. k \in 1 .. Whole(new) /\ new \in Seq(Unit) /\ k - 1 = n
      BY <1>3, <2>1
    <3> HIDE DEF k, new
    <3>2. FramesRead(new)[k] = ReadFrame(FramesRead(new)[k - 1], new, k)
      BY <3>1, ReadStep
    <3> QED BY <3>1, <3>2 DEF k
  <2>3. FramesRead(new)[n + 1] = ReadFrame(old, new, n + 1)
    BY <1>2, <2>2
  <2> QED BY <1>6, <2>3 DEF ReadFrame, RecordOf
<1>8. Recovered(old) /\ Alike(r, old) /\ Recovered(r)
  <2>1. n \in 0 .. n
    BY <1>3
  <2> QED BY <2>1, FramesTyped, RecoverIs
<1> HIDE DEF q, r, old, new, n
<1>9. /\ q.order = OrdersAfter(old, rec.event) /\ q.next = NextAfter(old, rec.event)
      /\ q.read = old.read + 1 /\ q.seq = rec.seq
      /\ q.gaps = IF old.seq # 0 /\ rec.seq # old.seq + 1 THEN old.gaps + 1 ELSE old.gaps
  BY <1>4, <1>7, <1>8, ReadRecordIs DEF Alike
<1>10. /\ OrdersAfter(old, rec.event) = OrdersAfter(r, rec.event)
       /\ NextAfter(old, rec.event) = NextAfter(r, rec.event)
       /\ old.read = r.read /\ old.seq = r.seq /\ old.gaps = r.gaps
  BY <1>8 DEF OrdersAfter, NextAfter, AfterReport, Applies, Tracked, Alike
<1> QED BY <1>2, <1>9, <1>10 DEF q, r, new, more

\* Part of a record appended to the file changes nothing of what is read, unless the
\* file is corrupt then.
LEMMA PartAppended ==
  ASSUME NEW file \in Seq(Unit), NEW more, Chunk(more), Len(more) < Units,
         Recover(file \o more).corrupt = 0
  PROVE  Alike(Recover(file \o more), Recover(file))
<1> DEFINE new  == file \o more
           n    == Whole(file)
           old  == FramesRead(file)[n]
           last == FramesRead(new)[n + 1]
           r    == Recover(file)
           q    == Recover(new)
<1>1. /\ r.corrupt = 0 /\ FramesRead(new)[n] = old
  BY NotCorruptBefore
<1>2. /\ new \in Seq(Unit) /\ n \in Nat
      /\ Whole(new) = n \/ Whole(new) = n + 1
      /\ Len(file) = n * Units => Whole(new) = n
  BY AppendedFrames, FramesFit
<1>3. /\ Recovered(old) /\ Alike(r, old) /\ Alike(q, FramesRead(new)[Whole(new)])
      /\ \A k \in 0 .. Whole(new) : Recovered(FramesRead(new)[k])
  <2>1. n \in 0 .. n /\ new \in Seq(Unit)
    BY FramesFit, AppendedFrames
  <2> QED BY <2>1, FramesTyped, RecoverIs
<1>4. CASE Whole(new) = n
  BY <1>1, <1>3, <1>4 DEF Alike
<1>5. CASE Whole(new) = n + 1
  <2>0. new \in Seq(Unit) /\ n \in Nat
    BY AppendedFrames, FramesFit
  <2>1. n + 1 \in 1 .. Whole(new) /\ n + 1 - 1 = n
    BY <2>0, <1>5
  <2>2. Len(file) # n * Units
    <3>1. Len(file) = n * Units => Whole(new) = n
      BY AppendedFrames
    <3> QED BY <3>1, <1>5, <2>0
  <2>3. ~ Passes(Frame(new, n + 1))
    BY <1>5, <2>2, TornFrameFails
  <2>4. last = ReadFrame(old, new, n + 1)
    <3> DEFINE k == n + 1
    <3>1. k \in 1 .. Whole(new) /\ k - 1 = n
      BY <2>0, <2>1
    <3> HIDE DEF k, new
    <3>2. FramesRead(new)[k] = ReadFrame(FramesRead(new)[k - 1], new, k)
      BY <2>0, <3>1, ReadStep
    <3> QED BY <1>1, <3>1, <3>2 DEF k
  <2>5. /\ last.read = old.read /\ last.order = old.order /\ last.seq = old.seq
        /\ last.gaps = old.gaps /\ last.next = old.next
    <3> HIDE DEF new, old, last, n
    <3> QED BY <1>3, <2>0, <2>1, <2>3, <2>4, ReadFrameIs
  <2>6. q.corrupt = 0
    OBVIOUS
  <2>7. Alike(q, last)
    BY <1>3, <1>5
  <2> HIDE DEF new, old, last, n, q, r
  <2>8. Alike(q, r)
    BY <1>1, <1>3, <2>5, <2>6, <2>7 DEF Alike
  <2> QED BY <2>8 DEF q, r, new
<1> QED BY <1>2, <1>4, <1>5
-----------------------------------------------------------------------------
(***************************************************************************)
(* The inductive invariants.                                               *)
(***************************************************************************)

VenueOrder ==
  [id : Nat \ {0}, symbol : Symbol, side : Side, quantity : Nat \ {0}, filled : Nat,
   leaves : Nat]

\* What an order still rests, and what was executed of it, is within what was sent.
WellBooked(vo) ==
  /\ vo.filled + vo.leaves <= vo.quantity
  /\ vo.leaves > 0 => vo.filled + vo.leaves = vo.quantity

\* What the venue says on the wire: of a fill, how much.
Said == {rep \in Report : /\ rep.type \in {"Acked", "Cancelled", "Fill"}
                          /\ rep.type = "Fill" => rep.quantity # 0}

JournalTyped(j) ==
  /\ DOMAIN j = {"file", "os", "disk", "since", "seq"}
  /\ j.file \in Seq(Unit)
  /\ j.os \in Nat /\ j.disk \in Nat /\ j.since \in Nat /\ j.seq \in Nat
  /\ j.disk <= j.os /\ j.os <= Len(j.file)

MarketTyped ==
  /\ venue \in Seq(VenueOrder) /\ \A k \in DOMAIN venue : WellBooked(venue[k])
  /\ wire \in Seq(Said) /\ (~Up => wire = << >>)
  /\ sent \subseteq Nat

ProcessTyped ==
  /\ pc \in {"down", "refused", "opening", "idle", "sending", "stopping", "closing"}
  /\ policy \in SyncPolicy
  /\ session \in 0 .. MaxSession /\ (Up => session # 0)
  /\ IInv(oms) /\ (pc = "sending" => Sending \in Working(oms))
  /\ marked \in Nat
  /\ \A s \in DOMAIN held : s \in Int /\ held[s] \in Int
  /\ reused \in BOOLEAN /\ overlooked \in BOOLEAN /\ lost \in BOOLEAN

Shape == ProcessTyped /\ JournalTyped(journal) /\ MarketTyped

\* How far the device may be behind the file.
SessionLag == (SyncInterval - 1) * Units
Lag == IF Up THEN (session - 1) * SessionLag + journal.since * Units
       ELSE session * SessionLag

\* What the policy asks of a journal, if the device may be so far behind it.
Secured(j, how, lag) ==
  /\ how \in {"OnWrite", "Always"} => j.os = Len(j.file)
  /\ how = "Always" => \A k \in RecordEnds(j.file) : k <= j.disk
  /\ how = "Interval" => IF SyncInterval = 1
                         THEN \A k \in RecordEnds(j.file) : k <= j.disk
                         ELSE Len(j.file) <= j.disk + lag

SyncInv ==
  /\ Secured(journal, policy, Lag)
  /\ policy = "Interval" =>
       /\ ~Up => journal.os = Len(journal.file)
       /\ Up => /\ journal.since < SyncInterval
                /\ journal.os = Len(journal.file) => journal.since = 0
                /\ Len(journal.file) <= journal.os + journal.since * Units

\* The file recovers without a complaint, and no record is missing from it.
Intact == ~lost /\ Recover(journal.file).corrupt = 0

Numbered ==
  LET r == Recover(journal.file)
  IN  Intact => r.gaps = 0 /\ r.seq = r.read /\ (Up => journal.seq = r.read)

\* The highest id on record is above every one the venue was given and below the next
\* one; it is the one in hand while an order is being sent.
IdsOnRecord ==
  LET r == Recover(journal.file)
  IN  Intact =>
        /\ DOMAIN r.order \subseteq 0 .. r.next
        /\ \A i \in sent : i <= r.next
        /\ Up => r.next < oms.next
        /\ pc = "sending" => r.next = Sending

\* The same of the session, which goes on when records are damaged below it.
IdsInUse ==
  ~lost /\ ~overlooked /\ Up => \A i \in sent : i < oms.next /\ (pc = "sending" => i < Sending)

FreshIds == IdsOnRecord /\ IdsInUse /\ ReuseFollowsDamage

LiveThere == {k \in DOMAIN venue : venue[k].leaves > 0}

\* Records which take the order under id i for a working one.
OrderFields == {"symbol", "side", "quantity", "filled", "leaves", "state", "age"}
Works(order, i, quantity) ==
  /\ i \in DOMAIN order /\ DOMAIN order[i] = OrderFields
  /\ order[i].state \in Live /\ order[i].quantity = quantity /\ order[i].filled \in Nat

\* Records which know a live order, and of its fills none that is still to come.
Covers(order, reps, vo) ==
  /\ Works(order, vo.id, vo.quantity)
  /\ order[vo.id].filled + InFlight(reps, vo.id) <= vo.filled

\* An id the venue may have heard of is below the next one, or the one in hand.
Known(i) == i < oms.next /\ (pc = "sending" => i # Sending)

OneEach ==
  Up => /\ \A j, k \in LiveThere : venue[j].id = venue[k].id => j = k
        /\ \A k \in LiveThere : Known(venue[k].id)
        /\ \A j \in DOMAIN wire :
             /\ Known(wire[j].id)
             /\ wire[j].type = "Cancelled" => \A k \in LiveThere : venue[k].id # wire[j].id

CoveredHere ==
  Up => /\ \A k \in LiveThere : Covers(oms.order, wire, venue[k])
        /\ pc = "sending" => Sending \in Working(oms) /\ oms.order[Sending].filled = 0

CoveredInFile ==
  LET r == Recover(journal.file)
  IN  Intact =>
        /\ \A k \in LiveThere : Covers(r.order, wire, venue[k])
        /\ pc = "sending" => /\ Works(r.order, Sending, oms.order[Sending].quantity)
                             /\ r.order[Sending].filled = 0

TrackedInv == ~lost => OneEach /\ CoveredHere /\ CoveredInFile

-----------------------------------------------------------------------------
(***************************************************************************)
(* Writing to the file.                                                    *)
(***************************************************************************)

\* What the engine writes are events.
LEMMA EventsTyped ==
  /\ SessionStart \in Event /\ SessionEnd \in Event /\ [type |-> "Torn"] \in Event
  /\ \A id \in Nat \ {0}, s \in Symbol, d \in Side, q \in Nat \ {0} :
       OrderSent(id, s, d, q) \in Event
  /\ \A rep \in Report : ExecReport(rep) \in Event
  /\ \A s \in Int, p \in Int : Checkpoint(s, p) \in Event
<1>1. SessionStart \in Event /\ SessionEnd \in Event /\ [type |-> "Torn"] \in Event
  BY DEF Event
<1>2. ASSUME NEW id \in Nat \ {0}, NEW s \in Symbol, NEW d \in Side, NEW q \in Nat \ {0}
      PROVE  OrderSent(id, s, d, q) \in Event
  BY DEF Event, OrderSent
<1>3. ASSUME NEW rep \in Report PROVE ExecReport(rep) \in Event
  BY DEF Event, ExecReport
<1>4. ASSUME NEW s \in Int, NEW p \in Int PROVE Checkpoint(s, p) \in Event
  BY DEF Event, Checkpoint
<1> QED BY <1>1, <1>2, <1>3, <1>4

\* The record an event is written as.
RecordFor(j, n, event) == [seq |-> j.seq + 1, session |-> n, event |-> event]

\* It is one, and its units can be appended.
LEMMA RecordUnits ==
  ASSUME NEW rec \in Record
  PROVE  /\ Chunk(UnitsOf(rec)) /\ UnitsOf(rec) \in Seq(Unit) /\ Len(UnitsOf(rec)) = Units
         /\ \A p \in 1 .. Units : UnitsOf(rec)[p].rec = rec /\ UnitsOf(rec)[p].part = p
<1> DEFINE more == UnitsOf(rec)
<1>1. Units \in Nat \ {0}
  BY UnitsType
<1>2. \A p \in 1 .. Units : [rec |-> rec, part |-> p] \in Unit
  BY DEF Unit
<1>3. more \in [1 .. Units -> Unit]
  BY <1>2 DEF UnitsOf
<1>4. \A p \in 1 .. Units : more[p].rec = rec /\ more[p].part = p
  BY DEF UnitsOf
<1> HIDE DEF more
<1>5. more \in Seq(Unit) /\ Len(more) = Units
  BY <1>1, <1>3
<1>6. more[1].part = 1
  BY <1>1, <1>4
<1> QED BY <1>1, <1>4, <1>5, <1>6 DEF Chunk, more

\* Writing an event appends a record under the next number; how far it goes is a
\* matter of the policy.
Written(j, n, how, rec) ==
  /\ JournalTyped(n)
  /\ n.file = j.file \o UnitsOf(rec) /\ n.seq = j.seq + 1
  /\ Len(n.file) = Len(j.file) + Units
  /\ how = "OnWrite" => n.os = Len(n.file) /\ n.disk = j.disk
  /\ how = "Always" => n.os = Len(n.file) /\ n.disk = Len(n.file)
  /\ how = "Interval" =>
       IF j.since + 1 < SyncInterval
       THEN n.since = j.since + 1 /\ n.os = j.os /\ n.disk = j.disk
       ELSE n.since = 0 /\ n.os = Len(n.file) /\ n.disk = Len(n.file)

\* The record that is written is one, and the journal is as said afterwards.
LEMMA WriteIs ==
  ASSUME NEW j, JournalTyped(j), NEW how \in SyncPolicy, NEW n \in Nat, NEW event \in Event
  PROVE  /\ RecordFor(j, n, event) \in Record
         /\ Written(j, AppendRecord(j, how, n, event), how, RecordFor(j, n, event))
<1> DEFINE rec  == RecordFor(j, n, event)
           file == j.file \o UnitsOf(rec)
           w    == [j EXCEPT !.file = file, !.seq = j.seq + 1]
           out  == AppendRecord(j, how, n, event)
<1>1. rec \in Record
  BY DEF JournalTyped, RecordFor, Record
<1>2. out = CASE how = "OnWrite"  -> HandedToOs(w)
              [] how = "Always"   -> Synced(w)
              [] how = "Interval" -> SyncedIfDue([w EXCEPT !.since = w.since + 1])
  BY DEF AppendRecord, RecordFor
<1> HIDE DEF rec
<1>3. file \in Seq(Unit) /\ Len(file) = Len(j.file) + Units /\ Len(j.file) \in Nat
      /\ Units \in Nat \ {0} /\ Len(file) \in Nat
  <2>1. UnitsOf(rec) \in Seq(Unit) /\ Len(UnitsOf(rec)) = Units
    BY <1>1, RecordUnits
  <2>2. j.file \in Seq(Unit)
    BY DEF JournalTyped
  <2> QED BY <2>1, <2>2, UnitsType, ConcatProperties, LenProperties
<1>0. file = j.file \o UnitsOf(rec)
  OBVIOUS
<1> HIDE DEF file
<1>4. /\ DOMAIN w = {"file", "os", "disk", "since", "seq"}
      /\ w.file = file /\ w.seq = j.seq + 1 /\ w.os = j.os /\ w.disk = j.disk
      /\ w.since = j.since
  BY DEF JournalTyped
<1>5. /\ j.os \in Nat /\ j.disk \in Nat /\ j.since \in Nat /\ j.seq \in Nat
      /\ j.disk <= j.os /\ j.os <= Len(file) /\ SyncInterval \in Nat \ {0}
  BY <1>3, JournalConstants DEF JournalTyped
<1> HIDE DEF w, out
<1>6. Written(j, out, how, rec)
  <2>1. CASE how = "OnWrite"
    <3>1. out = [w EXCEPT !.os = Len(file)]
      BY <1>2, <1>4, <2>1 DEF HandedToOs
    <3>2. /\ DOMAIN out = {"file", "os", "disk", "since", "seq"}
          /\ out.file = file /\ out.seq = j.seq + 1 /\ out.os = Len(file) /\ out.disk = j.disk
          /\ out.since = j.since
      BY <1>4, <3>1
    <3> QED BY <1>0, <1>3, <1>5, <2>1, <3>2 DEF Written, JournalTyped
  <2>2. CASE how = "Always"
    <3>1. out = [w EXCEPT !.os = Len(file), !.disk = Len(file), !.since = 0]
      BY <1>2, <1>4, <2>2 DEF Synced
    <3>2. /\ DOMAIN out = {"file", "os", "disk", "since", "seq"}
          /\ out.file = file /\ out.seq = j.seq + 1 /\ out.os = Len(file)
          /\ out.disk = Len(file) /\ out.since = 0
      BY <1>4, <3>1
    <3> QED BY <1>0, <1>3, <1>5, <2>2, <3>2 DEF Written, JournalTyped
  <2>3. CASE how = "Interval"
    <3> DEFINE more == [w EXCEPT !.since = w.since + 1]
    <3>1. out = SyncedIfDue(more)
      BY <1>2, <2>3
    <3>2. /\ DOMAIN more = {"file", "os", "disk", "since", "seq"}
          /\ more.file = file /\ more.seq = j.seq + 1 /\ more.os = j.os /\ more.disk = j.disk
          /\ more.since = j.since + 1
      BY <1>4
    <3> HIDE DEF more
    <3>3. CASE j.since + 1 < SyncInterval
      <4>1. out = more
        BY <1>5, <3>1, <3>2, <3>3 DEF SyncedIfDue
      <4>2. /\ DOMAIN out = {"file", "os", "disk", "since", "seq"}
            /\ out.file = file /\ out.seq = j.seq + 1 /\ out.os = j.os
            /\ out.disk = j.disk /\ out.since = j.since + 1
        BY <3>2, <4>1
      <4>3. JournalTyped(out)
        BY <1>3, <1>5, <4>2 DEF JournalTyped
      <4> QED BY <1>0, <1>3, <2>3, <3>3, <4>2, <4>3 DEF Written
    <3>4. CASE ~ (j.since + 1 < SyncInterval)
      <4>1. out = [more EXCEPT !.os = Len(file), !.disk = Len(file), !.since = 0]
        BY <1>5, <3>1, <3>2, <3>4 DEF SyncedIfDue, Synced
      <4>2. /\ DOMAIN out = {"file", "os", "disk", "since", "seq"}
            /\ out.file = file /\ out.seq = j.seq + 1 /\ out.os = Len(file)
            /\ out.disk = Len(file) /\ out.since = 0
        BY <3>2, <4>1
      <4> QED BY <1>0, <1>3, <1>5, <2>3, <3>4, <4>2 DEF Written, JournalTyped
    <3> QED BY <3>3, <3>4
  <2> QED BY <2>1, <2>2, <2>3 DEF SyncPolicy
<1> QED BY <1>1, <1>6 DEF rec, out

-----------------------------------------------------------------------------
(***************************************************************************)
(* The adoption of what the venue still rests.                             *)
(***************************************************************************)

\* What the snapshot lists.
LEMMA Listed ==
  ASSUME NEW asked
  PROVE  LET snap == Snapshot(asked)
         IN  /\ snap.available = asked /\ snap.position = account
             /\ DOMAIN snap.orders = LiveThere
             /\ \A k \in LiveThere : snap.orders[k] = venue[k]
BY DEF Snapshot, Resting, Restrict, Rests, LiveThere

\* One step of the adoption.
Adoption(before, r, snap, k) ==
  IF k \in ToAdopt(r, snap) THEN Adopt(before, OpenOrder(snap.orders[k])) ELSE before

\* The orders are gone through one after another.
LEMMA AdoptInOrder ==
  ASSUME NEW o, NEW r, NEW snap, Len(venue) \in Nat
  PROVE  Adopting(o, r, snap) =
           [k \in 0 .. Len(venue) |->
              IF k = 0 THEN o ELSE Adoption(Adopting(o, r, snap)[k - 1], r, snap, k)]
<1> DEFINE n == Len(venue)
           Adopts(g, m) == g = [k \in 0 .. m |-> IF k = 0 THEN o
                                                 ELSE Adoption(g[k - 1], r, snap, k)]
           S == {m \in Nat : \E g : Adopts(g, m)}
<1>1. n \in Nat
  OBVIOUS
<1>2. 0 \in S
  <2>1. Adopts([k \in 0 .. 0 |-> o], 0)
    OBVIOUS
  <2> QED BY <2>1
<1>3. ASSUME NEW m \in Nat, m \in S PROVE m + 1 \in S
  <2>1. PICK g : Adopts(g, m)
    BY <1>3
  <2> DEFINE h == [k \in 0 .. m + 1 |-> IF k = m + 1 THEN Adoption(g[m], r, snap, m + 1) ELSE g[k]]
             h2 == [k \in 0 .. m + 1 |-> IF k = 0 THEN o ELSE Adoption(h[k - 1], r, snap, k)]
  <2>2. ASSUME NEW k \in 0 .. m + 1 PROVE h[k] = h2[k]
    <3>1. CASE k = m + 1
      BY <3>1
    <3>2. CASE k # m + 1
      <4>1. k \in 0 .. m /\ h[k] = g[k]
        BY <3>2
      <4>2. g[k] = IF k = 0 THEN o ELSE Adoption(g[k - 1], r, snap, k)
        BY <2>1, <4>1
      <4>3. k # 0 => h[k - 1] = g[k - 1]
        BY <4>1
      <4> QED BY <4>1, <4>2, <4>3
    <3> QED BY <3>1, <3>2
  <2>3. h = h2
    BY <2>2
  <2>4. Adopts(h, m + 1)
    BY <2>3, Zenon
  <2> HIDE DEF Adopts, h
  <2> QED BY <2>4
<1>4. n \in S
  <2> HIDE DEF S, n
  <2>1. \A k \in 0 .. n - 1 : k \in S => k + 1 \in S
    BY <1>1, <1>3
  <2>2. \A k \in 0 .. n : k \in S
    BY <1>1, <1>2, <2>1, UpTo
  <2> QED BY <1>1, <2>2
<1>5. Adopting(o, r, snap) = CHOOSE g : Adopts(g, n)
  BY DEF Adopting, Adoption
<1> QED BY <1>4, <1>5

\* A tracked order that was adopted from order j of the venue.
AdoptedFrom(n, i, j) ==
  /\ venue[j].id = i /\ n.order[i].state \in Live
  /\ n.order[i].quantity = venue[j].quantity /\ n.order[i].filled = venue[j].filled

\* The orders adopted are among those handed on, each with what the venue says of it.
LEMMA Adopted ==
  ASSUME MarketTyped, NEW o, IInv(o), Tracked(o) = {}, NEW r, NEW asked
  PROVE  \A k \in 0 .. Len(venue) :
           LET n == Adopting(o, r, Snapshot(asked))[k]
           IN  /\ IInv(n) /\ n.next >= o.next
               /\ \A i \in Tracked(n) : \E j \in ToAdopt(r, Snapshot(asked)) : AdoptedFrom(n, i, j)
<1> DEFINE snap == Snapshot(asked)
           A == Adopting(o, r, snap)
           Good(n) == /\ IInv(n) /\ n.next >= o.next
                      /\ \A i \in Tracked(n) : \E j \in ToAdopt(r, snap) : AdoptedFrom(n, i, j)
           S == {k \in 0 .. Len(venue) : Good(A[k])}
<1>1. /\ Len(venue) \in Nat /\ DOMAIN venue = 1 .. Len(venue)
      /\ \A k \in DOMAIN venue : venue[k] \in VenueOrder /\ WellBooked(venue[k])
  BY LenProperties, ElementOfSeq DEF MarketTyped
<1>2. A[0] = o /\ \A k \in 0 .. Len(venue) - 1 : A[k + 1] = Adoption(A[k], r, snap, k + 1)
  <2>1. A = [k \in 0 .. Len(venue) |-> IF k = 0 THEN o ELSE Adoption(A[k - 1], r, snap, k)]
    BY <1>1, AdoptInOrder
  <2> HIDE DEF A
  <2>2. \A k \in 0 .. Len(venue) : A[k] = IF k = 0 THEN o ELSE Adoption(A[k - 1], r, snap, k)
    BY <2>1
  <2>3. ASSUME NEW k \in 0 .. Len(venue) - 1 PROVE A[k + 1] = Adoption(A[k], r, snap, k + 1)
    <3>1. k + 1 \in 0 .. Len(venue) /\ k + 1 # 0 /\ k + 1 - 1 = k
      BY <1>1
    <3> QED BY <2>2, <3>1
  <2> QED BY <1>1, <2>2, <2>3
<1>3. /\ ToAdopt(r, snap) \subseteq LiveThere /\ LiveThere \subseteq DOMAIN venue
      /\ \A k \in LiveThere : snap.orders[k] = venue[k]
  BY Listed DEF ToAdopt, AgreedOpen, LiveThere
<1> HIDE DEF A, snap
<1>4. 0 \in S
  <2>1. o.next \in Nat
    BY DEF IInv, Sound, Typed
  <2> QED BY <1>1, <1>2, <2>1
<1>5. ASSUME NEW k \in 0 .. Len(venue) - 1, k \in S PROVE k + 1 \in S
  <2> DEFINE b == A[k]
             n == A[k + 1]
             vo == venue[k + 1]
             open == OpenOrder(vo)
  <2>1. /\ IInv(b) /\ b.next >= o.next /\ k + 1 \in 0 .. Len(venue)
        /\ \A i \in Tracked(b) : \E j \in ToAdopt(r, snap) : AdoptedFrom(b, i, j)
    BY <1>1, <1>5
  <2>2. n = Adoption(b, r, snap, k + 1)
    BY <1>2
  <2> HIDE DEF b, n
  <2>3. CASE k + 1 \notin ToAdopt(r, snap)
    <3>1. n = b
      BY <2>2, <2>3 DEF Adoption
    <3> QED BY <2>1, <3>1 DEF n
  <2>4. CASE k + 1 \in ToAdopt(r, snap)
    <3>1. n = Adopt(b, open)
      BY <1>3, <2>2, <2>4 DEF Adoption
    <3>2. /\ OpenSnapshot(open) /\ open.filled + open.leaves = open.quantity
          /\ open.id = vo.id /\ open.quantity = vo.quantity /\ open.filled = vo.filled
          /\ open.filled <= open.quantity
      <4>1. k + 1 \in LiveThere
        BY <1>3, <2>4
      <4>2. vo \in VenueOrder /\ WellBooked(vo) /\ vo.leaves > 0
        BY <1>1, <1>3, <4>1 DEF LiveThere
      <4> HIDE DEF vo
      <4> QED BY <4>2 DEF OpenSnapshot, OpenOrder, VenueOrder, WellBooked
    <3> HIDE DEF open
    <3>3. IInv(n)
      BY <2>1, <3>1, <3>2, AdoptKeeps
    <3>4. n.next >= o.next
      <4>1. n.next >= b.next
        BY <2>1, <3>1, <3>2, AdoptAdvances DEF Advances
      <4>2. n.next \in Nat /\ b.next \in Nat /\ o.next \in Nat
        BY <2>1, <3>3 DEF IInv, Sound, Typed
      <4> QED BY <2>1, <4>1, <4>2
    <3>5. ASSUME NEW i \in Tracked(n)
          PROVE  \E j \in ToAdopt(r, snap) : AdoptedFrom(n, i, j)
      <4>1. /\ \A l \in Tracked(b) : l \in Tracked(n) /\ n.order[l] = b.order[l]
            /\ \/ Tracked(n) = Tracked(b)
               \/ /\ Tracked(n) = Tracked(b) \cup {open.id}
                  /\ open.id \in Working(n)
                  /\ n.order[open.id].quantity = open.quantity
                  /\ n.order[open.id].filled = open.filled
        BY <2>1, <3>1, <3>2, AdoptRemembers
      <4>2. CASE i \in Tracked(b)
        <5>1. PICK j \in ToAdopt(r, snap) : AdoptedFrom(b, i, j)
          BY <2>1, <4>2
        <5>2. AdoptedFrom(n, i, j)
          BY <4>1, <4>2, <5>1 DEF AdoptedFrom
        <5> QED BY <5>2
      <4>3. CASE i \notin Tracked(b)
        <5>1. i = open.id /\ open.id \in Working(n)
              /\ n.order[open.id].quantity = open.quantity
              /\ n.order[open.id].filled = open.filled
          BY <4>1, <4>3
        <5>2. AdoptedFrom(n, i, k + 1)
          BY <3>2, <5>1 DEF AdoptedFrom, Working
        <5> QED BY <2>4, <5>2
      <4> QED BY <4>2, <4>3
    <3>6. Good(n)
      BY <3>3, <3>4, <3>5
    <3> HIDE DEF Good
    <3> QED BY <2>1, <3>6 DEF n
  <2> QED BY <2>3, <2>4
<1> HIDE DEF S
<1>6. \A k \in 0 .. Len(venue) : k \in S
  BY <1>1, <1>4, <1>5, UpTo
<1> QED BY <1>6 DEF S, A, snap

\* What a session starts with: ids above those recovery read, and of the orders it was
\* handed those it adopted.
LEMMA FreshIs ==
  ASSUME MarketTyped, NEW r, r.next \in Nat, NEW asked
  PROVE  LET n == FreshOms(r, Snapshot(asked))
         IN  /\ IInv(n) /\ r.next < n.next
             /\ \A i \in Tracked(n) : \E j \in ToAdopt(r, Snapshot(asked)) : AdoptedFrom(n, i, j)
<1> DEFINE o == SetNextId(InitOms, r.next + 1)
<1>1. IInv(o)
  BY InitSound, SetNextIdKeeps
<1>2. o.next > r.next /\ Tracked(o) = {} /\ o.next \in Nat
  BY DEF SetNextId, InitOms, Tracked
<1> HIDE DEF o
<1>3. Len(venue) \in 0 .. Len(venue)
  BY LenProperties DEF MarketTyped
<1> DEFINE n == Adopting(o, r, Snapshot(asked))[Len(venue)]
<1>4. /\ IInv(n) /\ n.next >= o.next
      /\ \A i \in Tracked(n) : \E j \in ToAdopt(r, Snapshot(asked)) : AdoptedFrom(n, i, j)
  BY <1>1, <1>2, <1>3, Adopted
<1>5. n = FreshOms(r, Snapshot(asked))
  BY DEF FreshOms, o
<1> HIDE DEF n
<1>6. n.next \in Nat
  BY <1>4 DEF IInv, Sound, Typed
<1> QED BY <1>2, <1>4, <1>5, <1>6

-----------------------------------------------------------------------------
(***************************************************************************)
(* What the actions do, action by action as far as several invariants need *)
(* it.                                                                     *)
(***************************************************************************)

\* What Shape says of the parts.
LEMMA Parts ==
  ASSUME Shape
  PROVE  /\ JournalTyped(journal) /\ journal.file \in Seq(Unit) /\ Len(journal.file) \in Nat
         /\ IInv(oms) /\ Typed(oms) /\ oms.next \in Nat \ {0} /\ Tracked(oms) \subseteq Nat \ {0}
         /\ \A i \in Tracked(oms) : oms.order[i] \in OrderRecord
         /\ venue \in Seq(VenueOrder) /\ Len(venue) \in Nat /\ DOMAIN venue = 1 .. Len(venue)
         /\ \A k \in DOMAIN venue : venue[k] \in VenueOrder /\ WellBooked(venue[k])
         /\ wire \in Seq(Said) /\ Len(wire) \in Nat /\ DOMAIN wire = 1 .. Len(wire)
         /\ \A j \in DOMAIN wire : wire[j] \in Said
         /\ session \in Nat /\ MaxSession \in Nat \ {0} /\ policy \in SyncPolicy
<1>1. /\ JournalTyped(journal) /\ journal.file \in Seq(Unit)
      /\ venue \in Seq(VenueOrder) /\ \A k \in DOMAIN venue : WellBooked(venue[k])
      /\ wire \in Seq(Said) /\ IInv(oms) /\ session \in 0 .. MaxSession /\ policy \in SyncPolicy
  BY DEF Shape, JournalTyped, MarketTyped, ProcessTyped
<1>2. MaxSession \in Nat \ {0}
  BY RestartConstants
<1>3. /\ Len(journal.file) \in Nat
      /\ Len(venue) \in Nat /\ DOMAIN venue = 1 .. Len(venue)
      /\ Len(wire) \in Nat /\ DOMAIN wire = 1 .. Len(wire)
  BY <1>1, LenProperties
<1>4. /\ \A k \in DOMAIN venue : venue[k] \in VenueOrder
      /\ \A j \in DOMAIN wire : wire[j] \in Said
  BY <1>1, <1>3, ElementOfSeq
<1>5. /\ Typed(oms) /\ oms.next \in Nat \ {0} /\ Tracked(oms) \subseteq Nat \ {0}
      /\ \A i \in Tracked(oms) : oms.order[i] \in OrderRecord
  BY <1>1 DEF IInv, Sound, Typed
<1> QED BY <1>1, <1>2, <1>3, <1>4, <1>5

\* Order k of the venue is executed by n lots or cancelled, and has left then.
VenueMoves(k, n, left, type) ==
  /\ n \in Nat /\ left \in Nat /\ left < venue[k].leaves
  /\ venue' \in Seq(VenueOrder) /\ DOMAIN venue' = DOMAIN venue
  /\ \A j \in DOMAIN venue :
       /\ WellBooked(venue'[j])
       /\ venue'[j].id = venue[j].id /\ venue'[j].quantity = venue[j].quantity
  /\ \A j \in DOMAIN venue \ {k} : venue'[j] = venue[j]
  /\ venue'[k].filled = venue[k].filled + n /\ venue'[k].leaves = left
  /\ \E rep \in Said :
       /\ rep.id = venue[k].id /\ rep.type = type /\ rep.quantity = n
       /\ wire' = IF Up THEN Append(wire, rep) ELSE wire
  /\ UNCHANGED <<pc, policy, journal, process, history>>

\* Replacing one order of the venue by what becomes of it.
LEMMA VenueReplaced ==
  ASSUME Shape, NEW k \in DOMAIN venue, NEW hit \in VenueOrder, WellBooked(hit),
         hit.id = venue[k].id, hit.quantity = venue[k].quantity,
         venue' = [venue EXCEPT ![k] = hit]
  PROVE  /\ venue' \in Seq(VenueOrder) /\ DOMAIN venue' = DOMAIN venue
         /\ venue'[k] = hit
         /\ \A j \in DOMAIN venue \ {k} : venue'[j] = venue[j]
         /\ \A j \in DOMAIN venue :
              /\ WellBooked(venue'[j])
              /\ venue'[j].id = venue[j].id /\ venue'[j].quantity = venue[j].quantity
<1>1. /\ venue \in Seq(VenueOrder) /\ Len(venue) \in Nat /\ DOMAIN venue = 1 .. Len(venue)
      /\ \A j \in DOMAIN venue : WellBooked(venue[j])
  BY Parts
<1>2. /\ venue' \in Seq(VenueOrder) /\ Len(venue') = Len(venue)
      /\ \A j \in 1 .. Len(venue) : venue'[j] = IF j = k THEN hit ELSE venue[j]
  BY <1>1, ExceptSeq
<1>3. DOMAIN venue' = DOMAIN venue
  BY <1>1, <1>2, LenProperties
<1> QED BY <1>1, <1>2, <1>3

\* An execution takes what it says off the order.
LEMMA ExecutionMoves ==
  ASSUME Shape, NEW k \in DOMAIN venue, NEW n \in 1 .. MaxQuantity, VenueExecutes(k, n)
  PROVE  n # 0 /\ VenueMoves(k, n, venue[k].leaves - n, "Fill")
<1> DEFINE vo   == venue[k]
           left == vo.leaves - n
           more == vo.filled + n
           hit  == [vo EXCEPT !.leaves = left, !.filled = more]
           rep  == [id |-> vo.id, type |-> "Fill", quantity |-> n, symbol |-> vo.symbol,
                    side |-> vo.side]
<1>1. vo \in VenueOrder /\ WellBooked(vo) /\ n \in Nat \ {0} /\ n <= vo.leaves
  BY Parts, RestartConstants DEF VenueExecutes
<1>2. venue' = [venue EXCEPT ![k] = hit]
  <2>1. venue' = [venue EXCEPT ![k].leaves = @ - n, ![k].filled = @ + n]
    BY DEF VenueExecutes
  <2>2. [venue EXCEPT ![k].leaves = @ - n, ![k].filled = @ + n] = [venue EXCEPT ![k] = hit]
    BY DEF VenueOrder
  <2> QED BY <2>1, <2>2, Zenon
<1>3. wire' = IF Up THEN Append(wire, rep) ELSE wire
  BY DEF VenueExecutes, Reports
<1>4. UNCHANGED <<pc, policy, journal, process, history>>
  BY DEF VenueExecutes
<1> HIDE DEF vo
<1>5. /\ left \in Nat /\ more \in Nat /\ left < vo.leaves /\ vo.filled + vo.leaves = vo.quantity
      /\ vo.leaves \in Nat /\ vo.filled \in Nat /\ left + more = vo.quantity
      /\ vo.quantity \in Nat
  BY <1>1 DEF VenueOrder, WellBooked
<1> HIDE DEF left, more
<1>6. /\ hit \in VenueOrder /\ hit.id = vo.id /\ hit.quantity = vo.quantity
      /\ hit.leaves = left /\ hit.filled = more
  BY <1>1, <1>5 DEF VenueOrder
<1> HIDE DEF hit
<1>7. WellBooked(hit)
  BY <1>5, <1>6 DEF WellBooked
<1>8. rep \in Said
  BY <1>1, <1>5 DEF Said, Report, VenueOrder, ExecType, AcceptedIn
<1> HIDE DEF rep
<1>9. rep.id = vo.id /\ rep.type = "Fill" /\ rep.quantity = n
  BY DEF rep
<1>10. /\ venue' \in Seq(VenueOrder) /\ DOMAIN venue' = DOMAIN venue
       /\ venue'[k] = hit
       /\ \A j \in DOMAIN venue \ {k} : venue'[j] = venue[j]
       /\ \A j \in DOMAIN venue :
            /\ WellBooked(venue'[j])
            /\ venue'[j].id = venue[j].id /\ venue'[j].quantity = venue[j].quantity
  BY <1>2, <1>6, <1>7, VenueReplaced DEF vo
<1>11. VenueMoves(k, n, left, "Fill")
  BY <1>1, <1>3, <1>4, <1>5, <1>6, <1>8, <1>9, <1>10 DEF VenueMoves, vo, more
<1> QED BY <1>1, <1>11 DEF left, vo

\* A cancel takes all that is left.
LEMMA CancelMoves ==
  ASSUME Shape, NEW k \in DOMAIN venue, VenueCancels(k)
  PROVE  VenueMoves(k, 0, 0, "Cancelled")
<1> DEFINE vo   == venue[k]
           hit  == [vo EXCEPT !.leaves = 0]
           rep  == [id |-> vo.id, type |-> "Cancelled", quantity |-> 0, symbol |-> vo.symbol,
                    side |-> vo.side]
<1>1. vo \in VenueOrder /\ WellBooked(vo) /\ vo.leaves > 0
  BY Parts DEF VenueCancels
<1>2. venue' = [venue EXCEPT ![k] = hit]
  BY DEF VenueCancels
<1>3. wire' = IF Up THEN Append(wire, rep) ELSE wire
  BY DEF VenueCancels, Reports
<1>4. UNCHANGED <<pc, policy, journal, process, history>>
  BY DEF VenueCancels
<1> HIDE DEF vo
<1>6. /\ hit \in VenueOrder /\ hit.id = vo.id /\ hit.quantity = vo.quantity
      /\ hit.leaves = 0 /\ hit.filled = vo.filled
  BY <1>1 DEF VenueOrder
<1> HIDE DEF hit
<1>5. vo.filled \in Nat /\ vo.leaves \in Nat /\ vo.quantity \in Nat /\ vo.filled <= vo.quantity
  BY <1>1 DEF VenueOrder, WellBooked
<1>7. WellBooked(hit)
  BY <1>5, <1>6 DEF WellBooked
<1>8. rep \in Said
  BY <1>1 DEF Said, Report, VenueOrder, ExecType, AcceptedIn
<1> HIDE DEF rep
<1>9. rep.id = vo.id /\ rep.type = "Cancelled" /\ rep.quantity = 0
  BY DEF rep
<1>10. /\ venue' \in Seq(VenueOrder) /\ DOMAIN venue' = DOMAIN venue
       /\ venue'[k] = hit
       /\ \A j \in DOMAIN venue \ {k} : venue'[j] = venue[j]
       /\ \A j \in DOMAIN venue :
            /\ WellBooked(venue'[j])
            /\ venue'[j].id = venue[j].id /\ venue'[j].quantity = venue[j].quantity
  BY <1>2, <1>6, <1>7, VenueReplaced DEF vo
<1>11. hit.filled = vo.filled + 0
  BY <1>5, <1>6
<1>12. VenueMoves(k, 0, 0, "Cancelled")
  BY <1>1, <1>3, <1>4, <1>5, <1>6, <1>8, <1>9, <1>10, <1>11 DEF VenueMoves, vo
<1> QED BY <1>12

\* The venue takes the order in hand and acknowledges it.
LEMMA SubmitGives ==
  ASSUME Shape, Submit
  PROVE  \E vo \in VenueOrder, rep \in Said :
           /\ vo.id = Sending /\ vo.quantity = oms.order[Sending].quantity
           /\ vo.filled = 0 /\ vo.leaves = vo.quantity
           /\ rep.id = Sending /\ rep.type = "Acked"
           /\ venue' = Append(venue, vo) /\ wire' = Append(wire, rep)
<1> DEFINE i   == Sending
           r   == oms.order[i]
           vo  == [id |-> i, symbol |-> r.symbol, side |-> r.side, quantity |-> r.quantity,
                   filled |-> 0, leaves |-> r.quantity]
           rep == [id |-> i, type |-> "Acked", quantity |-> 0, symbol |-> r.symbol,
                   side |-> r.side]
<1>1. venue' = Append(venue, vo) /\ wire' = Append(wire, rep)
  BY DEF Submit
<1>2. i \in Nat \ {0} /\ r \in OrderRecord
  <2>1. i \in Tracked(oms)
    BY DEF Submit, Shape, ProcessTyped, Working
  <2> QED BY <2>1, Parts
<1>3. i = Sending /\ r = oms.order[Sending]
  OBVIOUS
<1> HIDE DEF i, r
<1>4. vo \in VenueOrder
  BY <1>2 DEF VenueOrder, OrderRecord
<1>5. rep \in Said
  BY <1>2 DEF Said, Report, ExecType, AcceptedIn, OrderRecord
<1>6. /\ vo.id = Sending /\ vo.quantity = oms.order[Sending].quantity
      /\ vo.filled = 0 /\ vo.leaves = vo.quantity
      /\ rep.id = Sending /\ rep.type = "Acked"
  BY <1>3
<1> QED BY <1>1, <1>4, <1>5, <1>6, Zenon

\* A report comes off the wire.
LEMMA HeadTaken ==
  ASSUME Shape, wire # << >>
  PROVE  /\ Head(wire) \in Said /\ Head(wire) = wire[1] /\ 1 \in DOMAIN wire
         /\ Tail(wire) \in Seq(Said) /\ DOMAIN Tail(wire) = 1 .. Len(wire) - 1
         /\ \A j \in 1 .. Len(wire) - 1 : Tail(wire)[j] = wire[j + 1] /\ j + 1 \in DOMAIN wire
         /\ ReadableReport(Head(wire)) /\ Head(wire) \in Report
         /\ Head(wire).type \in {"Acked", "Cancelled", "Fill"}
<1>1. wire \in Seq(Said) /\ Len(wire) \in Nat /\ DOMAIN wire = 1 .. Len(wire)
  BY Parts
<1>2. /\ Head(wire) \in Said /\ Tail(wire) \in Seq(Said)
      /\ Len(Tail(wire)) = Len(wire) - 1
      /\ \A j \in 1 .. Len(Tail(wire)) : Tail(wire)[j] = wire[j + 1]
  BY <1>1, HeadTailProperties
<1>3. Len(wire) # 0
  BY <1>1, EmptySeq
<1>4. DOMAIN Tail(wire) = 1 .. Len(wire) - 1
  BY <1>2, LenProperties
<1>5. Head(wire) = wire[1]
  BY <1>1, <1>3
<1>6. ReadableReport(Head(wire)) /\ Head(wire) \in Report
      /\ Head(wire).type \in {"Acked", "Cancelled", "Fill"}
  BY <1>2 DEF Said, Report, ReadableReport
<1> QED BY <1>1, <1>2, <1>3, <1>4, <1>5, <1>6

\* What is booked of a report stays a table of integers.
LEMMA BookedTyped ==
  ASSUME Shape, NEW rep \in Report
  PROVE  \A s \in DOMAIN Booked(rep) : s \in Int /\ Booked(rep)[s] \in Int
<1>1. \A s \in DOMAIN held : s \in Int /\ held[s] \in Int
  BY DEF Shape, ProcessTyped
<1>2. rep.symbol \in Nat /\ SignedFill(rep) \in Int
  <2>1. rep.symbol \in Symbol /\ rep.quantity \in Nat
    BY DEF Report
  <2>2. Symbol \subseteq Nat
    <3>1. Cardinality(Symbol) \in Nat
      BY OmsConstants, FS_CardinalityType
    <3>2. Symbol = 0 .. Cardinality(Symbol) - 1
      BY RestartConstants
    <3> DEFINE n == Cardinality(Symbol)
    <3>3. n \in Nat /\ Symbol = 0 .. n - 1
      BY <3>1, <3>2
    <3> HIDE DEF n
    <3> QED BY <3>3
  <2>3. SignedFill(rep) \in Int
    BY <2>1 DEF SignedFill
  <2> QED BY <2>1, <2>2, <2>3
<1>3. CASE rep.type # "Fill"
  BY <1>1, <1>3 DEF Booked
<1>4. CASE rep.type = "Fill"
  <2> DEFINE D == DOMAIN held \cup 0 .. rep.symbol
             old(s) == IF s \in DOMAIN held THEN held[s] ELSE 0
             new(s) == IF s = rep.symbol THEN SignedFill(rep) ELSE 0
  <2>1. Booked(rep) = [s \in D |-> old(s) + new(s)]
    BY <1>4 DEF Booked
  <2>2. \A s \in D : s \in Int /\ old(s) \in Int /\ new(s) \in Int
    BY <1>1, <1>2
  <2> HIDE DEF D, old, new
  <2>3. \A s \in D : old(s) + new(s) \in Int
    BY <2>2
  <2> QED BY <2>1, <2>2, <2>3
<1> QED BY <1>3, <1>4

\* An order is created under the next id, and works.
LEMMA DecideGives ==
  ASSUME Shape, NEW s \in Symbol, NEW d \in Sides, NEW quantity \in 1 .. MaxQuantity,
         Decide(s, d, quantity)
  PROVE  /\ IInv(oms') /\ oms'.next = oms.next + 1 /\ oms.next \in Working(oms')
         /\ oms'.order[oms.next].quantity = quantity /\ oms'.order[oms.next].filled = 0
         /\ Tracked(oms) \subseteq Tracked(oms')
         /\ \A i \in Tracked(oms) : oms'.order[i] = oms.order[i]
         /\ quantity \in Nat \ {0} /\ d \in Side
<1>1. /\ IInv(oms) /\ oms.next \in Nat \ {0} /\ quantity \in Nat \ {0} /\ d \in Side
      /\ CanCreate(oms, oms.next, quantity)
      /\ oms' = CreateWithId(oms, oms.next, s, d, quantity)
  BY Parts, RestartConstants DEF Decide, Create
<1>2. /\ IInv(oms') /\ oms.next \in Working(oms')
      /\ oms'.order[oms.next] =
           [symbol |-> s, side |-> d, quantity |-> quantity, filled |-> 0,
            leaves |-> quantity, state |-> "PendingNew", age |-> 0]
  BY <1>1, CreateKeeps
<1>3. /\ Tracked(oms) \subseteq Tracked(oms')
      /\ \A i \in Tracked(oms) : oms'.order[i] = oms.order[i]
      /\ oms'.next = oms.next + 1
  BY <1>1, CreateAdvances
<1> QED BY <1>1, <1>2, <1>3

\* Writing to the open journal.
LEMMA WriteStep ==
  ASSUME Shape, NEW event \in Event, NEW j, JournalTyped(j)
  PROVE  LET rec == RecordFor(j, session, event)
         IN  /\ rec \in Record /\ rec.seq = j.seq + 1 /\ rec.event = event
             /\ Written(j, Write(j, event), policy, rec)
<1>1. policy \in SyncPolicy /\ session \in Nat
  BY Parts
<1>2. Write(j, event) = AppendRecord(j, policy, session, event)
  BY DEF Write
<1> QED BY <1>1, <1>2, WriteIs DEF RecordFor

\* Handing the buffer on, or syncing it, leaves the file as it is.
LEMMA SyncIs ==
  ASSUME NEW j, JournalTyped(j)
  PROVE  LET n == Synced(j)
         IN  /\ JournalTyped(n) /\ n.file = j.file /\ n.seq = j.seq
             /\ n.os = Len(j.file) /\ n.disk = Len(j.file) /\ n.since = 0
<1>1. Len(j.file) \in Nat
  BY LenProperties DEF JournalTyped
<1> QED BY <1>1 DEF Synced, JournalTyped

\* A session is refused with everything as it was, is refused with its start on
\* record, or opens.
LEMMA StartGives ==
  ASSUME Shape, NEW asked \in BOOLEAN, Start(asked)
  PROVE  LET r    == Recover(journal.file)
             snap == Snapshot(asked)
             j    == ReopenedAt(r)
         IN  /\ ~Up /\ UNCHANGED <<policy, market, wire, sent, reused, lost>>
             /\ r.next \in Nat /\ r.read \in Nat /\ r.corrupt \in Nat
             /\ JournalTyped(j) /\ j.file = journal.file /\ j.since = 0 /\ j.seq = r.read
             /\ j.os = journal.os /\ j.disk = journal.disk
             /\ \/ pc' = "refused" /\ UNCHANGED <<journal, process, overlooked>>
                \/ /\ MayStart(r, snap)
                   /\ session' = session + 1 /\ session < MaxSession
                   /\ oms' = FreshOms(r, snap) /\ held' = [s \in {} |-> 0] /\ marked' = 0
                   /\ overlooked' = (overlooked \/ r.corrupt > 0)
                   /\ IInv(oms') /\ r.next < oms'.next
                   /\ \A i \in Tracked(oms') :
                        \E k \in ToAdopt(r, snap) : AdoptedFrom(oms', i, k)
                   /\ \/ AllAdopted(r, snap) /\ pc' = "opening" /\ journal' = j
                      \/ pc' = "refused" /\ journal' = Synced(Write(j, SessionStart))
<1> DEFINE r    == Recover(journal.file)
           snap == Snapshot(asked)
           j    == ReopenedAt(r)
<1>1. ~Up /\ UNCHANGED <<policy, market, wire, sent, reused, lost>>
  BY DEF Start, Up
<1>2. /\ \/ /\ MayStart(r, snap)
            /\ session' = session + 1 /\ session < MaxSession
            /\ oms' = FreshOms(r, snap) /\ held' = [s \in {} |-> 0] /\ marked' = 0
            /\ overlooked' = (overlooked \/ r.corrupt > 0)
            /\ \/ AllAdopted(r, snap) /\ pc' = "opening" /\ journal' = j
               \/ pc' = "refused" /\ journal' = Synced(Write(j, SessionStart))
         \/ pc' = "refused" /\ UNCHANGED <<journal, process, overlooked>>
  <2>1. CASE MayStart(r, snap)
    <3>1. CASE AllAdopted(r, snap)
      BY <2>1, <3>1 DEF Start
    <3>2. CASE ~AllAdopted(r, snap)
      BY <2>1, <3>2 DEF Start
    <3> QED BY <3>1, <3>2
  <2>2. CASE ~MayStart(r, snap)
    BY <2>2 DEF Start
  <2> QED BY <2>1, <2>2
<1>3. r.next \in Nat /\ r.read \in Nat /\ r.corrupt \in Nat
  BY Parts, RecoverIs DEF Recovered
<1> HIDE DEF r, snap
<1>4. /\ JournalTyped(j) /\ j.file = journal.file /\ j.since = 0 /\ j.seq = r.read
      /\ j.os = journal.os /\ j.disk = journal.disk
  BY <1>3, Parts DEF ReopenedAt, JournalTyped
<1>5. LET n == FreshOms(r, snap)
      IN  /\ IInv(n) /\ r.next < n.next
          /\ \A i \in Tracked(n) : \E k \in ToAdopt(r, snap) : AdoptedFrom(n, i, k)
  BY <1>3, FreshIs DEF Shape, snap
<1> HIDE DEF j
<1>6. oms' = FreshOms(r, snap) =>
        /\ IInv(oms') /\ r.next < oms'.next
        /\ \A i \in Tracked(oms') : \E k \in ToAdopt(r, snap) : AdoptedFrom(oms', i, k)
  BY <1>5, Zenon
<1> QED BY <1>1, <1>2, <1>3, <1>4, <1>6 DEF r, snap, j

\* What is left of the file after a crash, and what is lost with the rest.
LEMMA GoneIs ==
  ASSUME Shape, NEW kept \in 0 .. Len(journal.file), NEW disk \in 0 .. kept,
         Gone(SubSeq(journal.file, 1, kept), disk)
  PROVE  /\ pc' = "down" /\ wire' = << >> /\ JournalTyped(journal')
         /\ Len(journal'.file) = kept /\ journal'.os = kept /\ journal'.disk = disk
         /\ journal'.since = journal.since
         /\ \A k \in 1 .. kept : journal'.file[k] = journal.file[k]
         /\ lost \in BOOLEAN /\ (lost => lost')
         /\ ~lost' => ~lost /\ journal'.file = journal.file
         /\ UNCHANGED <<policy, process, market, sent, reused, overlooked>>
<1> DEFINE file == journal.file
           rest == SubSeq(file, 1, kept)
<1>1. /\ JournalTyped(journal) /\ file \in Seq(Unit) /\ Len(file) \in Nat
      /\ kept \in Nat /\ kept <= Len(file)
  BY Parts
<1>2. /\ rest \in Seq(Unit) /\ Len(rest) = kept /\ \A k \in 1 .. kept : rest[k] = file[k]
  <2>1. 1 \in Int /\ kept \in Int /\ \A k \in 1 .. kept : file[k] \in Unit
    BY <1>1, ElementOfSeq
  <2>2. /\ rest \in Seq(Unit) /\ Len(rest) = IF 1 <= kept THEN kept - 1 + 1 ELSE 0
        /\ \A k \in 1 .. kept - 1 + 1 : rest[k] = file[1 + k - 1]
    BY <2>1, SubSeqProperties
  <2> HIDE DEF rest
  <2>3. \A k \in 1 .. kept : 1 + k - 1 = k /\ k \in 1 .. kept - 1 + 1
    BY <1>1
  <2> QED BY <1>1, <2>2, <2>3
<1>3. kept = Len(file) => rest = file
  BY <1>1, SubSeqFull
<1>4. /\ pc' = "down" /\ wire' = << >>
      /\ journal' = [journal EXCEPT !.file = rest, !.os = Len(rest), !.disk = disk]
      /\ lost' = (lost \/ Len(rest) < Len(journal.file))
      /\ UNCHANGED <<policy, process, market, sent, reused, overlooked>>
  BY DEF Gone
<1> HIDE DEF rest, file
<1>5. /\ JournalTyped(journal') /\ journal'.file = rest /\ journal'.os = kept
      /\ journal'.disk = disk /\ journal'.since = journal.since
  BY <1>1, <1>2, <1>4 DEF JournalTyped
<1>6. lost \in BOOLEAN
  BY DEF Shape, ProcessTyped
<1>7. ~lost' => ~lost /\ rest = file
  <2> DEFINE less == Len(rest) < Len(file)
  <2>1. lost' <=> lost \/ less
    BY <1>4, <1>6 DEF file
  <2>2. ~less => kept = Len(file)
    BY <1>1, <1>2
  <2> HIDE DEF less
  <2> QED BY <1>3, <2>1, <2>2
<1> QED BY <1>2, <1>4, <1>5, <1>6, <1>7 DEF file

\* A record torn at part units is what there is more, and no record ends in it.
LEMMA TornIs ==
  ASSUME Shape, TornWrite
  PROVE  \E more :
           /\ Chunk(more) /\ Len(more) < Units
           /\ \A p \in 1 .. Len(more) : more[p].part # Units
           /\ Up /\ journal.os = Len(journal.file)
           /\ pc' = "down" /\ wire' = << >> /\ JournalTyped(journal')
           /\ journal'.file = journal.file \o more
           /\ Len(journal'.file) = Len(journal.file) + Len(more)
           /\ journal'.os = Len(journal'.file) /\ journal'.disk = journal.disk
           /\ lost' = lost
           /\ UNCHANGED <<policy, process, market, sent, reused, overlooked>>
<1> DEFINE rec == RecordFor(journal, session, [type |-> "Torn"])
           all == UnitsOf(rec)
<1>1. /\ JournalTyped(journal) /\ journal.file \in Seq(Unit) /\ Len(journal.file) \in Nat
      /\ session \in Nat /\ Units \in Nat \ {0}
  BY Parts, UnitsType
<1>2. PICK part \in 1 .. Units - 1 : Gone(journal.file \o SubSeq(all, 1, part), journal.disk)
  BY DEF TornWrite, RecordFor
<1>3. rec \in Record
  BY <1>1, EventsTyped DEF RecordFor, Record, JournalTyped
<1> HIDE DEF rec
<1>4. /\ all \in Seq(Unit) /\ Len(all) = Units
      /\ \A p \in 1 .. Units : all[p].part = p
  BY <1>3, RecordUnits
<1> HIDE DEF all
<1> DEFINE more == SubSeq(all, 1, part)
<1>5. /\ more \in Seq(Unit) /\ Len(more) = part /\ \A p \in 1 .. part : more[p].part = p
  <2>1. 1 \in Int /\ part \in Int /\ \A k \in 1 .. part : all[k] \in Unit
    <3>1. \A k \in 1 .. part : k \in 1 .. Len(all)
      BY <1>1, <1>4
    <3> QED BY <1>1, <1>4, <3>1, ElementOfSeq
  <2>2. /\ more \in Seq(Unit) /\ Len(more) = IF 1 <= part THEN part - 1 + 1 ELSE 0
        /\ \A k \in 1 .. part - 1 + 1 : more[k] = all[1 + k - 1]
    BY <2>1, SubSeqProperties
  <2> HIDE DEF more
  <2>3. \A k \in 1 .. part : 1 + k - 1 = k /\ k \in 1 .. part - 1 + 1 /\ k \in 1 .. Units
    BY <1>1
  <2> QED BY <1>1, <1>4, <2>2, <2>3
<1>6. Gone(journal.file \o more, journal.disk)
  BY <1>2
<1> HIDE DEF more
<1>7. Chunk(more) /\ Len(more) < Units /\ \A p \in 1 .. Len(more) : more[p].part # Units
  BY <1>1, <1>5 DEF Chunk
<1> DEFINE new == journal.file \o more
<1>8. new \in Seq(Unit) /\ Len(new) = Len(journal.file) + Len(more) /\ Len(new) \in Nat
  <2>1. journal.file \in Seq(Unit) /\ more \in Seq(Unit)
    BY <1>1, <1>5
  <2>2. new \in Seq(Unit) /\ Len(new) = Len(journal.file) + Len(more)
    BY ONLY <2>1, ConcatProperties
  <2> QED BY <2>2, LenProperties
<1>9. /\ pc' = "down" /\ wire' = << >>
      /\ journal' = [journal EXCEPT !.file = new, !.os = Len(new), !.disk = journal.disk]
      /\ lost' = (lost \/ Len(new) < Len(journal.file))
      /\ UNCHANGED <<policy, process, market, sent, reused, overlooked>>
  BY <1>6 DEF Gone
<1>10. Up /\ journal.os = Len(journal.file)
  BY DEF TornWrite
<1>11. lost' = lost
  <2>1. lost \in BOOLEAN
    BY DEF Shape, ProcessTyped
  <2>2. ~(Len(new) < Len(journal.file))
    BY <1>1, <1>5, <1>8
  <2> HIDE DEF new
  <2> QED BY <1>9, <2>1, <2>2
<1>12. new = journal.file \o more
  OBVIOUS
<1> HIDE DEF new
<1>13. /\ JournalTyped(journal') /\ journal'.file = new /\ journal'.os = Len(new)
       /\ journal'.disk = journal.disk
  BY <1>1, <1>5, <1>8, <1>9, <1>10 DEF JournalTyped
<1> QED BY <1>7, <1>8, <1>9, <1>10, <1>11, <1>12, <1>13

-----------------------------------------------------------------------------
(***************************************************************************)
(* Types.                                                                  *)
(***************************************************************************)

\* The first state is of that shape.
LEMMA ShapeInit ==
  ASSUME Init
  PROVE  Shape
<1>1. JournalTyped(journal)
  <2>1. << >> \in Seq(Unit) /\ Len(<< >>) = 0
    BY EmptySeq
  <2> QED BY <2>1 DEF Init, JournalTyped
<1>2. MarketTyped
  BY EmptySeq DEF Init, MarketTyped
<1>3. ProcessTyped
  <2>1. IInv(oms)
    BY InitSound, Zenon DEF Init
  <2>2. policy \in SyncPolicy /\ session \in 0 .. MaxSession /\ session = 0
    BY RestartConstants DEF Init
  <2>3. /\ pc = "down" /\ marked = 0 /\ held = [s \in {} |-> 0]
        /\ reused = FALSE /\ overlooked = FALSE /\ lost = FALSE
    BY DEF Init
  <2>4. \A s \in DOMAIN held : s \in Int /\ held[s] \in Int
    BY <2>3
  <2> QED BY <2>1, <2>2, <2>3, <2>4 DEF ProcessTyped, Up
<1> QED BY <1>1, <1>2, <1>3 DEF Shape

\* No step spoils the journal: its parts stay nested, and of whole units.
LEMMA JournalStep ==
  ASSUME Shape, [Next]_vars
  PROVE  JournalTyped(journal')
<1>1. JournalTyped(journal) /\ Len(journal.file) \in Nat
  BY Parts
<1>2. ASSUME NEW event \in Event, journal' = Write(journal, event) PROVE JournalTyped(journal')
  BY <1>1, <1>2, WriteStep DEF Written
<1>3. ASSUME NEW asked \in BOOLEAN, Start(asked) PROVE JournalTyped(journal')
  <2> DEFINE r == Recover(journal.file)
             j == ReopenedAt(r)
             w == Write(j, SessionStart)
  <2>1. JournalTyped(j) /\ (journal' = journal \/ journal' = j \/ journal' = Synced(w))
    BY <1>3, StartGives, Zenon
  <2> HIDE DEF j
  <2>2. JournalTyped(w)
    BY <2>1, WriteStep, EventsTyped DEF Written
  <2> HIDE DEF w
  <2> QED BY <1>1, <2>1, <2>2, SyncIs
<1>4. ASSUME RecordSessionStart PROVE JournalTyped(journal')
  BY <1>2, <1>4, EventsTyped DEF RecordSessionStart
<1>5. ASSUME NEW s \in Symbol, NEW d \in Sides, NEW quantity \in 1 .. MaxQuantity,
             Decide(s, d, quantity)
      PROVE  JournalTyped(journal')
  <2>1. OrderSent(oms.next, s, d, quantity) \in Event
    BY <1>5, Parts, DecideGives, EventsTyped
  <2> QED BY <1>2, <1>5, <2>1 DEF Decide
<1>6. ASSUME Deliver PROVE JournalTyped(journal')
  <2>1. ExecReport(Head(wire)) \in Event
    BY <1>6, HeadTaken, EventsTyped DEF Deliver
  <2> QED BY <1>2, <1>6, <2>1 DEF Deliver
<1>7. ASSUME DeliverUnwritten PROVE JournalTyped(journal')
  BY <1>1, <1>7 DEF DeliverUnwritten, FailedAppend, JournalTyped
<1>8. ASSUME CheckpointNext PROVE JournalTyped(journal')
  <2>1. Checkpoint(marked, held[marked]) \in Event
    BY <1>8, EventsTyped DEF CheckpointNext, Shape, ProcessTyped
  <2> QED BY <1>2, <1>8, <2>1 DEF CheckpointNext
<1>9. ASSUME End PROVE JournalTyped(journal')
  <2>1. JournalTyped(Write(journal, SessionEnd))
    BY <1>1, WriteStep, EventsTyped DEF Written
  <2>2. journal' = Synced(Write(journal, SessionEnd))
    BY <1>9 DEF End
  <2> QED BY <2>1, <2>2, SyncIs
<1>10. ASSUME ProcessCrash PROVE JournalTyped(journal')
  <2>1. PICK kept \in journal.os .. Len(journal.file) :
          Gone(SubSeq(journal.file, 1, kept), journal.disk)
    BY <1>10 DEF ProcessCrash
  <2>2. kept \in 0 .. Len(journal.file) /\ journal.disk \in 0 .. kept
    BY <1>1 DEF JournalTyped
  <2> QED BY <2>1, <2>2, GoneIs
<1>11. ASSUME TornWrite PROVE JournalTyped(journal')
  BY <1>11, TornIs
<1>12. ASSUME PowerLoss PROVE JournalTyped(journal')
  <2>1. PICK kept \in journal.disk .. Len(journal.file) :
          Gone(SubSeq(journal.file, 1, kept), kept)
    BY <1>12 DEF PowerLoss
  <2>2. kept \in 0 .. Len(journal.file) /\ kept \in 0 .. kept
    BY <1>1 DEF JournalTyped
  <2> QED BY <2>1, <2>2, GoneIs
<1>13. ASSUME UNCHANGED journal PROVE JournalTyped(journal')
  BY <1>1, <1>13
<1> QED
  BY <1>3, <1>4, <1>5, <1>6, <1>7, <1>8, <1>9, <1>10, <1>11, <1>12, <1>13
  DEF Next, vars, Submit, VenueExecutes, VenueCancels

\* No step spoils what the venue holds or says.
LEMMA MarketStep ==
  ASSUME Shape, [Next]_vars
  PROVE  MarketTyped'
<1>1. /\ venue \in Seq(VenueOrder) /\ \A k \in DOMAIN venue : WellBooked(venue[k])
      /\ wire \in Seq(Said) /\ (~Up => wire = << >>) /\ sent \subseteq Nat
  BY DEF Shape, MarketTyped
<1>2. ASSUME UNCHANGED <<venue, wire, sent>>, Up' \/ wire = << >> PROVE MarketTyped'
  BY <1>1, <1>2 DEF MarketTyped
<1>3. ASSUME NEW asked \in BOOLEAN, Start(asked) PROVE MarketTyped'
  BY <1>1, <1>2, <1>3 DEF Start, Up, market
<1>4. ASSUME RecordSessionStart PROVE MarketTyped'
  BY <1>2, <1>4 DEF RecordSessionStart, Up, market, history
<1>5. ASSUME NEW s \in Symbol, NEW d \in Sides, NEW quantity \in 1 .. MaxQuantity,
             Decide(s, d, quantity)
      PROVE  MarketTyped'
  BY <1>2, <1>5 DEF Decide, Up, market, history
<1>6. ASSUME Submit PROVE MarketTyped'
  <2>1. PICK vo \in VenueOrder, rep \in Said :
           /\ vo.id = Sending /\ vo.quantity = oms.order[Sending].quantity
           /\ vo.filled = 0 /\ vo.leaves = vo.quantity
           /\ venue' = Append(venue, vo) /\ wire' = Append(wire, rep)
    BY <1>6, SubmitGives, Zenon
  <2>2. WellBooked(vo)
    BY <2>1 DEF WellBooked, VenueOrder
  <2>3. /\ venue' \in Seq(VenueOrder) /\ wire' \in Seq(Said)
        /\ DOMAIN venue' = 1 .. Len(venue) + 1 /\ DOMAIN venue = 1 .. Len(venue)
        /\ Len(venue) \in Nat
        /\ \A k \in 1 .. Len(venue) : venue'[k] = venue[k]
        /\ venue'[Len(venue) + 1] = vo
    BY <1>1, <2>1, AppendProperties, LenProperties
  <2>4. \A k \in DOMAIN venue' : WellBooked(venue'[k])
    BY <1>1, <2>2, <2>3
  <2>5. Up' /\ sent' \subseteq Nat
    <3>1. oms.next - 1 \in Nat
      BY Parts
    <3> QED BY <1>1, <1>6, <3>1 DEF Submit, Up, Sending
  <2> QED BY <2>3, <2>4, <2>5 DEF MarketTyped
<1>7. ASSUME Deliver \/ DeliverUnwritten PROVE MarketTyped'
  <2>1. wire # << >> /\ wire' = Tail(wire) /\ UNCHANGED <<venue, sent>> /\ Up'
    BY <1>7 DEF Deliver, DeliverUnwritten, Up, market, history
  <2>2. wire' \in Seq(Said)
    BY <2>1, HeadTaken
  <2> QED BY <1>1, <2>1, <2>2 DEF MarketTyped
<1>8. ASSUME CheckpointNext PROVE MarketTyped'
  BY <1>2, <1>8 DEF CheckpointNext, Up, market, history
<1>9. ASSUME wire' = << >>, UNCHANGED <<venue, sent>> PROVE MarketTyped'
  BY <1>1, <1>9, EmptySeq DEF MarketTyped
<1>10. ASSUME End \/ ProcessCrash \/ TornWrite \/ PowerLoss PROVE MarketTyped'
  BY <1>9, <1>10 DEF End, ProcessCrash, TornWrite, PowerLoss, Gone, market, history
<1>11. ASSUME NEW k \in DOMAIN venue, NEW n, NEW left, NEW type, VenueMoves(k, n, left, type)
       PROVE  MarketTyped'
  <2>1. PICK rep \in Said : wire' = IF Up THEN Append(wire, rep) ELSE wire
    BY <1>11 DEF VenueMoves
  <2>2. wire' \in Seq(Said) /\ (~Up' => wire' = << >>)
    <3>1. Append(wire, rep) \in Seq(Said)
      BY <1>1, AppendProperties
    <3>2. Up' <=> Up
      BY <1>11 DEF VenueMoves, Up
    <3> QED BY <1>1, <2>1, <3>1, <3>2
  <2> QED BY <1>1, <1>11, <2>2 DEF VenueMoves, MarketTyped, history
<1>12. ASSUME NEW k \in DOMAIN venue, NEW n \in 1 .. MaxQuantity, VenueExecutes(k, n)
       PROVE  MarketTyped'
  BY <1>11, <1>12, ExecutionMoves
<1>13. ASSUME NEW k \in DOMAIN venue, VenueCancels(k) PROVE MarketTyped'
  BY <1>11, <1>13, CancelMoves
<1>14. ASSUME UNCHANGED vars PROVE MarketTyped'
  BY <1>1, <1>14 DEF vars, market, history, MarketTyped, Up
<1> QED
  BY <1>3, <1>4, <1>5, <1>6, <1>7, <1>8, <1>10, <1>12, <1>13, <1>14 DEF Next

\* No step spoils what the process holds: its order manager stays sound, and the order
\* in hand works.
LEMMA ProcessStep ==
  ASSUME Shape, [Next]_vars
  PROVE  ProcessTyped'
<1>1. ProcessTyped /\ IInv(oms) /\ MaxSession \in Nat
  BY Parts DEF Shape
<1>2. ASSUME UNCHANGED <<policy, session, oms, marked, held, reused, overlooked, lost>>,
             pc' \in {"down", "refused", "opening", "idle", "sending", "stopping", "closing"},
             pc' = "sending" => pc = "sending", Up' => Up
      PROVE  ProcessTyped'
  BY <1>1, <1>2 DEF ProcessTyped, Sending
<1>3. ASSUME NEW asked \in BOOLEAN, Start(asked) PROVE ProcessTyped'
  <2> DEFINE r == Recover(journal.file)
             corrupt == r.corrupt > 0
  <2>1. /\ UNCHANGED <<policy, reused, lost>> /\ ~Up
        /\ \/ pc' = "refused" /\ UNCHANGED <<journal, process, overlooked>>
           \/ /\ session' = session + 1 /\ session < MaxSession
              /\ held' = [s \in {} |-> 0] /\ marked' = 0
              /\ overlooked' = (overlooked \/ corrupt)
              /\ IInv(oms') /\ pc' \in {"opening", "refused"}
    BY <1>3, StartGives, Zenon
  <2>2. overlooked' \in BOOLEAN
    BY <1>1, <2>1 DEF ProcessTyped
  <2> HIDE DEF corrupt
  <2> QED BY <1>1, <2>1, <2>2 DEF ProcessTyped, process, Up
<1>4. ASSUME RecordSessionStart PROVE ProcessTyped'
  BY <1>2, <1>4 DEF RecordSessionStart, process, history, Up
<1>5. ASSUME NEW s \in Symbol, NEW d \in Sides, NEW quantity \in 1 .. MaxQuantity,
             Decide(s, d, quantity)
      PROVE  ProcessTyped'
  <2>1. IInv(oms') /\ oms'.next = oms.next + 1 /\ oms.next \in Working(oms') /\ oms.next \in Nat
    BY <1>5, DecideGives, Parts
  <2>2. Sending' \in Working(oms')
    <3>1. Sending' = oms.next
      BY <2>1 DEF Sending
    <3> QED BY <2>1, <3>1
  <2>3. /\ pc' = "sending" /\ pc = "idle"
        /\ UNCHANGED <<policy, held, marked, session, reused, overlooked, lost>>
    BY <1>5 DEF Decide, history
  <2> QED BY <1>1, <2>1, <2>2, <2>3 DEF ProcessTyped, Up
<1>6. ASSUME Submit PROVE ProcessTyped'
  <2>1. /\ pc' = "idle" /\ pc = "sending" /\ reused' \in BOOLEAN
        /\ UNCHANGED <<policy, process, overlooked, lost>>
    BY <1>1, <1>6 DEF Submit, ProcessTyped
  <2> QED BY <1>1, <2>1 DEF ProcessTyped, process, Up
<1>7. ASSUME Deliver \/ DeliverUnwritten PROVE ProcessTyped'
  <2>1. /\ wire # << >> /\ oms' = Apply(oms, Head(wire)) /\ held' = Booked(Head(wire))
        /\ pc = "idle" /\ pc' \in {"idle", "stopping"}
        /\ UNCHANGED <<policy, marked, session, reused, overlooked>>
        /\ lost' \in BOOLEAN
    BY <1>1, <1>7 DEF Deliver, DeliverUnwritten, history, ProcessTyped
  <2>2. IInv(oms')
    BY <1>1, <2>1, HeadTaken, ApplyKeeps
  <2>3. \A s \in DOMAIN held' : s \in Int /\ held'[s] \in Int
    BY <2>1, HeadTaken, BookedTyped
  <2> QED BY <1>1, <2>1, <2>2, <2>3 DEF ProcessTyped, Up
<1>8. ASSUME CheckpointNext PROVE ProcessTyped'
  <2>1. /\ pc' = "closing" /\ Up /\ marked' = marked + 1
        /\ UNCHANGED <<policy, oms, held, session, reused, overlooked, lost>>
    BY <1>8 DEF CheckpointNext, history, Up
  <2> QED BY <1>1, <2>1 DEF ProcessTyped
<1>9. ASSUME End PROVE ProcessTyped'
  BY <1>2, <1>9 DEF End, process, history, Up
<1>10. ASSUME NEW file, NEW disk, Gone(file, disk) PROVE ProcessTyped'
  <2>1. /\ pc' = "down" /\ lost' \in BOOLEAN
        /\ UNCHANGED <<policy, process, reused, overlooked>>
    BY <1>1, <1>10 DEF Gone, ProcessTyped
  <2> QED BY <1>1, <2>1 DEF ProcessTyped, process, Up
<1>11. ASSUME ProcessCrash \/ TornWrite \/ PowerLoss PROVE ProcessTyped'
  BY <1>10, <1>11 DEF ProcessCrash, TornWrite, PowerLoss
<1>12. ASSUME UNCHANGED <<pc, policy, process, history>> PROVE ProcessTyped'
  BY <1>1, <1>2, <1>12 DEF process, history, ProcessTyped, Up
<1> QED
  BY <1>3, <1>4, <1>5, <1>6, <1>7, <1>8, <1>9, <1>11, <1>12
  DEF Next, vars, VenueExecutes, VenueCancels

\* In every state the parts of the journal are nested, the order manager is sound, and the
\* venue has executed and rests no more of an order than it was given.
THEOREM ShapeHolds == Spec => []Shape
<1>1. Init => Shape
  BY ShapeInit
<1>2. Shape /\ [Next]_vars => Shape'
  BY JournalStep, MarketStep, ProcessStep DEF Shape
<1> QED BY <1>1, <1>2, PTL DEF Spec

\* The parts of the journal stay nested and the process tracks only well-formed
\* orders, however sessions end.
THEOREM RestartTypeCorrect == Spec => []TypeOK
<1>1. Shape => TypeOK
  <2> SUFFICES ASSUME Shape PROVE TypeOK
    OBVIOUS
  <2>1. /\ JournalTyped(journal) /\ Typed(oms)
        /\ \A k \in DOMAIN venue : WellBooked(venue[k])
    BY Parts
  <2>2. oms.order \in [Tracked(oms) -> OrderRecord]
    BY <2>1 DEF Typed
  <2> QED BY <2>1, <2>2 DEF TypeOK, Shape, ProcessTyped, JournalTyped, WellBooked
<1> QED BY <1>1, ShapeHolds, PTL

-----------------------------------------------------------------------------
(***************************************************************************)
(* What the sync policies leave for a crash to take.                       *)
(***************************************************************************)

\* How far the device may be behind, in numbers.
LEMMA LagIs ==
  ASSUME Shape
  PROVE  /\ SyncInterval \in Nat \ {0} /\ Units \in Nat \ {0} /\ SessionLag \in Nat
         /\ Up => session - 1 \in Nat
         /\ \A n \in Nat : /\ n * SessionLag \in Nat
                           /\ (n + 1) * SessionLag = n * SessionLag + SessionLag
                           /\ n * Units \in Nat /\ (n + 1) * Units = n * Units + Units
                           /\ n < SyncInterval => n * Units <= SessionLag
         /\ SyncInterval # 1 => Units <= SessionLag
         /\ Lag \in Nat /\ JournalTyped(journal)
<1>1. /\ SyncInterval \in Nat \ {0} /\ Units \in Nat \ {0} /\ session \in Nat
      /\ JournalTyped(journal)
  BY JournalConstants, Parts
<1>2. SessionLag \in Nat
  BY <1>1 DEF SessionLag
<1>3. Up => session - 1 \in Nat
  BY <1>1 DEF Shape, ProcessTyped
<1>4. \A n \in Nat : n * Units \in Nat /\ (n + 1) * Units = n * Units + Units
  BY <1>1
<1>5. ASSUME NEW n \in Nat, n < SyncInterval PROVE n * Units <= SessionLag
  <2> DEFINE m == SyncInterval - 1
  <2>1. m \in Nat /\ (n = m \/ n < m)
    BY <1>1, <1>5
  <2> HIDE DEF m
  <2>2. n * Units <= m * Units
    BY <1>1, <2>1, Multiples
  <2> QED BY <2>2 DEF SessionLag, m
<1>6. SyncInterval # 1 => Units <= SessionLag
  BY <1>1, <1>5
<1>7. ASSUME NEW n \in Nat
      PROVE  n * SessionLag \in Nat /\ (n + 1) * SessionLag = n * SessionLag + SessionLag
  BY <1>2
<1> HIDE DEF SessionLag
<1>8. Lag \in Nat
  <2>1. journal.since \in Nat
    BY <1>1 DEF JournalTyped
  <2>2. Up => (session - 1) * SessionLag \in Nat /\ journal.since * Units \in Nat
    BY <1>3, <1>4, <1>7, <2>1
  <2>3. session * SessionLag \in Nat
    BY <1>1, <1>7
  <2> QED BY <2>2, <2>3 DEF Lag
<1> QED BY <1>1, <1>2, <1>3, <1>4, <1>5, <1>6, <1>7, <1>8

\* A record was written: what the policy asked before, it has after, a record later.
LEMMA WriteSecures ==
  ASSUME NEW j, JournalTyped(j), NEW n, NEW how \in SyncPolicy, NEW rec, Written(j, n, how, rec),
         NEW lag \in Nat, NEW more \in Nat, Secured(j, how, lag),
         n.since # 0 => lag + Units <= more
  PROVE  /\ Secured(n, how, more)
         /\ how = "Interval" => /\ n.since < SyncInterval
                                /\ n.os = Len(n.file) => n.since = 0
<1>1. /\ Units \in Nat \ {0} /\ SyncInterval \in Nat \ {0}
      /\ Len(j.file) \in Nat /\ Len(n.file) = Len(j.file) + Units
      /\ j.since \in Nat /\ j.os \in Nat /\ j.disk \in Nat /\ j.os <= Len(j.file)
      /\ n.disk \in Nat
  BY JournalConstants, LenProperties DEF JournalTyped, Written
<1>2. \A k \in RecordEnds(n.file) : k \in Nat /\ k <= Len(n.file)
  BY <1>1, LenProperties DEF RecordEnds, Written, JournalTyped
<1>3. CASE how = "OnWrite"
  BY <1>3 DEF Written, Secured
<1>4. CASE how = "Always"
  BY <1>2, <1>4 DEF Written, Secured
<1>5. CASE how = "Interval" /\ ~(j.since + 1 < SyncInterval)
  <2>1. n.since = 0 /\ n.os = Len(n.file) /\ n.disk = Len(n.file)
    BY <1>5 DEF Written
  <2> QED BY <1>1, <1>2, <1>5, <2>1 DEF Secured
<1>6. CASE how = "Interval" /\ j.since + 1 < SyncInterval
  <2>1. n.since = j.since + 1 /\ n.os = j.os /\ n.disk = j.disk
    BY <1>6 DEF Written
  <2>2. SyncInterval # 1 /\ n.since # 0 /\ n.since < SyncInterval /\ n.os # Len(n.file)
    BY <1>1, <1>6, <2>1
  <2>3. Len(j.file) <= j.disk + lag
    BY <1>6, <2>2 DEF Secured
  <2>4. Len(n.file) <= n.disk + more
    BY <1>1, <2>1, <2>2, <2>3
  <2> QED BY <1>6, <2>2, <2>4 DEF Secured
<1> QED BY <1>3, <1>4, <1>5, <1>6 DEF SyncPolicy

\* An action that writes one record keeps within the policy's bound.
LEMMA WriteKeepsSynced ==
  ASSUME Shape, SyncInv, Up, Up', NEW event \in Event, journal' = Write(journal, event),
         UNCHANGED <<policy, session>>
  PROVE  SyncInv'
<1> DEFINE rec == RecordFor(journal, session, event)
<1>1. JournalTyped(journal) /\ policy \in SyncPolicy /\ Written(journal, journal', policy, rec)
  BY Parts, WriteStep
<1>2. Lag \in Nat /\ session - 1 \in Nat /\ Units \in Nat
  BY LagIs
<1>3. journal'.since \in Nat /\ Secured(journal, policy, Lag)
  BY <1>1 DEF SyncInv, Written, JournalTyped
<1>4. Lag' = (session - 1) * SessionLag + journal'.since * Units
  BY DEF Lag, SessionLag
<1>5. Lag' \in Nat
  <2>1. (session - 1) * SessionLag \in Nat /\ journal'.since * Units \in Nat
    BY <1>2, <1>3, LagIs
  <2> QED BY <1>4, <2>1
<1>6. policy = "Interval" /\ journal'.since # 0 => Lag + Units <= Lag'
  <2> SUFFICES ASSUME policy = "Interval", journal'.since # 0 PROVE Lag + Units <= Lag'
    OBVIOUS
  <2>1. journal'.since = journal.since + 1
    BY <1>1 DEF Written
  <2>2. journal.since \in Nat
    BY <1>1 DEF JournalTyped
  <2>3. /\ journal'.since * Units = journal.since * Units + Units
        /\ journal.since * Units \in Nat /\ (session - 1) * SessionLag \in Nat
    BY <1>2, <2>1, <2>2, LagIs
  <2>4. Lag = (session - 1) * SessionLag + journal.since * Units
    BY DEF Lag
  <2> HIDE DEF Lag
  <2> QED BY <1>2, <1>4, <2>3, <2>4
<1> HIDE DEF rec
<1>7. /\ Secured(journal', policy, Lag')
      /\ policy = "Interval" => /\ journal'.since < SyncInterval
                                /\ journal'.os = Len(journal'.file) => journal'.since = 0
  <2>1. CASE policy = "Interval"
    <3> DEFINE more == Lag'
    <3>1. more \in Nat /\ (journal'.since # 0 => Lag + Units <= more)
      BY <1>5, <1>6, <2>1
    <3> HIDE DEF more
    <3>2. /\ Secured(journal', policy, more)
          /\ policy = "Interval" => /\ journal'.since < SyncInterval
                                    /\ journal'.os = Len(journal'.file) => journal'.since = 0
      BY <1>1, <1>2, <1>3, <3>1, WriteSecures
    <3> QED BY <3>2 DEF more
  <2>2. CASE policy # "Interval"
    <3>1. Secured(journal', policy, Lag + Units)
      BY <1>1, <1>2, <1>3, WriteSecures
    <3> QED BY <2>2, <3>1 DEF Secured
  <2> QED BY <2>1, <2>2
<1>8. ASSUME policy = "Interval"
      PROVE  Len(journal'.file) <= journal'.os + journal'.since * Units
  <2>1. /\ Len(journal'.file) = Len(journal.file) + Units /\ Len(journal.file) \in Nat
        /\ journal.os \in Nat /\ journal.since \in Nat
    BY <1>1, LenProperties DEF Written, JournalTyped
  <2>2. Len(journal.file) <= journal.os + journal.since * Units
    BY <1>8 DEF SyncInv
  <2>3. CASE journal.since + 1 < SyncInterval
    <3>1. journal'.os = journal.os /\ journal'.since = journal.since + 1
      BY <1>1, <1>8, <2>3 DEF Written
    <3>2. /\ journal.since * Units \in Nat
          /\ (journal.since + 1) * Units = journal.since * Units + Units
      BY <2>1, LagIs
    <3> QED BY <1>2, <2>1, <2>2, <3>1, <3>2
  <2>4. CASE ~(journal.since + 1 < SyncInterval)
    <3>1. journal'.os = Len(journal'.file) /\ journal'.since = 0
      BY <1>1, <1>8, <2>4 DEF Written
    <3>2. journal'.since * Units = 0 /\ Len(journal'.file) \in Nat
      BY <1>2, <2>1, <3>1
    <3> QED BY <3>1, <3>2
  <2> QED BY <2>3, <2>4
<1>9. policy' = policy
  OBVIOUS
<1> QED BY <1>7, <1>8, <1>9 DEF SyncInv, Secured

\* So does the end of a process, whatever is left of the file.
LEMMA CrashKeepsSynced ==
  ASSUME Shape, SyncInv, ProcessCrash \/ TornWrite \/ PowerLoss
  PROVE  SyncInv'
<1> DEFINE file == journal.file
           lag  == session * SessionLag
<1>1. /\ JournalTyped(journal) /\ Len(file) \in Nat /\ session \in Nat
      /\ journal.os \in Nat /\ journal.disk \in Nat /\ journal.since \in Nat
      /\ journal.disk <= journal.os /\ journal.os <= Len(file)
      /\ DOMAIN file = 1 .. Len(file)
  BY Parts, LenProperties DEF JournalTyped
<1>2. Up
  BY DEF ProcessCrash, TornWrite, PowerLoss
<1>3. Secured(journal, policy, lag)
      /\ (SyncInterval # 1 /\ policy = "Interval" /\ journal.os = Len(file) =>
            Len(file) + Units <= journal.disk + lag)
  <2>1. /\ session - 1 \in Nat /\ (session - 1) * SessionLag \in Nat
        /\ lag = (session - 1) * SessionLag + SessionLag
    <3> DEFINE n == session - 1
    <3>1. n \in Nat /\ n + 1 = session
      BY <1>1, <1>2, LagIs
    <3> HIDE DEF n
    <3>2. n * SessionLag \in Nat /\ (n + 1) * SessionLag = n * SessionLag + SessionLag
      BY <3>1, LagIs
    <3>3. lag = n * SessionLag + SessionLag
      BY <3>1, <3>2
    <3> QED BY <3>1, <3>2, <3>3 DEF n
  <2>2. policy = "Interval" => journal.since < SyncInterval
        /\ (journal.os = Len(file) => journal.since = 0)
    BY <1>2 DEF SyncInv
  <2>3. policy = "Interval" => journal.since * Units \in Nat /\ journal.since * Units <= SessionLag
    BY <1>1, <2>2, LagIs
  <2>4. Lag = (session - 1) * SessionLag + journal.since * Units
    BY <1>2 DEF Lag
  <2>5. Secured(journal, policy, Lag) /\ SessionLag \in Nat /\ Units \in Nat
        /\ (SyncInterval # 1 => Units <= SessionLag)
        /\ 0 * Units = 0
    BY LagIs DEF SyncInv
  <2> DEFINE a == (session - 1) * SessionLag
             b == journal.since * Units
  <2>6. a \in Nat /\ lag = a + SessionLag /\ (policy = "Interval" => b \in Nat /\ b <= SessionLag)
        /\ Lag = a + b /\ (journal.since = 0 => b = 0)
    BY <2>1, <2>3, <2>4, <2>5
  <2> HIDE DEF a, b, lag, Lag, SessionLag
  <2>7. Secured(journal, policy, lag)
    BY <1>1, <2>5, <2>6 DEF Secured
  <2>8. ASSUME SyncInterval # 1, policy = "Interval", journal.os = Len(file)
        PROVE  Len(file) + Units <= journal.disk + lag
    <3>1. Len(file) <= journal.disk + Lag
      BY <2>5, <2>8 DEF Secured
    <3>2. journal.since = 0
      BY <2>2, <2>8
    <3> QED BY <1>1, <2>5, <2>6, <2>8, <3>1, <3>2
  <2> QED BY <2>7, <2>8
<1>4. lag \in Nat
  BY <1>1, LagIs
<1> HIDE DEF lag
<1>5. SUFFICES pc' = "down" /\ UNCHANGED <<policy, session>> /\ journal'.os = Len(journal'.file)
               /\ Secured(journal', policy, lag)
  <2> SUFFICES ASSUME pc' = "down", UNCHANGED <<policy, session>>,
                      journal'.os = Len(journal'.file), Secured(journal', policy, lag)
               PROVE  SyncInv'
    OBVIOUS
  <2>1. ~Up' /\ Lag' = lag
    BY DEF Up, Lag, lag, SessionLag
  <2> QED BY <2>1 DEF SyncInv, Secured
<1>6. ASSUME NEW kept \in 0 .. Len(file), NEW disk \in 0 .. kept,
             Gone(SubSeq(journal.file, 1, kept), disk), disk = journal.disk \/ disk = kept
      PROVE  pc' = "down" /\ UNCHANGED <<policy, session>> /\ journal'.os = Len(journal'.file)
             /\ Secured(journal', policy, lag)
  <2>1. /\ pc' = "down" /\ UNCHANGED <<policy, session>> /\ JournalTyped(journal')
        /\ Len(journal'.file) = kept /\ journal'.os = kept /\ journal'.disk = disk
        /\ \A k \in 1 .. kept : journal'.file[k] = file[k]
    BY <1>6, GoneIs DEF process
  <2>2. DOMAIN journal'.file = 1 .. kept
    BY <2>1, LenProperties DEF JournalTyped
  <2>3. \A k \in RecordEnds(journal'.file) : k \in RecordEnds(file) /\ k <= kept
    BY <1>1, <1>6, <2>1, <2>2 DEF RecordEnds
  <2> QED BY <1>1, <1>3, <1>4, <1>6, <2>1, <2>3 DEF Secured
<1>7. CASE ProcessCrash
  <2>1. PICK kept \in journal.os .. Len(file) : Gone(SubSeq(file, 1, kept), journal.disk)
    BY <1>7 DEF ProcessCrash
  <2>2. kept \in 0 .. Len(file) /\ journal.disk \in 0 .. kept
    BY <1>1
  <2> QED BY <1>6, <2>1, <2>2
<1>8. CASE PowerLoss
  <2>1. PICK kept \in journal.disk .. Len(file) : Gone(SubSeq(file, 1, kept), kept)
    BY <1>8 DEF PowerLoss
  <2>2. kept \in 0 .. Len(file) /\ kept \in 0 .. kept
    BY <1>1
  <2> QED BY <1>6, <2>1, <2>2
<1>9. CASE TornWrite
  <2>1. PICK more :
          /\ Chunk(more) /\ Len(more) < Units
          /\ \A p \in 1 .. Len(more) : more[p].part # Units
          /\ journal.os = Len(file) /\ pc' = "down" /\ JournalTyped(journal')
          /\ journal'.file = file \o more
          /\ Len(journal'.file) = Len(file) + Len(more)
          /\ journal'.os = Len(journal'.file) /\ journal'.disk = journal.disk
          /\ UNCHANGED <<policy, session>>
    BY <1>9, TornIs DEF process
  <2>2. /\ DOMAIN journal'.file = 1 .. Len(file) + Len(more) /\ Len(more) \in Nat
        /\ \A k \in DOMAIN journal'.file :
             journal'.file[k] = IF k <= Len(file) THEN file[k] ELSE more[k - Len(file)]
    BY <1>1, <2>1, LenProperties, ConcatProperties DEF Chunk, JournalTyped
  <2>3. \A k \in RecordEnds(journal'.file) : k \in RecordEnds(file) /\ k <= Len(file)
    BY <1>1, <2>1, <2>2 DEF RecordEnds
  <2>4. Units \in Nat
    BY LagIs
  <2> QED BY <1>1, <1>3, <1>4, <2>1, <2>2, <2>3, <2>4 DEF Secured
<1> QED BY <1>7, <1>8, <1>9

\* Each step keeps what the policy asks, within what the sessions so far allow.
LEMMA SyncStep ==
  ASSUME Shape, SyncInv, [Next]_vars
  PROVE  SyncInv'
<1>1. JournalTyped(journal) /\ session \in Nat /\ policy \in SyncPolicy
  BY Parts
<1>2. ASSUME UNCHANGED <<policy, session, journal>>, Up' <=> Up PROVE SyncInv'
  BY <1>2 DEF SyncInv, Secured, Lag, SessionLag
<1>3. ASSUME NEW asked \in BOOLEAN, Start(asked) PROVE SyncInv'
  <2> DEFINE r   == Recover(journal.file)
             j   == ReopenedAt(r)
             w   == Write(j, SessionStart)
             rec == RecordFor(j, session, SessionStart)
             lag == session * SessionLag
  <2>1. /\ ~Up /\ policy' = policy
        /\ JournalTyped(j) /\ j.file = journal.file /\ j.since = 0
        /\ j.os = journal.os /\ j.disk = journal.disk
        /\ \/ pc' = "refused" /\ UNCHANGED <<journal, session>>
           \/ /\ session' = session + 1
              /\ \/ pc' = "opening" /\ journal' = j
                 \/ pc' = "refused" /\ journal' = Synced(w)
    BY <1>3, StartGives, Zenon DEF process
  <2>2. Secured(journal, policy, lag) /\ (policy = "Interval" => journal.os = Len(journal.file))
        /\ lag \in Nat
    BY <1>1, <2>1, LagIs DEF SyncInv, Lag
  <2>3. JournalTyped(w) /\ Written(j, w, policy, rec)
    BY <2>1, WriteStep, EventsTyped DEF Written
  <2>4. Secured(j, policy, lag)
    BY <2>1, <2>2 DEF Secured
  <2> HIDE DEF j, w, rec
  <2>5. CASE pc' = "refused" /\ UNCHANGED <<journal, session>>
    BY <1>2, <2>1, <2>5 DEF Up
  <2>6. CASE session' = session + 1 /\ pc' = "opening" /\ journal' = j
    <3>1. Up' /\ Lag' = session * SessionLag + 0 * Units
      BY <1>1, <2>1, <2>6 DEF Up, Lag, SessionLag
    <3>2. Lag' = lag
      BY <2>2, <3>1, LagIs
    <3>3. SyncInterval \in Nat \ {0}
      BY LagIs
    <3>4. policy = "Interval" => Len(journal'.file) <= journal'.os + journal'.since * Units
      <4>1. journal'.since = 0 /\ journal'.os = journal.os /\ journal'.file = journal.file
        BY <2>1, <2>6
      <4>2. journal'.since * Units = 0 /\ Len(journal.file) \in Nat
        BY <1>1, <4>1, LagIs, LenProperties DEF JournalTyped
      <4> QED BY <2>2, <4>1, <4>2
    <3> HIDE DEF lag
    <3> QED BY <2>1, <2>2, <2>4, <2>6, <3>1, <3>2, <3>3, <3>4 DEF SyncInv, Secured
  <2>7. CASE session' = session + 1 /\ pc' = "refused" /\ journal' = Synced(w)
    <3>1. /\ JournalTyped(journal') /\ journal'.os = Len(journal'.file)
          /\ journal'.disk = Len(journal'.file)
      BY <2>3, <2>7, SyncIs
    <3>2. \A k \in RecordEnds(journal'.file) : k <= journal'.disk
      BY <3>1, LenProperties DEF RecordEnds, JournalTyped
    <3>3. ~Up' /\ Lag' = (session + 1) * SessionLag
      BY <2>7 DEF Up, Lag, SessionLag
    <3>4. Lag' \in Nat /\ Len(journal'.file) \in Nat
      <4>1. session + 1 \in Nat
        BY <1>1
      <4> QED BY <3>1, <3>3, <4>1, LagIs, LenProperties DEF JournalTyped
    <3> HIDE DEF Lag
    <3> QED BY <2>1, <3>1, <3>2, <3>3, <3>4 DEF SyncInv, Secured
  <2> QED BY <2>1, <2>5, <2>6, <2>7
<1>4. ASSUME RecordSessionStart PROVE SyncInv'
  BY <1>4, WriteKeepsSynced, EventsTyped DEF RecordSessionStart, process, Up
<1>5. ASSUME NEW s \in Symbol, NEW d \in Sides, NEW quantity \in 1 .. MaxQuantity,
             Decide(s, d, quantity)
      PROVE  SyncInv'
  <2>1. OrderSent(oms.next, s, d, quantity) \in Event
    BY <1>5, Parts, DecideGives, EventsTyped
  <2> QED BY <1>5, <2>1, WriteKeepsSynced DEF Decide, Up
<1>6. ASSUME Deliver PROVE SyncInv'
  <2>1. ExecReport(Head(wire)) \in Event
    BY <1>6, HeadTaken, EventsTyped DEF Deliver
  <2> QED BY <1>6, <2>1, WriteKeepsSynced DEF Deliver, Up
<1>7. ASSUME DeliverUnwritten PROVE SyncInv'
  <2>1. /\ journal'.file = journal.file /\ journal'.os = journal.os
        /\ journal'.disk = journal.disk /\ journal'.since = journal.since
    BY <1>1, <1>7 DEF DeliverUnwritten, FailedAppend, JournalTyped
  <2>2. UNCHANGED <<policy, session>> /\ Up /\ Up'
    BY <1>7 DEF DeliverUnwritten, Up
  <2> QED BY <2>1, <2>2 DEF SyncInv, Secured, Lag, SessionLag
<1>8. ASSUME CheckpointNext PROVE SyncInv'
  <2>1. Checkpoint(marked, held[marked]) \in Event
    BY <1>8, EventsTyped DEF CheckpointNext, Shape, ProcessTyped
  <2> QED BY <1>8, <2>1, WriteKeepsSynced DEF CheckpointNext, Up
<1>9. ASSUME End PROVE SyncInv'
  <2> DEFINE w == Write(journal, SessionEnd)
  <2>1. JournalTyped(w) /\ journal' = Synced(w)
    BY <1>1, <1>9, WriteStep, EventsTyped DEF End, Written
  <2> HIDE DEF w
  <2>2. JournalTyped(journal') /\ journal'.os = Len(journal'.file)
        /\ journal'.disk = Len(journal'.file)
    BY <2>1, SyncIs
  <2>3. \A k \in RecordEnds(journal'.file) : k <= journal'.disk
    BY <2>2, LenProperties DEF RecordEnds, JournalTyped
  <2>4. ~Up' /\ UNCHANGED <<policy, session>>
    BY <1>9 DEF End, process, Up
  <2>5. Lag' \in Nat /\ Len(journal'.file) \in Nat
    <3>1. Lag' = session * SessionLag
      BY <2>4 DEF Lag, SessionLag
    <3> QED BY <1>1, <2>2, <3>1, LagIs, LenProperties DEF JournalTyped
  <2> HIDE DEF Lag
  <2> QED BY <2>2, <2>3, <2>4, <2>5 DEF SyncInv, Secured
<1>10. ASSUME ProcessCrash \/ TornWrite \/ PowerLoss PROVE SyncInv'
  BY <1>10, CrashKeepsSynced
<1>11. ASSUME UNCHANGED <<pc, policy, session, journal>> PROVE SyncInv'
  BY <1>2, <1>11 DEF Up
<1>12. ASSUME Submit PROVE SyncInv'
  BY <1>2, <1>12 DEF Submit, process, Up
<1> QED
  BY <1>3, <1>4, <1>5, <1>6, <1>7, <1>8, <1>9, <1>10, <1>11, <1>12
  DEF Next, vars, process, VenueExecutes, VenueCancels

\* What a crash can take is bounded under each sync policy: nothing by the process's end or
\* nothing at all, or under Interval less than the interval by the process's end, and by
\* power loss as much for every session so far.
THEOREM EveryPolicyBoundsTheLoss == Spec => []PoliciesBoundTheLoss
<1>1. Init => SyncInv
  <2> SUFFICES ASSUME Init PROVE SyncInv
    OBVIOUS
  <2>1. journal.file = << >> /\ journal.os = 0 /\ journal.disk = 0 /\ ~Up /\ Shape /\ session = 0
    BY ShapeInit DEF Init, Up
  <2>2. Len(journal.file) = 0 /\ RecordEnds(journal.file) = {}
    BY <2>1, EmptySeq DEF RecordEnds
  <2>3. Lag \in Nat
    BY <2>1, LagIs
  <2> HIDE DEF Lag
  <2> QED BY <2>1, <2>2, <2>3 DEF SyncInv, Secured
<1>2. Shape /\ SyncInv /\ [Next]_vars => SyncInv'
  BY SyncStep
<1>3. Shape /\ SyncInv => PoliciesBoundTheLoss
  <2> SUFFICES ASSUME Shape, SyncInv, NEW k \in RecordEnds(journal.file)
               PROVE  /\ policy \in {"OnWrite", "Always"} => k <= journal.os
                      /\ policy = "Always" => k <= journal.disk
                      /\ policy = "Interval" =>
                           /\ k - journal.os <= (SyncInterval - 1) * Units
                           /\ k - journal.disk <= session * (SyncInterval - 1) * Units
    BY DEF PoliciesBoundTheLoss
  <2>1. /\ k \in Nat /\ k <= Len(journal.file) /\ Len(journal.file) \in Nat
        /\ journal.disk \in Nat /\ journal.since \in Nat /\ session \in Nat
    BY Parts, LenProperties DEF RecordEnds, JournalTyped
  <2> DEFINE lag == session * SessionLag
  <2>2. lag = session * (SyncInterval - 1) * Units /\ lag \in Nat
    <3>1. SyncInterval - 1 \in Nat /\ Units \in Nat
      BY JournalConstants
    <3>2. lag = session * (SyncInterval - 1) * Units
      BY <2>1, <3>1 DEF SessionLag
    <3> QED BY <2>1, <3>2, LagIs
  <2>3. policy = "Interval" => Lag <= lag
    <3>1. CASE Up /\ policy = "Interval"
      <4> DEFINE n == session - 1
      <4>1. n \in Nat /\ n + 1 = session /\ journal.since < SyncInterval
        BY <2>1, <3>1, LagIs DEF SyncInv
      <4>2. Lag = n * SessionLag + journal.since * Units
        BY <3>1 DEF Lag
      <4> HIDE DEF n, Lag
      <4>3. /\ n * SessionLag \in Nat /\ (n + 1) * SessionLag = n * SessionLag + SessionLag
            /\ journal.since * Units \in Nat /\ journal.since * Units <= SessionLag
            /\ SessionLag \in Nat
        BY <2>1, <4>1, LagIs
      <4>4. lag = n * SessionLag + SessionLag
        BY <4>1, <4>3
      <4> HIDE DEF lag
      <4> QED BY <4>2, <4>3, <4>4
    <3>2. CASE ~Up
      BY <2>2, <3>2 DEF Lag
    <3> QED BY <3>1, <3>2
  <2>4. Lag \in Nat
    BY LagIs
  <2> HIDE DEF lag, Lag
  <2>5. policy = "Interval" => k - journal.disk <= lag
    BY <2>1, <2>2, <2>3, <2>4 DEF SyncInv, Secured
  <2>7. ASSUME policy = "Interval" PROVE k - journal.os <= (SyncInterval - 1) * Units
    <3>1. journal.os \in Nat /\ SessionLag \in Nat
      BY Parts, LagIs DEF JournalTyped
    <3>2. CASE Up
      <4>1. /\ Len(journal.file) <= journal.os + journal.since * Units
            /\ journal.since < SyncInterval
        BY <2>7, <3>2 DEF SyncInv
      <4>2. journal.since * Units \in Nat /\ journal.since * Units <= SessionLag
        BY <2>1, <4>1, LagIs
      <4>3. k - journal.os <= SessionLag
        BY <2>1, <3>1, <4>1, <4>2
      <4> QED BY <4>3 DEF SessionLag
    <3>3. CASE ~Up
      <4>1. Len(journal.file) = journal.os
        BY <2>7, <3>3 DEF SyncInv
      <4>2. k - journal.os <= SessionLag
        BY <2>1, <3>1, <4>1
      <4> QED BY <4>2 DEF SessionLag
    <3> QED BY <3>2, <3>3
  <2>6. /\ policy \in {"OnWrite", "Always"} => k <= journal.os
        /\ policy = "Always" => k <= journal.disk
    BY <2>1 DEF SyncInv, Secured
  <2> QED BY <2>2, <2>5, <2>6, <2>7
<1> QED BY <1>1, <1>2, <1>3, ShapeHolds, PTL DEF Spec

-----------------------------------------------------------------------------
(***************************************************************************)
(* What a step does to a file that recovers without a complaint.           *)
(***************************************************************************)

\* The file is longer by a record, under the next number.
Grown(rec) ==
  /\ rec \in Record /\ rec.seq = journal.seq + 1
  /\ journal'.file = journal.file \o UnitsOf(rec) /\ journal'.seq = rec.seq

\* A write makes it so.
LEMMA WriteGrows ==
  ASSUME Shape, NEW event \in Event,
         journal' = Write(journal, event) \/ journal' = Synced(Write(journal, event))
  PROVE  /\ Grown(RecordFor(journal, session, event))
         /\ RecordFor(journal, session, event).event = event
<1> DEFINE rec == RecordFor(journal, session, event)
           w   == Write(journal, event)
<1>1. /\ rec \in Record /\ rec.seq = journal.seq + 1 /\ rec.event = event
      /\ Written(journal, w, policy, rec)
  BY Parts, WriteStep
<1>2. rec.seq = journal.seq + 1 /\ JournalTyped(w)
      /\ w.file = journal.file \o UnitsOf(rec) /\ w.seq = journal.seq + 1
  BY <1>1 DEF Written
<1> HIDE DEF rec, w
<1>3. journal'.file = w.file /\ journal'.seq = w.seq
  BY <1>2, SyncIs DEF w
<1> QED BY <1>1, <1>2, <1>3 DEF Grown, rec

\* What is read of it then.
LEMMA GrownReads ==
  ASSUME Shape, NEW rec, Grown(rec), lost' = lost, Intact'
  PROVE  LET r == Recover(journal.file)
             q == Recover(journal'.file)
         IN  /\ Intact /\ Recovered(r) /\ Recovered(q)
             /\ q.order = OrdersAfter(r, rec.event) /\ q.next = NextAfter(r, rec.event)
             /\ q.read = r.read + 1 /\ q.seq = rec.seq
             /\ q.gaps = IF r.seq # 0 /\ rec.seq # r.seq + 1 THEN r.gaps + 1 ELSE r.gaps
<1>1. /\ journal.file \in Seq(Unit) /\ rec \in Record
      /\ journal'.file = journal.file \o UnitsOf(rec) /\ Recover(journal'.file).corrupt = 0
      /\ ~lost
  BY Parts DEF Grown, Intact
<1>2. journal'.file \in Seq(Unit)
  BY <1>1, RecordUnits, ConcatProperties
<1>3. /\ Recovered(Recover(journal.file)) /\ Recovered(Recover(journal'.file))
  BY <1>1, <1>2, RecoverIs
<1>4. LET r == Recover(journal.file)
          q == Recover(journal.file \o UnitsOf(rec))
      IN  /\ r.corrupt = 0
          /\ q.order = OrdersAfter(r, rec.event) /\ q.next = NextAfter(r, rec.event)
          /\ q.read = r.read + 1 /\ q.seq = rec.seq
          /\ q.gaps = IF r.seq # 0 /\ rec.seq # r.seq + 1 THEN r.gaps + 1 ELSE r.gaps
  BY <1>1, RecordAppended
<1> QED BY <1>1, <1>3, <1>4 DEF Intact

\* The end of a process takes nothing from what is read, unless it takes records.
LEMMA CrashGives ==
  ASSUME Shape, ProcessCrash \/ TornWrite \/ PowerLoss
  PROVE  /\ pc' = "down" /\ ~Up' /\ wire' = << >> /\ (~lost' => ~lost)
         /\ UNCHANGED <<policy, process, market, sent, reused, overlooked>>
         /\ Intact' => Intact /\ Alike(Recover(journal'.file), Recover(journal.file))
<1>1. ASSUME NEW kept \in 0 .. Len(journal.file), NEW disk \in 0 .. kept,
             Gone(SubSeq(journal.file, 1, kept), disk)
      PROVE  /\ pc' = "down" /\ wire' = << >> /\ (~lost' => ~lost)
             /\ UNCHANGED <<policy, process, market, sent, reused, overlooked>>
             /\ Intact' => Intact /\ Alike(Recover(journal'.file), Recover(journal.file))
  <2>1. /\ pc' = "down" /\ wire' = << >>
        /\ ~lost' => ~lost /\ journal'.file = journal.file
        /\ UNCHANGED <<policy, process, market, sent, reused, overlooked>>
    BY <1>1, GoneIs
  <2>2. Intact' => Intact /\ Alike(Recover(journal'.file), Recover(journal.file))
    <3> SUFFICES ASSUME Intact'
                 PROVE  Intact /\ Alike(Recover(journal'.file), Recover(journal.file))
      OBVIOUS
    <3>1. ~lost' /\ Recover(journal'.file).corrupt = 0
      BY DEF Intact
    <3>2. journal'.file = journal.file
      BY <2>1, <3>1
    <3>3. Recover(journal'.file) = Recover(journal.file)
      BY <3>2, Zenon
    <3> QED BY <2>1, <3>1, <3>3 DEF Intact, Alike
  <2> QED BY <2>1, <2>2
<1>2. CASE ProcessCrash
  <2>1. PICK kept \in journal.os .. Len(journal.file) :
          Gone(SubSeq(journal.file, 1, kept), journal.disk)
    BY <1>2 DEF ProcessCrash
  <2>2. kept \in 0 .. Len(journal.file) /\ journal.disk \in 0 .. kept
    BY Parts DEF JournalTyped
  <2> QED BY <1>1, <2>1, <2>2 DEF Up
<1>3. CASE PowerLoss
  <2>1. PICK kept \in journal.disk .. Len(journal.file) :
          Gone(SubSeq(journal.file, 1, kept), kept)
    BY <1>3 DEF PowerLoss
  <2>2. kept \in 0 .. Len(journal.file) /\ kept \in 0 .. kept
    BY Parts DEF JournalTyped
  <2> QED BY <1>1, <2>1, <2>2 DEF Up
<1>4. CASE TornWrite
  <2>1. PICK more :
          /\ Chunk(more) /\ Len(more) < Units /\ pc' = "down" /\ wire' = << >>
          /\ journal'.file = journal.file \o more /\ lost' = lost
          /\ UNCHANGED <<policy, process, market, sent, reused, overlooked>>
    BY <1>4, TornIs
  <2>2. ASSUME Intact'
        PROVE  Intact /\ Alike(Recover(journal'.file), Recover(journal.file))
    <3>1. journal.file \in Seq(Unit) /\ Recover(journal.file \o more).corrupt = 0 /\ ~lost
      BY <2>1, <2>2, Parts DEF Intact
    <3>2. Recover(journal.file).corrupt = 0
      BY <2>1, <3>1, NotCorruptBefore
    <3>3. Alike(Recover(journal.file \o more), Recover(journal.file))
      BY <2>1, <3>1, PartAppended
    <3> QED BY <2>1, <3>1, <3>2, <3>3 DEF Intact
  <2> QED BY <2>1, <2>2 DEF Up
<1> QED BY <1>2, <1>3, <1>4

\* A start leaves the file, or adds the start of a session that is refused after all.
LEMMA StartReads ==
  ASSUME Shape, NEW asked \in BOOLEAN, Start(asked), Intact'
  PROVE  LET r == Recover(journal.file)
             q == Recover(journal'.file)
         IN  /\ Intact /\ ~Up /\ Recovered(r) /\ q.order = r.order /\ q.next = r.next
             /\ \/ q = r /\ journal'.file = journal.file /\ (Up' => journal'.seq = r.read)
                \/ /\ ~Up' /\ q.read = r.read + 1 /\ q.seq = r.read + 1
                   /\ q.gaps = IF r.seq # 0 /\ r.read + 1 # r.seq + 1
                               THEN r.gaps + 1 ELSE r.gaps
<1> DEFINE r   == Recover(journal.file)
           q   == Recover(journal'.file)
           j   == ReopenedAt(r)
           w   == Write(j, SessionStart)
           rec == RecordFor(j, session, SessionStart)
<1>1. /\ ~Up /\ lost' = lost
      /\ JournalTyped(j) /\ j.file = journal.file /\ j.seq = r.read
      /\ \/ pc' = "refused" /\ UNCHANGED journal
         \/ pc' = "opening" /\ journal' = j
         \/ pc' = "refused" /\ journal' = Synced(w)
  BY StartGives, Zenon
<1>2. /\ ~lost /\ q.corrupt = 0 /\ journal.file \in Seq(Unit) /\ Recovered(r)
  BY <1>1, Parts, RecoverIs DEF Intact
<1>3. /\ rec \in Record /\ rec.seq = r.read + 1 /\ rec.event = SessionStart
      /\ JournalTyped(w) /\ w.file = journal.file \o UnitsOf(rec)
  <2> HIDE DEF r, j
  <2>1. rec \in Record /\ rec.seq = j.seq + 1 /\ rec.event = SessionStart
        /\ Written(j, w, policy, rec)
    BY <1>1, WriteStep, EventsTyped
  <2> HIDE DEF rec, w
  <2> QED BY <1>1, <2>1 DEF Written
<1>4. CASE journal'.file = journal.file /\ (Up' => journal' = j)
  <2>1. q = r
    BY <1>4, Zenon
  <2> HIDE DEF r, q, j
  <2> QED BY <1>1, <1>2, <1>4, <2>1 DEF Intact, r, q
<1>5. CASE pc' = "refused" /\ journal' = Synced(w)
  <2> HIDE DEF w, rec
  <2>1. journal'.file = journal.file \o UnitsOf(rec)
    BY <1>3, <1>5, SyncIs
  <2>2. Recover(journal.file \o UnitsOf(rec)).corrupt = 0
    BY <1>2, <2>1
  <2>3. LET p == Recover(journal.file \o UnitsOf(rec))
        IN  /\ r.corrupt = 0
            /\ p.order = OrdersAfter(r, rec.event) /\ p.next = NextAfter(r, rec.event)
            /\ p.read = r.read + 1 /\ p.seq = rec.seq
            /\ p.gaps = IF r.seq # 0 /\ rec.seq # r.seq + 1 THEN r.gaps + 1 ELSE r.gaps
    BY <1>2, <1>3, <2>2, RecordAppended
  <2>4. q = Recover(journal.file \o UnitsOf(rec))
    BY <2>1, Zenon
  <2>5. r.corrupt = 0 => Intact
    BY <1>2 DEF Intact
  <2> HIDE DEF r, q, j
  <2>6. OrdersAfter(r, rec.event) = r.order /\ NextAfter(r, rec.event) = r.next
    BY <1>3 DEF OrdersAfter, NextAfter, SessionStart
  <2> QED BY <1>1, <1>2, <1>3, <1>5, <2>3, <2>4, <2>5, <2>6 DEF Up, r, q
<1> QED BY <1>1, <1>4, <1>5 DEF Up

-----------------------------------------------------------------------------
(***************************************************************************)
(* Recovery is honest.                                                     *)
(***************************************************************************)

\* Every place of a file lies in a frame or in the tail.
LEMMA FrameAt ==
  ASSUME NEW file \in Seq(Unit), NEW i \in 1 .. Len(file)
  PROVE  \/ Whole(file) * Units < i
         \/ \E k \in 1 .. Whole(file), c \in 1 .. Units : i = (k - 1) * Units + c
<1> DEFINE n == Whole(file)
           l == i - 1
           j == l \div Units
<1>1. /\ Len(file) \in Nat /\ n \in Nat /\ n * Units \in Nat /\ Units \in Nat \ {0}
      /\ l \in Nat
  BY FramesFit, UnitsType
<1> HIDE DEF n, l
<1>2. j \in Nat /\ j * Units <= l /\ l < j * Units + Units
  BY <1>1, WholePart
<1> HIDE DEF j
<1>3. j * Units \in Nat /\ (n < j => n * Units + Units <= j * Units)
  BY <1>1, <1>2, Multiples
<1>4. CASE j < n
  <2> DEFINE k == j + 1
             c == i - j * Units
  <2>1. k \in 1 .. n /\ c \in 1 .. Units /\ k - 1 = j /\ i = j * Units + c
    BY <1>1, <1>2, <1>3, <1>4 DEF l
  <2> HIDE DEF k, c
  <2> QED BY <2>1 DEF n
<1>5. CASE ~(j < n)
  <2>1. n * Units <= j * Units
    BY <1>1, <1>2, <1>3, <1>5
  <2> QED BY <1>1, <1>2, <1>3, <2>1 DEF n, l
<1> QED BY <1>4, <1>5

\* What it means that a whole record lies at place i.
LEMMA WholeRecordAt ==
  ASSUME NEW file \in Seq(Unit), NEW i \in DOMAIN file,
         i + Units - 1 <= Len(file), SubSeq(file, i, i + Units - 1) = UnitsOf(file[i].rec)
  PROVE  \A p \in 1 .. Units : /\ i + p - 1 \in 1 .. Len(file)
                               /\ file[i + p - 1].part = p
                               /\ file[i + p - 1].rec = file[i].rec
<1> DEFINE n == i + Units - 1
<1>1. Units \in Nat \ {0} /\ Len(file) \in Nat /\ i \in 1 .. Len(file)
  BY UnitsType, LenProperties
<1>2. i \in Int /\ n \in Int /\ n <= Len(file) /\ i <= n /\ n - i + 1 = Units
  BY <1>1
<1> HIDE DEF n
<1>3. \A j \in i .. n : file[j] \in Unit
  BY <1>1, <1>2, ElementOfSeq
<1>4. \A p \in 1 .. n - i + 1 : SubSeq(file, i, n)[p] = file[i + p - 1]
  BY <1>2, <1>3, SubSeqProperties
<1>5. SubSeq(file, i, n) = UnitsOf(file[i].rec)
  BY DEF n
<1>6. ASSUME NEW p \in 1 .. Units
      PROVE  /\ i + p - 1 \in 1 .. Len(file)
             /\ file[i + p - 1].part = p /\ file[i + p - 1].rec = file[i].rec
  <2>1. SubSeq(file, i, n)[p] = file[i + p - 1]
    BY <1>2, <1>4, <1>6
  <2>2. UnitsOf(file[i].rec)[p] = [rec |-> file[i].rec, part |-> p]
    BY <1>6 DEF UnitsOf
  <2>3. file[i + p - 1] = [rec |-> file[i].rec, part |-> p]
    BY <1>5, <2>1, <2>2, Zenon
  <2> QED BY <1>1, <1>2, <1>6, <2>3
<1> QED BY <1>6

\* If no corruption is reported, the whole records of the file lie in its frames, but
\* perhaps for the last frame, which is torn.
LEMMA WholeRecordsAreRead ==
  ASSUME NEW file \in Seq(Unit), Recover(file).corrupt = 0
  PROVE  ~(Recover(file).read < Cardinality(WholeRecords(file)))
<1> DEFINE n == Whole(file)
           R == FramesRead(file)
<1>1. /\ n \in Nat /\ Len(file) \in Nat /\ n * Units \in Nat /\ n * Units <= Len(file)
      /\ Len(file) < n * Units + Units /\ Units \in Nat \ {0}
      /\ \A k \in 1 .. n : /\ (k - 1) * Units \in Nat
                           /\ k * Units = (k - 1) * Units + Units
                           /\ k * Units <= n * Units
      /\ DOMAIN file = 1 .. Len(file)
  BY FramesFit, UnitsType, LenProperties
<1>2. /\ \A k \in 1 .. n : Fine(file, k)
      /\ Recover(file).read = R[n].read
  BY RecoverIs DEF Alike
<1>3. \A k \in 1 .. n - 1 : Passes(Frame(file, k))
  <2> SUFFICES ASSUME NEW k \in 1 .. n - 1 PROVE Passes(Frame(file, k))
    OBVIOUS
  <2>1. k \in 1 .. n /\ k \in Nat /\ k < n
    BY <1>1
  <2>2. k * Units + Units <= n * Units
    BY <1>1, <2>1, Multiples
  <2>3. k * Units \in Nat
    BY <1>1, <2>1, Multiples
  <2> DEFINE a == k * Units
             b == n * Units
  <2>4. /\ a \in Nat /\ b \in Nat /\ Units \in Nat \ {0} /\ Len(file) \in Nat
        /\ a + Units <= b /\ b <= Len(file)
    BY <1>1, <2>2, <2>3
  <2> HIDE DEF a, b
  <2>5. a # Len(file)
    BY <2>4
  <2> QED BY <1>2, <2>1, <2>5 DEF Fine, a
<1> DEFINE bad == n # 0 /\ ~Passes(Frame(file, n))
           m == IF bad THEN n - 1 ELSE n
<1>4. m \in 0 .. n /\ \A k \in 1 .. m : Passes(Frame(file, k))
  BY <1>1, <1>3
<1>5. R[n].read = m
  <2>1. R[m].read = m
    <3> HIDE DEF m, n
    <3> QED BY <1>4, ReadCount DEF n
  <2>2. CASE bad
    <3>1. n \in 1 .. n /\ m = n - 1 /\ m \in 0 .. n
      BY <1>1, <2>2
    <3>2. R[n] = ReadFrame(R[m], file, n) /\ Recovered(R[m])
      <4> HIDE DEF m
      <4>1. R[n] = ReadFrame(R[n - 1], file, n) /\ Recovered(R[m])
        BY <3>1, ReadStep, FramesTyped
      <4> QED BY <3>1, <4>1
    <3> HIDE DEF m, R
    <3> QED BY <2>1, <2>2, <3>1, <3>2, ReadFrameIs
  <2>3. CASE ~bad
    BY <2>1, <2>3
  <2> QED BY <2>2, <2>3
<1>6. bad => n * Units = Len(file)
  <2>1. bad => n \in 1 .. n /\ ~Passes(Frame(file, n))
    BY <1>1
  <2> HIDE DEF n, bad
  <2> QED BY <1>2, <2>1 DEF Fine
<1> DEFINE Places == {k \in DOMAIN file :
                        k + Units - 1 <= Len(file)
                        /\ SubSeq(file, k, k + Units - 1) = UnitsOf(file[k].rec)}
<1>7. ASSUME NEW i \in Places PROVE \E k \in 1 .. m : file[i].rec = RecordOf(file, k)
  <2>1. /\ i \in 1 .. Len(file) /\ i + Units - 1 <= Len(file)
        /\ \A p \in 1 .. Units : /\ i + p - 1 \in 1 .. Len(file)
                                 /\ file[i + p - 1].part = p
                                 /\ file[i + p - 1].rec = file[i].rec
    <3>1. /\ i \in DOMAIN file /\ i + Units - 1 <= Len(file)
          /\ SubSeq(file, i, i + Units - 1) = UnitsOf(file[i].rec)
      OBVIOUS
    <3> HIDE DEF Places
    <3>2. \A p \in 1 .. Units : /\ i + p - 1 \in 1 .. Len(file)
                                /\ file[i + p - 1].part = p
                                /\ file[i + p - 1].rec = file[i].rec
      BY <3>1, WholeRecordAt
    <3> QED BY <1>1, <3>1, <3>2
  <2> HIDE DEF Places
  <2>2. ~(n * Units < i)
    BY <1>1, <2>1
  <2>3. PICK k \in 1 .. n, c \in 1 .. Units : i = (k - 1) * Units + c
    <3> HIDE DEF n
    <3> QED BY <2>1, <2>2, FrameAt DEF n
  <2>4. /\ Frame(file, k) \in [1 .. Units -> Unit]
        /\ \A p \in 1 .. Units : Frame(file, k)[p] = file[(k - 1) * Units + p]
    BY <2>3, FrameUnits
  <2>5. file[i].part = 1
    <3>1. 1 \in 1 .. Units /\ i + 1 - 1 = i
      BY <1>1, <2>1
    <3> QED BY <2>1, <3>1
  <2>6. c = 1
    <3>1. CASE k \in 1 .. m
      <4>1. Frame(file, k)[c].part = c
        BY <1>4, <2>3, <2>4, <3>1, PassesPointwise
      <4> QED BY <2>3, <2>4, <2>5, <4>1
    <3>2. CASE k \notin 1 .. m
      <4>1. bad /\ k = n
        BY <1>1, <2>3, <3>2
      <4> DEFINE b == (k - 1) * Units
                 d == n * Units
      <4>2. /\ b \in Nat /\ d = b + Units /\ d = Len(file) /\ i = b + c
            /\ i + Units - 1 <= Len(file) /\ Units \in Nat \ {0}
        <5> HIDE DEF n, bad
        <5> QED BY <1>1, <1>6, <2>1, <2>3, <4>1
      <4> HIDE DEF b, d
      <4> QED BY <4>2
    <3> QED BY <3>1, <3>2
  <2>7. \A p \in 1 .. Units :
          Frame(file, k)[p].part = p /\ Frame(file, k)[p].rec = file[i].rec
    <3> SUFFICES ASSUME NEW p \in 1 .. Units
                 PROVE  Frame(file, k)[p].part = p /\ Frame(file, k)[p].rec = file[i].rec
      OBVIOUS
    <3>1. (k - 1) * Units + p = i + p - 1
      <4> DEFINE b == (k - 1) * Units
      <4>1. b \in Nat /\ i = b + 1 /\ p \in Nat
        BY <1>1, <2>3, <2>6
      <4> HIDE DEF b
      <4>2. b + p = i + p - 1
        BY <4>1
      <4> QED BY <4>2 DEF b
    <3>2. Frame(file, k)[p] = file[i + p - 1]
      BY <2>4, <3>1, Zenon
    <3>3. file[i + p - 1].part = p /\ file[i + p - 1].rec = file[i].rec
      BY <2>1
    <3> QED BY <3>2, <3>3, Zenon
  <2>8. RecordOf(file, k) = file[i].rec
    BY <1>1, <2>7 DEF RecordOf
  <2>9. Passes(Frame(file, k))
    BY <1>1, <2>4, <2>7, PassesPointwise
  <2>10. k \in 1 .. m
    BY <1>1, <2>3, <2>9
  <2> QED BY <2>8, <2>10
<1> DEFINE kept == {k \in 1 .. m : \E i \in Places : file[i].rec = RecordOf(file, k)}
           all  == WholeRecords(file)
           f    == [k \in kept |-> RecordOf(file, k)]
<1>8. all = {file[i].rec : i \in Places}
  BY DEF WholeRecords
<1> HIDE DEF Places, all, m, n, R, bad
<1>9. f \in Surjection(kept, all)
  <2>1. f \in [kept -> all]
    BY <1>8
  <2>2. ASSUME NEW t \in all PROVE \E k \in kept : f[k] = t
    <3>1. PICK i \in Places : t = file[i].rec
      BY <1>8
    <3>2. PICK k \in 1 .. m : file[i].rec = RecordOf(file, k)
      BY <1>7
    <3> QED BY <3>1, <3>2
  <2> QED BY <2>1, <2>2 DEF Surjection
<1>10. IsFiniteSet(1 .. m) /\ Cardinality(1 .. m) = m /\ m \in Nat
  <2>1. m \in Nat /\ 1 \in Int /\ m \in Int
    BY <1>1, <1>4
  <2>2. IsFiniteSet(1 .. m) /\ Cardinality(1 .. m) = IF 1 > m THEN 0 ELSE m - 1 + 1
    BY ONLY <2>1, FS_Interval
  <2> QED BY <2>1, <2>2
<1>11. IsFiniteSet(kept) /\ Cardinality(kept) <= m
  <2>1. kept \in SUBSET (1 .. m)
    OBVIOUS
  <2> HIDE DEF kept
  <2>2. IsFiniteSet(kept) /\ Cardinality(kept) <= Cardinality(1 .. m)
    BY <1>10, <2>1, FS_Subset
  <2> QED BY <1>10, <2>2
<1> HIDE DEF kept, f
<1>12. IsFiniteSet(all) /\ Cardinality(all) <= Cardinality(kept)
  BY <1>9, <1>11, FS_Surjection
<1>13. Cardinality(all) \in Nat /\ Cardinality(kept) \in Nat
  BY <1>11, <1>12, FS_CardinalityType
<1>14. Cardinality(all) <= m
  BY <1>10, <1>11, <1>12, <1>13
<1>15. Recover(file).read = m
  BY <1>2, <1>5
<1> QED BY <1>10, <1>13, <1>14, <1>15 DEF all

\* Each step keeps the records of an intact file numbered without a gap.
LEMMA NumberedStep ==
  ASSUME Shape, Numbered, [Next]_vars
  PROVE  Numbered'
<1> SUFFICES ASSUME Intact'
             PROVE  LET q == Recover(journal'.file)
                    IN  q.gaps = 0 /\ q.seq = q.read /\ (Up' => journal'.seq = q.read)
  BY DEF Numbered
<1>1. ASSUME NEW event \in Event,
             journal' = Write(journal, event) \/ journal' = Synced(Write(journal, event)),
             lost' = lost, Up
      PROVE  LET q == Recover(journal'.file)
             IN  q.gaps = 0 /\ q.seq = q.read /\ (Up' => journal'.seq = q.read)
  <2> DEFINE rec == RecordFor(journal, session, event)
             r == Recover(journal.file)
             q == Recover(journal'.file)
  <2>1. Grown(rec)
    BY <1>1, WriteGrows
  <2>2. /\ Intact /\ Recovered(r) /\ q.read = r.read + 1 /\ q.seq = rec.seq
        /\ q.gaps = IF r.seq # 0 /\ rec.seq # r.seq + 1 THEN r.gaps + 1 ELSE r.gaps
    BY <1>1, <2>1, GrownReads
  <2>3. r.gaps = 0 /\ r.seq = r.read /\ journal.seq = r.read
    BY <1>1, <2>2 DEF Numbered
  <2>4. rec.seq = journal.seq + 1 /\ journal'.seq = rec.seq
    BY <2>1 DEF Grown
  <2> HIDE DEF r, q, rec
  <2>5. q.gaps = 0 /\ q.seq = q.read /\ journal'.seq = q.read
    BY <2>2, <2>3, <2>4 DEF Recovered
  <2> QED BY <2>5 DEF q
<1>2. ASSUME UNCHANGED <<journal, lost>>, Up' => Up
      PROVE  LET q == Recover(journal'.file)
             IN  q.gaps = 0 /\ q.seq = q.read /\ (Up' => journal'.seq = q.read)
  <2>1. Intact /\ journal' = journal
    BY <1>2 DEF Intact
  <2> QED BY <1>2, <2>1 DEF Numbered
<1>3. ASSUME NEW asked \in BOOLEAN, Start(asked)
      PROVE  LET q == Recover(journal'.file)
             IN  q.gaps = 0 /\ q.seq = q.read /\ (Up' => journal'.seq = q.read)
  <2> DEFINE r == Recover(journal.file)
             q == Recover(journal'.file)
  <2>1. /\ Intact /\ Recovered(r)
        /\ \/ q = r /\ (Up' => journal'.seq = r.read)
           \/ /\ ~Up' /\ q.read = r.read + 1 /\ q.seq = r.read + 1
              /\ q.gaps = IF r.seq # 0 /\ r.read + 1 # r.seq + 1 THEN r.gaps + 1 ELSE r.gaps
    BY <1>3, StartReads, Zenon
  <2>2. r.gaps = 0 /\ r.seq = r.read
    BY <2>1 DEF Numbered
  <2> HIDE DEF r, q
  <2>3. q.gaps = 0 /\ q.seq = q.read /\ (Up' => journal'.seq = q.read)
    BY <2>1, <2>2
  <2> QED BY <2>3 DEF q
<1>4. ASSUME RecordSessionStart
      PROVE  LET q == Recover(journal'.file)
             IN  q.gaps = 0 /\ q.seq = q.read /\ (Up' => journal'.seq = q.read)
  BY <1>1, <1>4, EventsTyped DEF RecordSessionStart, history, Up
<1>5. ASSUME NEW s \in Symbol, NEW d \in Sides, NEW quantity \in 1 .. MaxQuantity,
             Decide(s, d, quantity)
      PROVE  LET q == Recover(journal'.file)
             IN  q.gaps = 0 /\ q.seq = q.read /\ (Up' => journal'.seq = q.read)
  <2>1. OrderSent(oms.next, s, d, quantity) \in Event
    BY <1>5, Parts, DecideGives, EventsTyped
  <2> QED BY <1>1, <1>5, <2>1 DEF Decide, history, Up
<1>6. ASSUME Deliver
      PROVE  LET q == Recover(journal'.file)
             IN  q.gaps = 0 /\ q.seq = q.read /\ (Up' => journal'.seq = q.read)
  <2>1. ExecReport(Head(wire)) \in Event
    BY <1>6, HeadTaken, EventsTyped DEF Deliver
  <2> QED BY <1>1, <1>6, <2>1 DEF Deliver, history, Up
<1>7. ~DeliverUnwritten
  BY DEF DeliverUnwritten, Intact
<1>8. ASSUME CheckpointNext
      PROVE  LET q == Recover(journal'.file)
             IN  q.gaps = 0 /\ q.seq = q.read /\ (Up' => journal'.seq = q.read)
  <2>1. Checkpoint(marked, held[marked]) \in Event
    BY <1>8, EventsTyped DEF CheckpointNext, Shape, ProcessTyped
  <2> QED BY <1>1, <1>8, <2>1 DEF CheckpointNext, history, Up
<1>9. ASSUME End
      PROVE  LET q == Recover(journal'.file)
             IN  q.gaps = 0 /\ q.seq = q.read /\ (Up' => journal'.seq = q.read)
  BY <1>1, <1>9, EventsTyped DEF End, history, Up
<1>10. ASSUME ProcessCrash \/ TornWrite \/ PowerLoss
       PROVE  LET q == Recover(journal'.file)
              IN  q.gaps = 0 /\ q.seq = q.read /\ (Up' => journal'.seq = q.read)
  BY <1>10, CrashGives DEF Numbered, Alike
<1>11. ASSUME UNCHANGED <<pc, journal, lost>>
       PROVE  LET q == Recover(journal'.file)
              IN  q.gaps = 0 /\ q.seq = q.read /\ (Up' => journal'.seq = q.read)
  BY <1>2, <1>11 DEF Up
<1>12. ASSUME Submit
       PROVE  LET q == Recover(journal'.file)
              IN  q.gaps = 0 /\ q.seq = q.read /\ (Up' => journal'.seq = q.read)
  BY <1>2, <1>12 DEF Submit, Up
<1> QED
  BY <1>3, <1>4, <1>5, <1>6, <1>7, <1>8, <1>9, <1>10, <1>11, <1>12
  DEF Next, vars, history, VenueExecutes, VenueCancels

\* An empty file gives nothing.
LEMMA NothingToRead ==
  ASSUME NEW file \in Seq(Unit), Len(file) = 0
  PROVE  Alike(Recover(file), NothingRecovered)
<1>1. Whole(file) = 0
  <2>1. Whole(file) \in Nat /\ Whole(file) * Units <= 0 /\ Units \in Nat \ {0}
    BY FramesFit, UnitsType
  <2>2. 0 < Whole(file) => 0 * Units + Units <= Whole(file) * Units
    BY <2>1, Multiples
  <2>3. Whole(file) * Units \in Nat
    BY <2>1, Multiples
  <2> HIDE DEF Whole
  <2> QED BY <2>1, <2>2, <2>3
<1> QED BY <1>1, RecoverIs, ReadStep

\* Recovery tells of a record it did not read, and takes no restart for a lost record,
\* whatever the crashes left of the file.
THEOREM RecoveryTellsWhatIsWrong == Spec => []RecoveryIsHonest
<1>1. Init => Numbered
  <2> SUFFICES ASSUME Init PROVE Numbered
    OBVIOUS
  <2> DEFINE file == << >>
  <2>1. journal.file = file /\ file \in Seq(Unit) /\ Len(file) = 0 /\ ~Up
    BY EmptySeq DEF Init, Up
  <2> HIDE DEF file
  <2>3. Alike(Recover(file), NothingRecovered)
    BY <2>1, NothingToRead
  <2> QED BY <2>1, <2>3 DEF Numbered, Alike, NothingRecovered
<1>2. Shape /\ Numbered /\ [Next]_vars => Numbered'
  BY NumberedStep
<1>3. Shape /\ Numbered => RecoveryIsHonest
  <2> SUFFICES ASSUME Shape, Numbered
               PROVE  LET r == Recover(journal.file)
                      IN  /\ r.read < Cardinality(WholeRecords(journal.file)) => r.corrupt > 0
                          /\ r.gaps > 0 => lost \/ r.corrupt > 0
    BY DEF RecoveryIsHonest
  <2> DEFINE r == Recover(journal.file)
             whole == Cardinality(WholeRecords(journal.file))
  <2>1. journal.file \in Seq(Unit)
    BY Parts
  <2>2. Recovered(r)
    BY <2>1, RecoverIs
  <2>3. r.corrupt = 0 => ~(r.read < whole)
    BY <2>1, WholeRecordsAreRead
  <2>4. ~lost /\ r.corrupt = 0 => r.gaps = 0
    BY DEF Numbered, Intact
  <2> HIDE DEF r, whole
  <2>5. r.corrupt > 0 <=> r.corrupt # 0
    BY <2>2 DEF Recovered
  <2>6. /\ r.read < whole => r.corrupt > 0
        /\ r.gaps > 0 => lost \/ r.corrupt > 0
    BY <2>3, <2>4, <2>5
  <2> QED BY <2>6 DEF r, whole
<1> QED BY <1>1, <1>2, <1>3, ShapeHolds, PTL DEF Spec

-----------------------------------------------------------------------------
(***************************************************************************)
(* Ids.                                                                    *)
(***************************************************************************)

\* Only an order sent brings an id.
LEMMA OtherEvents ==
  ASSUME NEW r, NEW event, event.type # "OrderSent"
  PROVE  /\ NextAfter(r, event) = r.next
         /\ DOMAIN OrdersAfter(r, event) = DOMAIN r.order
         /\ event.type # "ExecReport" => OrdersAfter(r, event) = r.order
BY DEF NextAfter, OrdersAfter, AfterReport

\* A record of anything else leaves the ids on record as they are.
LEMMA OtherWrites ==
  ASSUME Shape, NEW event \in Event, event.type # "OrderSent",
         journal' = Write(journal, event) \/ journal' = Synced(Write(journal, event)),
         lost' = lost, Intact'
  PROVE  LET r == Recover(journal.file)
             q == Recover(journal'.file)
         IN  /\ Intact /\ q.next = r.next /\ DOMAIN q.order = DOMAIN r.order
             /\ event.type # "ExecReport" => q.order = r.order
<1> DEFINE rec == RecordFor(journal, session, event)
           r   == Recover(journal.file)
           q   == Recover(journal'.file)
<1>1. Grown(rec) /\ rec.event = event
  BY WriteGrows
<1>2. /\ Intact /\ q.order = OrdersAfter(r, rec.event) /\ q.next = NextAfter(r, rec.event)
  BY <1>1, GrownReads
<1> HIDE DEF r, q, rec
<1>3. /\ q.next = r.next /\ DOMAIN q.order = DOMAIN r.order
      /\ event.type # "ExecReport" => q.order = r.order
  BY <1>1, <1>2, OtherEvents
<1> QED BY <1>2, <1>3 DEF r, q

\* An order is sent under an id that no record has.
LEMMA DecideWrites ==
  ASSUME Shape, NEW s \in Symbol, NEW d \in Sides, NEW quantity \in 1 .. MaxQuantity,
         Decide(s, d, quantity), Intact'
  PROVE  LET r == Recover(journal.file)
             q == Recover(journal'.file)
         IN  /\ Intact /\ Recovered(r) /\ q.next = IF oms.next > r.next THEN oms.next ELSE r.next
             /\ q.order = WithOrder(r.order, oms.next, s, d, quantity)
<1> DEFINE event == OrderSent(oms.next, s, d, quantity)
           rec == RecordFor(journal, session, event)
           r   == Recover(journal.file)
           q   == Recover(journal'.file)
<1>1. event \in Event /\ journal' = Write(journal, event) /\ lost' = lost
  BY Parts, DecideGives, EventsTyped DEF Decide, history
<1>2. /\ event.type = "OrderSent" /\ event.id = oms.next /\ event.symbol = s
      /\ event.side = d /\ event.quantity = quantity
  BY DEF OrderSent
<1> HIDE DEF event
<1>3. Grown(rec) /\ rec.event = event
  BY <1>1, WriteGrows
<1>4. /\ Intact /\ Recovered(r) /\ q.order = OrdersAfter(r, rec.event)
      /\ q.next = NextAfter(r, rec.event)
  BY <1>1, <1>3, GrownReads
<1> HIDE DEF r, q, rec
<1>5. /\ q.next = IF oms.next > r.next THEN oms.next ELSE r.next
      /\ q.order = WithOrder(r.order, oms.next, s, d, quantity)
  BY <1>2, <1>3, <1>4 DEF OrdersAfter, NextAfter
<1> QED BY <1>4, <1>5 DEF r, q

\* No report moves the ids.
LEMMA ApplyLeavesIds ==
  ASSUME NEW o, IInv(o), NEW rep, ReadableReport(rep)
  PROVE  Apply(o, rep).next = o.next
<1>1. CASE Applies(o, rep)
  <2> DEFINE n == Apply(o, rep)
  <2>1. \E more : MovesOn(o, n, rep.id, more)
    BY <1>1, TakenMovesOn
  <2> QED BY <2>1 DEF MovesOn, Within
<1>2. CASE ~Applies(o, rep)
  BY <1>2, RefusedIsCounted DEF IInv, Sound
<1> QED BY <1>1, <1>2

\* Each step keeps the highest id on record above those the venue was given.
LEMMA IdsOnRecordStep ==
  ASSUME Shape, FreshIds, [Next]_vars
  PROVE  IdsOnRecord'
<1> DEFINE r == Recover(journal.file)
           q == Recover(journal'.file)
           IdsOk == /\ DOMAIN q.order \subseteq 0 .. q.next
                    /\ \A i \in sent' : i <= q.next
                    /\ Up' => q.next < oms'.next
                    /\ pc' = "sending" => q.next = Sending'
<1> SUFFICES ASSUME Intact' PROVE IdsOk
  BY DEF IdsOnRecord
<1>0. /\ oms.next \in Nat \ {0} /\ Recovered(r) /\ r.next \in Nat /\ DOMAIN venue \subseteq Nat
  <2>1. journal.file \in Seq(Unit)
    BY Parts
  <2> QED BY <2>1, Parts, RecoverIs DEF Recovered
<1>1. Intact => /\ DOMAIN r.order \subseteq 0 .. r.next
                /\ \A i \in sent : i <= r.next
                /\ Up => r.next < oms.next
                /\ pc = "sending" => r.next = Sending
  BY DEF FreshIds, IdsOnRecord
<1>2. ASSUME Intact, q.next = r.next, DOMAIN q.order = DOMAIN r.order, sent' = sent,
             Up' => Up /\ oms'.next = oms.next, pc' = "sending" => pc = "sending"
      PROVE  IdsOk
  <2> HIDE DEF r, q
  <2> QED BY <1>0, <1>1, <1>2 DEF Sending, Up
<1>3. ASSUME UNCHANGED <<journal, oms, sent, lost>>, Up' => Up, pc' = "sending" => pc = "sending"
      PROVE  IdsOk
  <2>1. Intact /\ q = r
    BY <1>3 DEF Intact
  <2> QED BY <1>2, <1>3, <2>1
<1>4. ASSUME NEW event \in Event, event.type # "OrderSent", UNCHANGED <<sent, lost>>,
             journal' = Write(journal, event) \/ journal' = Synced(Write(journal, event)),
             Up' => Up /\ oms'.next = oms.next, pc' = "sending" => pc = "sending"
      PROVE  IdsOk
  BY <1>2, <1>4, OtherWrites
<1>5. ASSUME NEW asked \in BOOLEAN, Start(asked) PROVE IdsOk
  <2>1. Intact /\ q.order = r.order /\ q.next = r.next /\ ~Up
    BY <1>5, StartReads, Zenon
  <2>2. /\ sent' = sent
        /\ \/ pc' = "refused"
           \/ pc' = "opening" /\ r.next < oms'.next
    BY <1>5, StartGives, Zenon
  <2> HIDE DEF r, q
  <2> QED BY <1>1, <2>1, <2>2 DEF Up
<1>6. ASSUME RecordSessionStart PROVE IdsOk
  <2>1. SessionStart \in Event /\ SessionStart.type # "OrderSent"
    BY EventsTyped DEF SessionStart
  <2> HIDE DEF IdsOk
  <2> QED BY <1>4, <1>6, <2>1 DEF RecordSessionStart, history, process, Up
<1>7. ASSUME NEW s \in Symbol, NEW d \in Sides, NEW quantity \in 1 .. MaxQuantity,
             Decide(s, d, quantity)
      PROVE  IdsOk
  <2>1. /\ Intact /\ q.next = IF oms.next > r.next THEN oms.next ELSE r.next
        /\ q.order = WithOrder(r.order, oms.next, s, d, quantity)
    BY <1>7, DecideWrites
  <2>2. oms'.next = oms.next + 1 /\ sent' = sent /\ Up
    BY <1>7, DecideGives DEF Decide, history, Up
  <2> HIDE DEF r, q
  <2>3. DOMAIN q.order \subseteq DOMAIN r.order \cup {oms.next}
    BY <2>1 DEF WithOrder
  <2>4. q.next = oms.next /\ r.next < oms.next
    BY <1>0, <1>1, <2>1, <2>2
  <2>5. Sending' = oms.next
    BY <1>0, <2>2 DEF Sending
  <2>6. DOMAIN q.order \subseteq 0 .. q.next
    BY <1>0, <1>1, <2>1, <2>3, <2>4
  <2>7. \A i \in sent' : i <= q.next
    <3>1. sent \subseteq Nat
      BY DEF Shape, MarketTyped
    <3> QED BY <1>0, <1>1, <2>1, <2>2, <2>4, <3>1
  <2> QED BY <1>0, <2>2, <2>4, <2>5, <2>6, <2>7
<1>8. ASSUME Submit PROVE IdsOk
  <2>1. /\ pc = "sending" /\ pc' = "idle" /\ UNCHANGED <<journal, oms, lost>>
        /\ sent' = sent \cup {Sending} /\ Up
    BY <1>8 DEF Submit, process, Up
  <2>2. Intact /\ q = r
    BY <2>1 DEF Intact
  <2> HIDE DEF r, q
  <2> QED BY <1>0, <1>1, <2>1, <2>2 DEF Sending
<1>9. ASSUME Deliver PROVE IdsOk
  <2>1. ExecReport(Head(wire)) \in Event /\ ExecReport(Head(wire)).type # "OrderSent"
    BY <1>9, HeadTaken, EventsTyped DEF Deliver, ExecReport
  <2>2. oms'.next = oms.next
    BY <1>9, HeadTaken, Parts, ApplyLeavesIds DEF Deliver
  <2> HIDE DEF IdsOk
  <2> QED BY <1>4, <1>9, <2>1, <2>2 DEF Deliver, history, Up
<1>10. ~DeliverUnwritten
  BY DEF DeliverUnwritten, Intact
<1>11. ASSUME CheckpointNext PROVE IdsOk
  <2>1. Checkpoint(marked, held[marked]) \in Event
        /\ Checkpoint(marked, held[marked]).type # "OrderSent"
    BY <1>11, EventsTyped DEF CheckpointNext, Shape, ProcessTyped, Checkpoint
  <2> HIDE DEF IdsOk
  <2> QED BY <1>4, <1>11, <2>1 DEF CheckpointNext, history, Up
<1>12. ASSUME End PROVE IdsOk
  <2>1. SessionEnd \in Event /\ SessionEnd.type # "OrderSent"
    BY EventsTyped DEF SessionEnd
  <2> HIDE DEF IdsOk
  <2> QED BY <1>4, <1>12, <2>1 DEF End, history, process, Up
<1>13. ASSUME ProcessCrash \/ TornWrite \/ PowerLoss PROVE IdsOk
  <2>1. /\ pc' = "down" /\ ~Up' /\ sent' = sent /\ Intact /\ Alike(q, r)
    BY <1>13, CrashGives
  <2> HIDE DEF r, q
  <2> QED BY <1>2, <2>1 DEF Alike
<1>14. ASSUME UNCHANGED <<pc, journal, process, history>> PROVE IdsOk
  <2> HIDE DEF IdsOk
  <2> QED BY <1>3, <1>14 DEF process, history, Up
<1> HIDE DEF IdsOk
<1> QED
  BY <1>5, <1>6, <1>7, <1>8, <1>9, <1>10, <1>11, <1>12, <1>13, <1>14
  DEF Next, vars, VenueExecutes, VenueCancels

\* Each step keeps the next id above them, and an id that is reused explained.
LEMMA IdsInUseStep ==
  ASSUME Shape, FreshIds, [Next]_vars
  PROVE  IdsInUse' /\ ReuseFollowsDamage'
<1>1. /\ oms.next \in Nat \ {0} /\ sent \subseteq Nat
      /\ reused \in BOOLEAN /\ overlooked \in BOOLEAN /\ lost \in BOOLEAN
  BY Parts DEF Shape, MarketTyped, ProcessTyped
<1>2. /\ ~lost /\ ~overlooked /\ Up => \A i \in sent : i < oms.next /\ (pc = "sending" => i < Sending)
      /\ reused => overlooked \/ lost
  BY DEF FreshIds, IdsInUse, ReuseFollowsDamage
<1>3. ASSUME UNCHANGED <<sent, reused, overlooked>>, lost => lost',
             Up' => Up /\ oms'.next = oms.next, pc' = "sending" => pc = "sending"
      PROVE  IdsInUse' /\ ReuseFollowsDamage'
  BY <1>1, <1>2, <1>3 DEF IdsInUse, ReuseFollowsDamage, Sending
<1>4. ASSUME NEW asked \in BOOLEAN, Start(asked) PROVE IdsInUse' /\ ReuseFollowsDamage'
  <2> DEFINE r == Recover(journal.file)
             corrupt == r.corrupt > 0
  <2>1. /\ UNCHANGED <<sent, reused, lost>> /\ r.next \in Nat /\ r.corrupt \in Nat
        /\ \/ pc' = "refused" /\ overlooked' = overlooked
           \/ /\ overlooked' = (overlooked \/ corrupt) /\ r.next < oms'.next
              /\ pc' \in {"opening", "refused"}
    BY <1>4, StartGives, Zenon DEF process
  <2>2. ~lost /\ ~corrupt => \A i \in sent : i <= r.next
    <3> SUFFICES ASSUME ~lost, ~corrupt PROVE \A i \in sent : i <= r.next
      OBVIOUS
    <3>1. r.corrupt = 0
      <4> HIDE DEF r
      <4> QED BY <2>1
    <3>2. Intact
      BY <3>1 DEF Intact
    <3> QED BY <3>2 DEF FreshIds, IdsOnRecord
  <2>3. Up' => pc' = "opening"
    BY <2>1 DEF Up
  <2>4. Up' => overlooked' = (overlooked \/ corrupt) /\ r.next < oms'.next
    BY <2>1 DEF Up
  <2>5. IInv(oms') /\ oms'.next \in Nat
    <3>1. IInv(oms')
      BY <1>4, ProcessStep DEF ProcessTyped
    <3> QED BY <3>1 DEF IInv, Sound, Typed
  <2> HIDE DEF r, corrupt
  <2>6. IdsInUse'
    <3> SUFFICES ASSUME ~lost', ~overlooked', Up' PROVE \A i \in sent' : i < oms'.next
      BY <2>3 DEF IdsInUse
    <3>1. ~lost /\ ~corrupt /\ r.next < oms'.next
      BY <1>1, <2>1, <2>4
    <3> QED BY <1>1, <2>1, <2>2, <2>5, <3>1
  <2>7. ReuseFollowsDamage'
    BY <1>1, <1>2, <2>1 DEF ReuseFollowsDamage
  <2> QED BY <2>6, <2>7
<1>5. ASSUME RecordSessionStart PROVE IdsInUse' /\ ReuseFollowsDamage'
  BY <1>3, <1>5 DEF RecordSessionStart, history, process, Up
<1>6. ASSUME NEW s \in Symbol, NEW d \in Sides, NEW quantity \in 1 .. MaxQuantity,
             Decide(s, d, quantity)
      PROVE  IdsInUse' /\ ReuseFollowsDamage'
  <2>1. /\ oms'.next = oms.next + 1 /\ Up /\ pc = "idle"
        /\ UNCHANGED <<sent, reused, overlooked, lost>>
    BY <1>6, DecideGives DEF Decide, history, Up
  <2>2. Sending' = oms.next
    BY <1>1, <2>1 DEF Sending
  <2> QED BY <1>1, <1>2, <2>1, <2>2 DEF IdsInUse, ReuseFollowsDamage
<1>7. ASSUME Submit PROVE IdsInUse' /\ ReuseFollowsDamage'
  <2> DEFINE again == Sending \in sent
  <2>1. /\ pc = "sending" /\ pc' = "idle" /\ Up /\ sent' = sent \cup {Sending}
        /\ reused' = (reused \/ again) /\ UNCHANGED <<oms, overlooked, lost>>
    BY <1>7 DEF Submit, process, Up
  <2>2. ~lost /\ ~overlooked => ~again
    BY <1>1, <1>2, <2>1 DEF Sending
  <2>3. IdsInUse'
    BY <1>1, <1>2, <2>1 DEF IdsInUse, Sending
  <2> HIDE DEF again
  <2>4. ReuseFollowsDamage'
    BY <1>1, <1>2, <2>1, <2>2 DEF ReuseFollowsDamage
  <2> QED BY <2>3, <2>4
<1>8. ASSUME Deliver \/ DeliverUnwritten PROVE IdsInUse' /\ ReuseFollowsDamage'
  <2>1. oms'.next = oms.next
    BY <1>8, HeadTaken, Parts, ApplyLeavesIds DEF Deliver, DeliverUnwritten
  <2> QED BY <1>3, <1>8, <2>1 DEF Deliver, DeliverUnwritten, history, Up
<1>9. ASSUME CheckpointNext PROVE IdsInUse' /\ ReuseFollowsDamage'
  BY <1>3, <1>9 DEF CheckpointNext, history, Up
<1>10. ASSUME End PROVE IdsInUse' /\ ReuseFollowsDamage'
  BY <1>3, <1>10 DEF End, history, process, Up
<1>11. ASSUME ProcessCrash \/ TornWrite \/ PowerLoss PROVE IdsInUse' /\ ReuseFollowsDamage'
  BY <1>3, <1>11, CrashGives
<1>12. ASSUME UNCHANGED <<pc, process, history>> PROVE IdsInUse' /\ ReuseFollowsDamage'
  BY <1>3, <1>12 DEF process, history, Up
<1> QED
  BY <1>4, <1>5, <1>6, <1>7, <1>8, <1>9, <1>10, <1>11, <1>12
  DEF Next, vars, VenueExecutes, VenueCancels

\* The next id stays above every one on record and above every one the venue was given,
\* as long as nothing was lost or overlooked.
LEMMA FreshIdsHold == Spec => []FreshIds
<1>1. Init => FreshIds
  <2> SUFFICES ASSUME Init PROVE FreshIds
    OBVIOUS
  <2> DEFINE file == << >>
  <2>1. /\ journal.file = file /\ file \in Seq(Unit) /\ Len(file) = 0 /\ ~Up
        /\ pc = "down" /\ sent = {} /\ ~reused
    BY EmptySeq DEF Init, Up
  <2>2. DOMAIN NothingRecovered.order = {}
    BY DEF NothingRecovered
  <2> HIDE DEF file
  <2>3. Alike(Recover(file), NothingRecovered)
    BY <2>1, NothingToRead
  <2>4. DOMAIN Recover(file).order = {}
    BY <2>2, <2>3 DEF Alike
  <2> QED BY <2>1, <2>4 DEF FreshIds, IdsOnRecord, IdsInUse, ReuseFollowsDamage
<1>2. Shape /\ FreshIds /\ [Next]_vars => FreshIds'
  BY IdsOnRecordStep, IdsInUseStep DEF FreshIds
<1> QED BY <1>1, <1>2, ShapeHolds, PTL DEF Spec

\* An id goes to the venue twice only after a session was let go ahead over records
\* that recovery called corrupt, or after records were lost.
THEOREM IdsAreReusedOnlyAfterDamage == Spec => []ReuseFollowsDamage
<1>1. FreshIds => ReuseFollowsDamage
  BY DEF FreshIds
<1> QED BY <1>1, FreshIdsHold, PTL

-----------------------------------------------------------------------------
(***************************************************************************)
(* Nothing live is untracked.                                              *)
(***************************************************************************)

\* What a report says was executed of order i.
Told(rep, i) == IF rep.id = i /\ rep.type = "Fill" THEN rep.quantity ELSE 0

\* Reports on the wire say so many lots, and none if there are none.
LEMMA Flight ==
  ASSUME NEW reps \in Seq(Said), NEW i
  PROVE  /\ InFlight(reps, i) \in Nat
         /\ (\A j \in DOMAIN reps : reps[j].id # i) => InFlight(reps, i) = 0
         /\ InFlight(<< >>, i) = 0
         /\ \A rep \in Said : /\ InFlight(Append(reps, rep), i) = InFlight(reps, i) + Told(rep, i)
                              /\ Told(rep, i) \in Nat
<1>1. \A rep \in Said : rep.quantity \in Nat
  BY DEF Said, Report
<1>2. InFlight(reps, i) \in Nat
  BY <1>1, LotsCounted
<1>3. (\A j \in DOMAIN reps : reps[j].id # i) => InFlight(reps, i) = 0
  BY NothingInFlight
<1>4. InFlight(<< >>, i) = 0
  BY NothingInFlight
<1>5. ASSUME NEW rep \in Said
      PROVE  /\ InFlight(Append(reps, rep), i) = InFlight(reps, i) + Told(rep, i)
             /\ Told(rep, i) \in Nat
  <2>1. InFlight(Append(reps, rep), i) =
          InFlight(reps, i) + (IF rep.id = i /\ rep.type = "Fill" THEN rep.quantity ELSE 0)
    BY <1>1, LotsAppended
  <2> QED BY <1>1, <2>1 DEF Told
<1> QED BY <1>2, <1>3, <1>4, <1>5

\* A report that is delivered takes what it says off the wire.
LEMMA HeadOffTheWire ==
  ASSUME Shape, wire # << >>, NEW i
  PROVE  InFlight(wire, i) = InFlight(Tail(wire), i) + Told(Head(wire), i)
<1>1. \A rep \in Said : rep.quantity \in Nat
  BY DEF Said, Report
<1>2. /\ wire \in Seq(Said) /\ 1 \in 1 .. Len(wire) /\ Head(wire) = wire[1]
      /\ Tail(wire) \in Seq(Said) /\ DOMAIN Tail(wire) = 1 .. Len(wire) - 1
      /\ \A j \in 1 .. Len(wire) - 1 : Tail(wire)[j] = wire[j + 1]
  BY Parts, HeadTaken
<1> DEFINE left == Tail(wire)
<1>3. \A j \in 1 .. Len(wire) - 1 : left[j] = IF j < 1 THEN wire[j] ELSE wire[j + 1]
  BY <1>2
<1> HIDE DEF left
<1>4. left \in Seq(Said) /\ DOMAIN left = 1 .. Len(wire) - 1
  BY <1>2 DEF left
<1>5. LET taken == IF wire[1].id = i /\ wire[1].type = "Fill" THEN wire[1].quantity ELSE 0
      IN  InFlight(wire, i) = InFlight(left, i) + taken
  BY ONLY <1>1, <1>2, <1>3, <1>4, LotsTaken
<1> QED BY <1>2, <1>5 DEF Told, left

\* What records n make of a report that records order had: an order works on with no
\* more filled than it says, unless it is cancelled or filled up by the report.
Takes(order, n, rep) ==
  \A i \in Nat, q \in Nat :
    /\ Works(order, i, q)
    /\ i = rep.id => /\ rep.type # "Cancelled"
                     /\ rep.type = "Fill" => order[i].filled + rep.quantity < q
    => Works(n, i, q) /\ n[i].filled <= order[i].filled + Told(rep, i)

\* The orders the order manager works on are works of its records.
LEMMA WorksHere ==
  ASSUME NEW o, IInv(o), NEW i
  PROVE  /\ i \in Working(o) => Works(o.order, i, o.order[i].quantity)
         /\ \A q : Works(o.order, i, q) =>
              /\ i \in Working(o) /\ i \in Nat /\ i < o.next
              /\ o.order[i].quantity = q
              /\ o.order[i].leaves = q - o.order[i].filled
<1>1. /\ Typed(o) /\ Tracked(o) \subseteq Nat \ {0} /\ \A j \in Tracked(o) : j < o.next
      /\ \A j \in Tracked(o) : o.order[j] \in OrderRecord
      /\ \A j \in Tracked(o) : o.order[j].state \in Live =>
           o.order[j].leaves = o.order[j].quantity - o.order[j].filled
  BY DEF IInv, Sound, Typed, Settled
<1>2. \A a \in OrderRecord : DOMAIN a = OrderFields /\ a.filled \in Nat
  BY DEF OrderRecord, OrderFields
<1> QED BY <1>1, <1>2 DEF Works, Working, Tracked

\* The order manager takes its reports so.
LEMMA ApplyTakes ==
  ASSUME NEW o, IInv(o), NEW rep \in Said, ReadableReport(rep)
  PROVE  Takes(o.order, Apply(o, rep).order, rep)
<1> DEFINE n == Apply(o, rep)
           x == rep.id
<1>1. rep.type \in {"Acked", "Cancelled", "Fill"} /\ rep.quantity \in Nat
  BY DEF Said, Report
<1>2. Typed(o) /\ IInv(n)
  BY ApplyKeeps DEF IInv, Sound
<1> SUFFICES ASSUME NEW i \in Nat, NEW q \in Nat, Works(o.order, i, q),
                    i = x => /\ rep.type # "Cancelled"
                             /\ rep.type = "Fill" => o.order[i].filled + rep.quantity < q
             PROVE  Works(n.order, i, q) /\ n.order[i].filled <= o.order[i].filled + Told(rep, i)
  BY DEF Takes
<1>3. i \in Working(o) /\ o.order[i].quantity = q /\ o.order[i].filled \in Nat
  BY WorksHere DEF Works
<1>4. Told(rep, i) \in Nat
  BY <1>1 DEF Told
<1>5. CASE ~Applies(o, rep)
  <2>1. n.order = o.order
    BY <1>2, <1>5, RefusedIsCounted
  <2> HIDE DEF n
  <2> QED BY <1>3, <1>4, <2>1
<1>6. CASE Applies(o, rep)
  <2> DEFINE more == IF rep.type = "Fill" THEN rep.quantity ELSE 0
  <2>1. /\ MovesOn(o, n, x, more)
        /\ rep.type = "Acked" => x \in Working(n)
        /\ o.order[x].filled + more < o.order[x].quantity =>
             x \in Working(n) \/ rep.type = "Cancelled"
    BY <1>1, <1>6, TakenMovesOn
  <2> HIDE DEF n, more
  <2>2. CASE i # x
    <3>1. i \in Working(n)
      BY <1>3, <2>1, <2>2 DEF MovesOn
    <3>2. n.order[i] = o.order[i]
      BY <2>1, <2>2, <3>1 DEF MovesOn, Within, Working
    <3>3. Works(n.order, i, n.order[i].quantity)
      BY <1>2, <3>1, WorksHere
    <3> QED BY <1>3, <1>4, <3>2, <3>3
  <2>3. CASE i = x
    <3>1. more \in Nat /\ more = Told(rep, i)
      BY <1>1, <2>3 DEF Told, more
    <3>2. n.order[i].quantity = q /\ n.order[i].filled = o.order[i].filled + more
      BY <1>3, <2>1, <2>3 DEF MovesOn
    <3>3. i \in Working(n)
      BY <1>1, <1>3, <2>1, <2>3 DEF more
    <3>4. Works(n.order, i, n.order[i].quantity)
      BY <1>2, <3>3, WorksHere
    <3> QED BY <1>3, <3>1, <3>2, <3>4
  <2> QED BY <2>2, <2>3
<1> QED BY <1>5, <1>6

\* What a report makes of one order it is for.
LEMMA ReportedIs ==
  ASSUME NEW a, DOMAIN a = OrderFields, a.state \in Live, a.filled \in Nat, a.quantity \in Nat,
         NEW rep \in Said, rep.type # "Cancelled",
         rep.type = "Fill" => a.filled + rep.quantity < a.quantity
  PROVE  LET b == Reported(a, rep)
         IN  /\ DOMAIN b = OrderFields /\ b.state \in Live /\ b.quantity = a.quantity
             /\ b.filled = a.filled + (IF rep.type = "Fill" THEN rep.quantity ELSE 0)
<1> DEFINE b == Reported(a, rep)
<1>1. rep.type \in {"Acked", "Fill"} /\ rep.quantity \in Nat
  BY DEF Said, Report
<1>2. CASE rep.type = "Acked"
  <2>1. b = [a EXCEPT !.state = "New"]
    BY <1>2 DEF Reported
  <2> HIDE DEF b
  <2>2. DOMAIN b = OrderFields /\ b.state \in Live /\ b.quantity = a.quantity /\ b.filled = a.filled
    BY <2>1 DEF OrderFields, Live
  <2> QED BY <1>2, <2>2 DEF b
<1>3. CASE rep.type = "Fill"
  <2> DEFINE left == LeavesAfter(a, rep.quantity)
             next == IF left = 0 THEN "Filled"
                     ELSE IF a.state = "PendingCancel" THEN a.state ELSE "PartiallyFilled"
             done == a.filled + rep.quantity
  <2>1. b = [a EXCEPT !.filled = done, !.leaves = left, !.state = next]
    BY <1>3 DEF Reported
  <2>2. left # 0
    BY <1>1, <1>3 DEF LeavesAfter, AtLeastZero
  <2>3. next \in Live
    BY <2>2 DEF Live
  <2> HIDE DEF b, left, next, done
  <2>4. DOMAIN b = OrderFields /\ b.state \in Live /\ b.quantity = a.quantity /\ b.filled = done
    BY <2>1, <2>3 DEF OrderFields
  <2> QED BY <1>3, <2>4 DEF done, b
<1> QED BY <1>1, <1>2, <1>3

\* And so does the replay.
LEMMA ReplayTakes ==
  ASSUME NEW r, NEW rep \in Said
  PROVE  Takes(r.order, AfterReport(r, rep), rep)
<1> DEFINE order == r.order
           n == AfterReport(r, rep)
           x == rep.id
<1>1. rep.type \in {"Acked", "Cancelled", "Fill"} /\ rep.quantity \in Nat
  BY DEF Said, Report
<1> SUFFICES ASSUME NEW i \in Nat, NEW q \in Nat, Works(order, i, q),
                    i = x => /\ rep.type # "Cancelled"
                             /\ rep.type = "Fill" => order[i].filled + rep.quantity < q
             PROVE  Works(n, i, q) /\ n[i].filled <= order[i].filled + Told(rep, i)
  BY DEF Takes
<1>2. /\ i \in DOMAIN order /\ order[i].state \in Live /\ DOMAIN order[i] = OrderFields
      /\ order[i].quantity = q /\ order[i].filled \in Nat
  BY DEF Works
<1>3. Told(rep, i) \in Nat
  BY <1>1 DEF Told
<1>4. n = order \/ n = [order EXCEPT ![x] = Reported(order[x], rep)]
  BY DEF AfterReport
<1> HIDE DEF order, n
<1>5. CASE i # x \/ n = order
  <2>1. i \in DOMAIN n /\ n[i] = order[i]
    BY <1>2, <1>4, <1>5
  <2> QED BY <1>2, <1>3, <2>1 DEF Works
<1>6. CASE i = x /\ n = [order EXCEPT ![x] = Reported(order[x], rep)]
  <2> DEFINE a == order[i]
             b == Reported(a, rep)
  <2>1. i \in DOMAIN n /\ n[i] = b
    BY <1>2, <1>6
  <2>2. /\ DOMAIN a = OrderFields /\ a.state \in Live /\ a.filled \in Nat /\ a.quantity \in Nat
        /\ a.quantity = q
        /\ rep.type # "Cancelled" /\ (rep.type = "Fill" => a.filled + rep.quantity < a.quantity)
    BY <1>2, <1>6
  <2> HIDE DEF a
  <2>3. /\ DOMAIN b = OrderFields /\ b.state \in Live /\ b.quantity = a.quantity
        /\ b.filled = a.filled + (IF rep.type = "Fill" THEN rep.quantity ELSE 0)
    BY <2>2, ReportedIs
  <2> HIDE DEF b
  <2>4. b.filled \in Nat /\ b.filled <= a.filled + Told(rep, i)
    BY <1>1, <1>6, <2>2, <2>3 DEF Told
  <2> QED BY <2>1, <2>2, <2>3, <2>4 DEF Works, a
<1> QED BY <1>4, <1>5, <1>6

\* Records that take the report at the head of the wire go on covering what is live.
LEMMA TakingCovers ==
  ASSUME Shape, wire # << >>, NEW order, NEW n, Takes(order, n, Head(wire)),
         NEW k \in LiveThere, Covers(order, wire, venue[k]),
         Head(wire).type = "Cancelled" => venue[k].id # Head(wire).id
  PROVE  Covers(n, Tail(wire), venue[k])
<1> DEFINE vo  == venue[k]
           rep == Head(wire)
           i   == vo.id
           a   == InFlight(wire, i)
           b   == InFlight(Tail(wire), i)
           c   == Told(rep, i)
<1>1. vo \in VenueOrder /\ WellBooked(vo) /\ vo.leaves > 0
  BY Parts DEF LiveThere
<1>2. /\ i \in Nat /\ vo.quantity \in Nat /\ vo.filled \in Nat
      /\ vo.filled + vo.leaves = vo.quantity /\ vo.leaves \in Nat \ {0}
  BY <1>1 DEF VenueOrder, WellBooked
<1>3. Tail(wire) \in Seq(Said) /\ rep \in Said
  BY HeadTaken
<1>4. a = b + c
  BY HeadOffTheWire
<1>5. b \in Nat /\ c \in Nat
  BY <1>3, Flight
<1>6. Works(order, i, vo.quantity) /\ order[i].filled + a <= vo.filled /\ order[i].filled \in Nat
  BY DEF Covers, Works
<1>7. rep.type = "Fill" /\ i = rep.id => c = rep.quantity
  BY DEF Told
<1> DEFINE q == vo.quantity
           l == vo.filled
           f == order[i].filled
           g == n[i].filled
<1> HIDE DEF a, b, c
<1>8. f + c < q
  <2>1. q \in Nat /\ l \in Nat /\ f \in Nat /\ l < q /\ f + a <= l
    BY <1>2, <1>6
  <2> HIDE DEF f, q, l
  <2> QED BY <1>4, <1>5, <2>1
<1>9. i = rep.id => /\ rep.type # "Cancelled"
                    /\ rep.type = "Fill" => f + rep.quantity < q
  <2> HIDE DEF f, q
  <2>1. rep.type = "Fill" /\ i = rep.id => f + rep.quantity < q
    BY <1>7, <1>8, Zenon
  <2> QED BY <2>1
<1>10. Works(n, i, q) /\ g <= f + c
  <2>1. Works(order, i, q) /\ i \in Nat /\ q \in Nat
    BY <1>2, <1>6
  <2> HIDE DEF i, q, rep, vo
  <2> QED BY <1>9, <2>1 DEF Takes, c, rep
<1>11. g + b <= l
  <2>1. f \in Nat /\ g \in Nat /\ f + a <= l /\ l \in Nat
    BY <1>2, <1>6, <1>10 DEF Works
  <2> HIDE DEF f, g, l
  <2> QED BY <1>4, <1>5, <1>10, <2>1
<1> QED BY <1>10, <1>11 DEF Covers, b


\* Records that cover an order do so when the reports on the wire are gone.
LEMMA SilenceCovers ==
  ASSUME NEW reps \in Seq(Said), NEW order, NEW vo \in VenueOrder, Covers(order, reps, vo)
  PROVE  Covers(order, << >>, vo)
<1> DEFINE i == vo.id
           f == order[i].filled
           a == InFlight(reps, i)
           l == vo.filled
<1>1. Works(order, i, vo.quantity) /\ f + a <= l
  BY DEF Covers
<1>2. f \in Nat /\ l \in Nat
  BY <1>1 DEF Works, VenueOrder
<1>3. a \in Nat /\ InFlight(<< >>, i) = 0
  BY Flight
<1> HIDE DEF f, a, l
<1>4. f + 0 <= l
  BY <1>1, <1>2, <1>3
<1> QED BY <1>1, <1>3, <1>4 DEF Covers, f, l

\* A step that moves no order, here or there, and of the wire takes all or nothing.
LEMMA QuietTracks ==
  ASSUME Shape, TrackedInv, ~lost,
         UNCHANGED <<venue, oms>>, wire' = wire \/ wire' = << >>,
         Up' => Up, pc' = "sending" => pc = "sending",
         Intact' => Intact /\ Recover(journal'.file).order = Recover(journal.file).order
  PROVE  OneEach' /\ CoveredHere' /\ CoveredInFile'
<1>1. OneEach /\ CoveredHere /\ CoveredInFile
  BY DEF TrackedInv
<1>2. /\ LiveThere' = LiveThere /\ LiveThere \subseteq DOMAIN venue
      /\ \A i : Known(i) => Known(i)'
  BY DEF LiveThere, Known, Sending
<1>3. /\ DOMAIN wire' \subseteq DOMAIN wire /\ \A j \in DOMAIN wire' : wire'[j] = wire[j]
  <2>1. CASE wire' = wire
    BY <2>1
  <2>2. CASE wire' = << >>
    BY <2>2
  <2> QED BY <2>1, <2>2
<1>4. ASSUME NEW order, NEW k \in LiveThere, Covers(order, wire, venue[k])
      PROVE  Covers(order, wire', venue'[k])
  <2>1. CASE wire' = wire
    BY <1>4, <2>1
  <2>2. CASE wire' = << >>
    <3>1. venue[k] \in VenueOrder /\ wire \in Seq(Said)
      BY <1>2, Parts
    <3> QED BY <1>4, <2>2, <3>1, SilenceCovers
  <2> QED BY <2>1, <2>2
<1>5. OneEach'
  BY <1>1, <1>2, <1>3 DEF OneEach
<1>6. CoveredHere'
  BY <1>1, <1>2, <1>4 DEF CoveredHere, Sending
<1>7. CoveredInFile'
  <2> DEFINE r == Recover(journal.file)
             q == Recover(journal'.file)
  <2> SUFFICES ASSUME Intact'
               PROVE  /\ \A k \in LiveThere' : Covers(q.order, wire', venue'[k])
                      /\ pc' = "sending" =>
                           /\ Works(q.order, Sending', oms'.order[Sending'].quantity)
                           /\ q.order[Sending'].filled = 0
    BY DEF CoveredInFile
  <2>1. Intact /\ q.order = r.order
    OBVIOUS
  <2>2. /\ \A k \in LiveThere : Covers(r.order, wire, venue[k])
        /\ pc = "sending" => /\ Works(r.order, Sending, oms.order[Sending].quantity)
                             /\ r.order[Sending].filled = 0
    BY <1>1, <2>1 DEF CoveredInFile
  <2> HIDE DEF q, r
  <2>3. \A k \in LiveThere' : Covers(q.order, wire', venue'[k])
    BY <1>2, <1>4, <2>1, <2>2
  <2>4. Sending' = Sending /\ oms' = oms
    BY DEF Sending
  <2> QED BY <2>1, <2>2, <2>3, <2>4
<1> QED BY <1>5, <1>6, <1>7

\* An order that is decided on is recorded here and in the file, and not yet there.
LEMMA DecideTracks ==
  ASSUME Shape, FreshIds, TrackedInv, ~lost,
         NEW s \in Symbol, NEW d \in Sides, NEW quantity \in 1 .. MaxQuantity,
         Decide(s, d, quantity)
  PROVE  OneEach' /\ CoveredHere' /\ CoveredInFile'
<1> DEFINE x == oms.next
<1>1. OneEach /\ CoveredHere /\ CoveredInFile
  BY DEF TrackedInv
<1>2. /\ pc = "idle" /\ pc' = "sending" /\ Up /\ Up' /\ UNCHANGED <<venue, wire, lost>>
  BY DEF Decide, market, history, Up
<1>3. /\ oms'.next = x + 1 /\ x \in Working(oms')
      /\ oms'.order[x].quantity = quantity /\ oms'.order[x].filled = 0
      /\ Tracked(oms) \subseteq Tracked(oms')
      /\ \A i \in Tracked(oms) : oms'.order[i] = oms.order[i]
      /\ quantity \in Nat \ {0} /\ x \in Nat \ {0}
  BY DecideGives, Parts
<1>4. /\ LiveThere' = LiveThere /\ LiveThere \subseteq DOMAIN venue /\ Sending' = x
      /\ \A k \in LiveThere : venue'[k] = venue[k] /\ venue[k].id \in Nat
      /\ \A j \in DOMAIN wire : wire[j].id \in Nat
  <2>1. Sending' = x
    BY <1>3 DEF Sending
  <2>2. \A k \in DOMAIN venue : venue[k].id \in Nat
    BY Parts DEF VenueOrder
  <2>3. \A j \in DOMAIN wire : wire[j].id \in Nat
    BY Parts DEF Said, Report
  <2> QED BY <1>2, <2>1, <2>2, <2>3 DEF LiveThere
<1>5. \A i \in Nat : Known(i) => Known(i)'
  BY <1>2, <1>3, <1>4 DEF Known
<1>6. OneEach'
  BY <1>1, <1>2, <1>4, <1>5 DEF OneEach
<1>7. CoveredHere'
  <2>1. ASSUME NEW k \in LiveThere PROVE Covers(oms'.order, wire, venue[k])
    <3>1. Covers(oms.order, wire, venue[k])
      BY <1>1, <1>2 DEF CoveredHere
    <3>2. venue[k].id \in Tracked(oms)
      BY <3>1 DEF Covers, Works, Tracked
    <3>3. venue[k].id \in DOMAIN oms'.order /\ oms'.order[venue[k].id] = oms.order[venue[k].id]
      BY <1>3, <3>2 DEF Tracked
    <3> QED BY <3>1, <3>3 DEF Covers, Works
  <2> QED BY <1>2, <1>3, <1>4, <2>1 DEF CoveredHere
<1>8. CoveredInFile'
  <2> DEFINE r == Recover(journal.file)
             q == Recover(journal'.file)
  <2> SUFFICES ASSUME Intact'
               PROVE  /\ \A k \in LiveThere : Covers(q.order, wire, venue[k])
                      /\ Works(q.order, x, quantity) /\ q.order[x].filled = 0
    BY <1>2, <1>3, <1>4 DEF CoveredInFile
  <2>1. /\ Intact /\ Recovered(r) /\ q.order = WithOrder(r.order, x, s, d, quantity)
    BY DecideWrites
  <2>2. DOMAIN r.order \subseteq 0 .. r.next /\ r.next < x
    BY <1>2, <2>1 DEF FreshIds, IdsOnRecord
  <2>3. \A k \in LiveThere : Covers(r.order, wire, venue[k])
    BY <1>1, <2>1 DEF CoveredInFile
  <2> HIDE DEF q, r
  <2>4. x \notin DOMAIN r.order
    BY <1>3, <2>1, <2>2 DEF Recovered
  <2> DEFINE a == [symbol |-> s, side |-> d, quantity |-> quantity, filled |-> 0,
                   leaves |-> quantity, state |-> "PendingNew", age |-> 0]
  <2>5. q.order = [i \in DOMAIN r.order \cup {x} |-> IF i = x THEN a ELSE r.order[i]]
    BY <1>3, <2>1, <2>4 DEF WithOrder
  <2>6. /\ DOMAIN a = OrderFields /\ a.state \in Live /\ a.quantity = quantity /\ a.filled = 0
    BY DEF OrderFields, Live
  <2> HIDE DEF a
  <2>7. q.order[x] = a /\ x \in DOMAIN q.order
    BY <2>5
  <2>8. \A i \in DOMAIN r.order : q.order[i] = r.order[i] /\ i \in DOMAIN q.order
    BY <2>4, <2>5
  <2>9. Works(q.order, x, quantity) /\ q.order[x].filled = 0
    BY <2>6, <2>7 DEF Works
  <2>10. ASSUME NEW k \in LiveThere PROVE Covers(q.order, wire, venue[k])
    <3>1. Covers(r.order, wire, venue[k])
      BY <2>3
    <3>2. venue[k].id \in DOMAIN r.order
      BY <3>1 DEF Covers, Works
    <3> QED BY <2>8, <3>1, <3>2 DEF Covers, Works
  <2> QED BY <2>9, <2>10
<1> QED BY <1>6, <1>7, <1>8

\* Records that hold the order in hand cover it once it is at the venue.
LEMMA SentCovers ==
  ASSUME Shape, Submit, OneEach, NEW order,
         \A k \in LiveThere : Covers(order, wire, venue[k]),
         Works(order, Sending, oms.order[Sending].quantity), order[Sending].filled = 0
  PROVE  \A k \in LiveThere' : Covers(order, wire', venue'[k])
<1>1. PICK vo \in VenueOrder, rep \in Said :
        /\ vo.id = Sending /\ vo.quantity = oms.order[Sending].quantity
        /\ vo.filled = 0 /\ vo.leaves = vo.quantity
        /\ rep.id = Sending /\ rep.type = "Acked"
        /\ venue' = Append(venue, vo) /\ wire' = Append(wire, rep)
  BY SubmitGives
<1>2. wire \in Seq(Said) /\ venue \in Seq(VenueOrder) /\ DOMAIN venue = 1 .. Len(venue)
      /\ Len(venue) \in Nat
  BY Parts
<1>3. \A i : InFlight(wire', i) = InFlight(wire, i)
  <2> TAKE i
  <2>1. InFlight(Append(wire, rep), i) = InFlight(wire, i) + Told(rep, i)
        /\ InFlight(wire, i) \in Nat
    BY <1>1, <1>2, Flight
  <2>2. Told(rep, i) = 0
    BY <1>1 DEF Told
  <2> QED BY <1>1, <2>1, <2>2
<1>4. InFlight(wire, Sending) = 0
  <2>1. \A j \in DOMAIN wire : wire[j].id # Sending
    BY DEF OneEach, Known, Submit, Up
  <2> QED BY <1>2, <2>1, Flight
<1>5. /\ DOMAIN venue' = 1 .. Len(venue) + 1
      /\ venue'[Len(venue) + 1] = vo
      /\ \A k \in DOMAIN venue : venue'[k] = venue[k]
  BY <1>1, <1>2
<1>6. ASSUME NEW k \in LiveThere' PROVE Covers(order, wire', venue'[k])
  <2>1. CASE k \in DOMAIN venue
    <3>1. k \in LiveThere /\ venue'[k] = venue[k]
      BY <1>5, <2>1 DEF LiveThere
    <3>2. Covers(order, wire, venue[k])
      BY <3>1
    <3> QED BY <1>3, <3>1, <3>2 DEF Covers
  <2>2. CASE k = Len(venue) + 1
    <3>1. venue'[k] = vo
      BY <1>5, <2>2
    <3>2. Works(order, vo.id, vo.quantity) /\ order[vo.id].filled + InFlight(wire, vo.id) = 0
      BY <1>1, <1>4
    <3> QED BY <1>1, <1>3, <3>1, <3>2 DEF Covers
  <2> QED BY <1>2, <1>5, <2>1, <2>2 DEF LiveThere
<1> QED BY <1>6

\* So the order that is sent is known, here and in the file.
LEMMA SubmitTracks ==
  ASSUME Shape, TrackedInv, ~lost, Submit
  PROVE  OneEach' /\ CoveredHere' /\ CoveredInFile'
<1>1. OneEach /\ CoveredHere /\ CoveredInFile
  BY DEF TrackedInv
<1>2. /\ pc = "sending" /\ pc' = "idle" /\ Up /\ Up'
      /\ UNCHANGED <<journal, oms, lost>>
  BY DEF Submit, process, Up
<1>3. PICK vo \in VenueOrder, rep \in Said :
        /\ vo.id = Sending /\ vo.quantity = oms.order[Sending].quantity
        /\ vo.filled = 0 /\ vo.leaves = vo.quantity
        /\ rep.id = Sending /\ rep.type = "Acked"
        /\ venue' = Append(venue, vo) /\ wire' = Append(wire, rep)
  BY SubmitGives
<1>4. /\ DOMAIN venue = 1 .. Len(venue) /\ Len(venue) \in Nat /\ venue \in Seq(VenueOrder)
      /\ DOMAIN wire = 1 .. Len(wire) /\ Len(wire) \in Nat /\ wire \in Seq(Said)
      /\ oms.next \in Nat \ {0} /\ IInv(oms) /\ Sending \in Working(oms)
  BY <1>2, Parts DEF Shape, ProcessTyped
<1>5. /\ DOMAIN venue' = 1 .. Len(venue) + 1
      /\ venue'[Len(venue) + 1] = vo
      /\ \A k \in DOMAIN venue : venue'[k] = venue[k]
      /\ DOMAIN wire' = 1 .. Len(wire) + 1
      /\ wire'[Len(wire) + 1] = rep
      /\ \A j \in DOMAIN wire : wire'[j] = wire[j]
  BY <1>3, <1>4
<1>6. /\ \A k \in LiveThere' : k \in LiveThere \/ k = Len(venue) + 1
      /\ \A k \in LiveThere : k \in DOMAIN venue /\ venue'[k] = venue[k]
  BY <1>4, <1>5 DEF LiveThere
<1>7. /\ \A k \in LiveThere : venue[k].id # Sending /\ venue[k].id < oms.next
      /\ \A j \in DOMAIN wire : wire[j].id # Sending /\ wire[j].id < oms.next
      /\ \A j, k \in LiveThere : venue[j].id = venue[k].id => j = k
      /\ \A j \in DOMAIN wire :
           wire[j].type = "Cancelled" => \A k \in LiveThere : venue[k].id # wire[j].id
  BY <1>1, <1>2 DEF OneEach, Known
<1>8. Sending < oms.next /\ \A i : i < oms.next => Known(i)'
  BY <1>2, <1>4 DEF Sending, Known
<1>9. OneEach'
  <2>1. \A j, k \in LiveThere' : venue'[j].id = venue'[k].id => j = k
    BY <1>3, <1>5, <1>6, <1>7
  <2>2. \A k \in LiveThere' : Known(venue[k].id)'
    BY <1>3, <1>5, <1>6, <1>7, <1>8
  <2>3. \A j \in DOMAIN wire' : j \in DOMAIN wire \/ j = Len(wire) + 1
    BY <1>4, <1>5
  <2>4. \A j \in DOMAIN wire' : Known(wire[j].id)'
    BY <1>3, <1>5, <1>7, <1>8, <2>3
  <2>5. ASSUME NEW j \in DOMAIN wire', wire'[j].type = "Cancelled", NEW k \in LiveThere'
        PROVE  venue'[k].id # wire'[j].id
    <3>1. j \in DOMAIN wire /\ wire'[j] = wire[j]
      BY <1>3, <1>5, <2>3, <2>5
    <3> QED BY <1>3, <1>5, <1>6, <1>7, <2>5, <3>1
  <2> QED BY <2>1, <2>2, <2>4, <2>5 DEF OneEach
<1>10. CoveredHere'
  <2>1. /\ \A k \in LiveThere : Covers(oms.order, wire, venue[k])
        /\ oms.order[Sending].filled = 0
    BY <1>1, <1>2 DEF CoveredHere
  <2>2. Works(oms.order, Sending, oms.order[Sending].quantity)
    BY <1>4, WorksHere
  <2>3. \A k \in LiveThere' : Covers(oms.order, wire', venue'[k])
    BY <1>1, <2>1, <2>2, SentCovers
  <2> QED BY <1>2, <2>3 DEF CoveredHere
<1>11. CoveredInFile'
  <2> DEFINE r == Recover(journal.file)
  <2> SUFFICES ASSUME Intact' PROVE \A k \in LiveThere' : Covers(r.order, wire', venue'[k])
    BY <1>2 DEF CoveredInFile
  <2>1. Intact
    BY <1>2 DEF Intact
  <2>2. /\ \A k \in LiveThere : Covers(r.order, wire, venue[k])
        /\ Works(r.order, Sending, oms.order[Sending].quantity) /\ r.order[Sending].filled = 0
    BY <1>1, <1>2, <2>1 DEF CoveredInFile
  <2> HIDE DEF r
  <2> QED BY <1>1, <2>2, SentCovers
<1> QED BY <1>9, <1>10, <1>11

\* A report that is taken changes nothing of what is known.
LEMMA DeliverTracks ==
  ASSUME Shape, TrackedInv, ~lost, Deliver
  PROVE  OneEach' /\ CoveredHere' /\ CoveredInFile'
<1> DEFINE rep == Head(wire)
<1>1. OneEach /\ CoveredHere /\ CoveredInFile
  BY DEF TrackedInv
<1>2. /\ pc = "idle" /\ pc' = "idle" /\ Up /\ Up' /\ wire # << >> /\ wire' = Tail(wire)
      /\ UNCHANGED <<venue, lost>> /\ oms' = Apply(oms, rep)
      /\ journal' = Write(journal, ExecReport(rep))
  BY DEF Deliver, market, history, Up
<1>3. /\ rep \in Said /\ rep = wire[1] /\ 1 \in DOMAIN wire /\ rep \in Report
      /\ DOMAIN Tail(wire) = 1 .. Len(wire) - 1
      /\ \A j \in 1 .. Len(wire) - 1 : Tail(wire)[j] = wire[j + 1] /\ j + 1 \in DOMAIN wire
      /\ ReadableReport(rep) /\ IInv(oms)
  BY <1>2, HeadTaken, Parts
<1>4. LiveThere' = LiveThere /\ \A k \in LiveThere : venue'[k] = venue[k]
  BY <1>2 DEF LiveThere
<1>5. oms'.next = oms.next /\ \A i : Known(i) => Known(i)'
  <2>1. oms'.next = oms.next
    BY <1>2, <1>3, ApplyLeavesIds
  <2> QED BY <1>2, <2>1 DEF Known
<1>6. rep.type = "Cancelled" => \A k \in LiveThere : venue[k].id # rep.id
  BY <1>1, <1>2, <1>3 DEF OneEach
<1>7. OneEach'
  BY <1>1, <1>2, <1>3, <1>4, <1>5 DEF OneEach
<1>8. ASSUME NEW order, NEW n, Takes(order, n, rep),
             \A k \in LiveThere : Covers(order, wire, venue[k])
      PROVE  \A k \in LiveThere' : Covers(n, wire', venue'[k])
  BY <1>2, <1>4, <1>6, <1>8, TakingCovers
<1>9. CoveredHere'
  <2>1. Takes(oms.order, oms'.order, rep)
    BY <1>2, <1>3, ApplyTakes
  <2>2. \A k \in LiveThere : Covers(oms.order, wire, venue[k])
    BY <1>1, <1>2 DEF CoveredHere
  <2>3. \A k \in LiveThere' : Covers(oms'.order, wire', venue'[k])
    BY <1>8, <2>1, <2>2
  <2> QED BY <1>2, <2>3 DEF CoveredHere
<1>10. CoveredInFile'
  <2> DEFINE r == Recover(journal.file)
             q == Recover(journal'.file)
             rec == RecordFor(journal, session, ExecReport(rep))
  <2> SUFFICES ASSUME Intact' PROVE \A k \in LiveThere' : Covers(q.order, wire', venue'[k])
    BY <1>2 DEF CoveredInFile
  <2>1. Grown(rec) /\ rec.event = ExecReport(rep)
    BY <1>2, <1>3, EventsTyped, WriteGrows
  <2>2. Intact /\ q.order = OrdersAfter(r, rec.event)
    BY <1>2, <2>1, GrownReads
  <2>3. \A k \in LiveThere : Covers(r.order, wire, venue[k])
    BY <1>1, <2>2 DEF CoveredInFile
  <2> HIDE DEF q, r, rec
  <2>4. q.order = AfterReport(r, rep)
    BY <2>1, <2>2 DEF OrdersAfter, ExecReport
  <2>5. Takes(r.order, q.order, rep)
    BY <1>3, <2>4, ReplayTakes
  <2> QED BY <1>8, <2>3, <2>5
<1> QED BY <1>7, <1>9, <1>10

\* Records that cover what is live go on doing so when the venue executes or cancels.
LEMMA MovedCovers ==
  ASSUME Shape, NEW x \in DOMAIN venue, NEW n, NEW left, NEW type, VenueMoves(x, n, left, type),
         type = "Fill" \/ (type = "Cancelled" /\ n = 0 /\ left = 0),
         Up => \A j, k \in LiveThere : venue[j].id = venue[k].id => j = k,
         NEW order, \A k \in LiveThere : Covers(order, wire, venue[k])
  PROVE  \A k \in LiveThere' : Covers(order, wire', venue'[k])
<1>1. PICK rep \in Said :
        /\ rep.id = venue[x].id /\ rep.type = type /\ rep.quantity = n
        /\ wire' = IF Up THEN Append(wire, rep) ELSE wire
  BY DEF VenueMoves
<1>2. /\ n \in Nat /\ left \in Nat /\ left < venue[x].leaves
      /\ DOMAIN venue' = DOMAIN venue
      /\ \A j \in DOMAIN venue \ {x} : venue'[j] = venue[j]
      /\ venue'[x].id = venue[x].id /\ venue'[x].quantity = venue[x].quantity
      /\ venue'[x].filled = venue[x].filled + n /\ venue'[x].leaves = left
  BY DEF VenueMoves
<1>3. /\ wire \in Seq(Said) /\ (~Up => wire = << >>)
      /\ \A k \in DOMAIN venue : venue[k].filled \in Nat /\ venue[k].leaves \in Nat
  BY Parts DEF Shape, MarketTyped, VenueOrder
<1>4. x \in LiveThere /\ LiveThere' \subseteq LiveThere /\ LiveThere \subseteq DOMAIN venue
  BY <1>2, <1>3 DEF LiveThere
<1> SUFFICES ASSUME NEW k \in LiveThere' PROVE Covers(order, wire', venue'[k])
  OBVIOUS
<1> DEFINE i == venue[k].id
           f == order[i].filled
           a == InFlight(wire, i)
           b == InFlight(wire', i)
           l == venue[k].filled
           m == venue'[k].filled
<1>5. /\ k \in LiveThere /\ Works(order, i, venue[k].quantity) /\ f + a <= l
      /\ f \in Nat /\ l \in Nat
  BY <1>3, <1>4 DEF Covers, Works
<1>6. a \in Nat
  BY <1>3, Flight
<1>7. venue'[k].id = i /\ venue'[k].quantity = venue[k].quantity
  BY <1>2, <1>4
<1>8. f + b <= m
  <2>1. CASE ~Up
    <3>1. b = a
      BY <1>1, <2>1
    <3>2. m = l \/ m = l + n
      BY <1>2, <1>4
    <3> HIDE DEF f, a, b, l, m
    <3> QED BY <1>2, <1>5, <1>6, <3>1, <3>2
  <2>2. CASE Up
    <3>1. b = a + Told(rep, i)
      BY <1>1, <1>3, <2>2, Flight
    <3>2. CASE k = x
      <4>1. type = "Fill"
        BY <1>2, <3>2 DEF LiveThere
      <4>2. Told(rep, i) = n /\ m = l + n
        BY <1>1, <1>2, <3>2, <4>1 DEF Told
      <4> HIDE DEF f, a, b, l, m
      <4> QED BY <1>2, <1>5, <1>6, <3>1, <4>2
    <3>3. CASE k # x
      <4>1. i # venue[x].id /\ m = l
        BY <1>2, <1>4, <1>5, <2>2, <3>3
      <4>2. Told(rep, i) = 0
        BY <1>1, <4>1 DEF Told
      <4> HIDE DEF f, a, b, l, m
      <4> QED BY <1>5, <1>6, <3>1, <4>1, <4>2
    <3> QED BY <3>2, <3>3
  <2> QED BY <2>1, <2>2
<1> QED BY <1>5, <1>7, <1>8 DEF Covers

\* So nothing is lost from sight when the venue moves.
LEMMA MoveTracks ==
  ASSUME Shape, TrackedInv, ~lost, NEW x \in DOMAIN venue, NEW n, NEW left, NEW type,
         VenueMoves(x, n, left, type),
         type = "Fill" \/ (type = "Cancelled" /\ n = 0 /\ left = 0)
  PROVE  OneEach' /\ CoveredHere' /\ CoveredInFile'
<1>1. OneEach /\ CoveredHere /\ CoveredInFile
  BY DEF TrackedInv
<1>2. UNCHANGED <<pc, journal, oms, lost>> /\ (Up' <=> Up) /\ Sending' = Sending
  BY DEF VenueMoves, process, history, Up, Sending
<1>3. PICK rep \in Said :
        /\ rep.id = venue[x].id /\ rep.type = type
        /\ wire' = IF Up THEN Append(wire, rep) ELSE wire
  BY DEF VenueMoves
<1>4. /\ n \in Nat /\ left \in Nat /\ left < venue[x].leaves
      /\ DOMAIN venue' = DOMAIN venue
      /\ \A j \in DOMAIN venue : venue'[j].id = venue[j].id
      /\ \A j \in DOMAIN venue \ {x} : venue'[j] = venue[j]
      /\ venue'[x].leaves = left
  BY DEF VenueMoves
<1>5. \A k \in DOMAIN venue : venue[k].leaves \in Nat
  BY Parts DEF VenueOrder
<1>6. x \in LiveThere /\ LiveThere' \subseteq LiveThere /\ LiveThere \subseteq DOMAIN venue
  BY <1>4, <1>5 DEF LiveThere
<1>7. Up => \A j, k \in LiveThere : venue[j].id = venue[k].id => j = k
  BY <1>1 DEF OneEach
<1>8. \A i : Known(i) <=> Known(i)'
  BY <1>2 DEF Known
<1>9. OneEach'
  <2> SUFFICES ASSUME Up PROVE OneEach'
    BY <1>2 DEF OneEach
  <2>1. /\ wire \in Seq(Said) /\ Len(wire) \in Nat /\ DOMAIN wire = 1 .. Len(wire)
    BY Parts
  <2>2. /\ DOMAIN wire' = 1 .. Len(wire) + 1
        /\ wire'[Len(wire) + 1] = rep
        /\ \A j \in DOMAIN wire : wire'[j] = wire[j]
    BY <1>3, <2>1
  <2>3. \A j, k \in LiveThere' : venue'[j].id = venue'[k].id => j = k
    BY <1>4, <1>6, <1>7
  <2>4. \A k \in LiveThere' : Known(venue[k].id)'
    BY <1>1, <1>4, <1>6, <1>8 DEF OneEach
  <2>5. \A j \in DOMAIN wire' : j \in DOMAIN wire \/ j = Len(wire) + 1
    BY <2>1, <2>2
  <2>6. \A j \in DOMAIN wire' : Known(wire[j].id)'
    BY <1>1, <1>3, <1>6, <1>8, <2>2, <2>5 DEF OneEach
  <2>7. ASSUME NEW j \in DOMAIN wire', wire'[j].type = "Cancelled", NEW k \in LiveThere'
        PROVE  venue'[k].id # wire'[j].id
    <3>1. CASE j \in DOMAIN wire
      BY <1>1, <1>4, <1>6, <2>2, <2>7, <3>1 DEF OneEach
    <3>2. CASE j = Len(wire) + 1
      <4>1. type = "Cancelled" /\ left = 0 /\ wire'[j].id = venue[x].id
        BY <1>3, <2>2, <2>7, <3>2
      <4>2. k # x
        BY <1>4, <4>1 DEF LiveThere
      <4> QED BY <1>4, <1>6, <1>7, <4>1, <4>2
    <3> QED BY <2>5, <3>1, <3>2
  <2> QED BY <2>3, <2>4, <2>6, <2>7 DEF OneEach
<1>10. CoveredHere'
  <2> SUFFICES ASSUME Up PROVE CoveredHere'
    BY <1>2 DEF CoveredHere
  <2>1. /\ \A k \in LiveThere : Covers(oms.order, wire, venue[k])
        /\ pc = "sending" => Sending \in Working(oms) /\ oms.order[Sending].filled = 0
    BY <1>1 DEF CoveredHere
  <2>2. \A k \in LiveThere' : Covers(oms.order, wire', venue'[k])
    BY <1>7, <2>1, MovedCovers
  <2> QED BY <1>2, <2>1, <2>2 DEF CoveredHere
<1>11. CoveredInFile'
  <2> DEFINE r == Recover(journal.file)
  <2> SUFFICES ASSUME Intact'
               PROVE  /\ \A k \in LiveThere' : Covers(r.order, wire', venue'[k])
                      /\ pc = "sending" =>
                           /\ Works(r.order, Sending, oms.order[Sending].quantity)
                           /\ r.order[Sending].filled = 0
    BY <1>2 DEF CoveredInFile
  <2>1. Intact
    BY <1>2 DEF Intact
  <2>2. /\ \A k \in LiveThere : Covers(r.order, wire, venue[k])
        /\ pc = "sending" => /\ Works(r.order, Sending, oms.order[Sending].quantity)
                             /\ r.order[Sending].filled = 0
    BY <1>1, <2>1 DEF CoveredInFile
  <2> HIDE DEF r
  <2>3. \A k \in LiveThere' : Covers(r.order, wire', venue'[k])
    BY <1>7, <2>2, MovedCovers
  <2> QED BY <2>2, <2>3
<1> QED BY <1>9, <1>10, <1>11

\* A session that starts unasked starts over records that say nothing is working; one
\* that was reconciled has adopted what the venue rests, order by order.
LEMMA StartTracks ==
  ASSUME ~AllowUnclean, Shape, TrackedInv, ~lost, NEW asked \in BOOLEAN, Start(asked)
  PROVE  OneEach' /\ CoveredHere' /\ CoveredInFile'
<1> DEFINE r    == Recover(journal.file)
           snap == Snapshot(asked)
<1>1. OneEach /\ CoveredHere /\ CoveredInFile
  BY DEF TrackedInv
<1>2. /\ ~Up /\ UNCHANGED <<venue, wire, lost>> /\ r.corrupt \in Nat
      /\ \/ pc' = "refused"
         \/ /\ pc' = "opening" /\ MayStart(r, snap) /\ AllAdopted(r, snap)
            /\ oms' = FreshOms(r, snap) /\ IInv(oms')
            /\ \A i \in Tracked(oms') :
                 \E k \in ToAdopt(r, snap) : AdoptedFrom(oms', i, k)
  BY StartGives, Zenon DEF market
<1>3. wire = << >> /\ wire' = << >> /\ pc' # "sending" /\ (Up' => pc' = "opening")
  BY <1>2 DEF Shape, MarketTyped, Up
<1>4. /\ LiveThere' = LiveThere /\ LiveThere \subseteq DOMAIN venue
      /\ \A k \in LiveThere : venue'[k] = venue[k]
      /\ \A k \in DOMAIN venue : venue[k].filled \in Nat
  BY <1>2, Parts DEF LiveThere, VenueOrder
<1>5. CoveredInFile'
  <2> DEFINE q == Recover(journal'.file)
  <2> SUFFICES ASSUME Intact' PROVE \A k \in LiveThere' : Covers(q.order, wire', venue'[k])
    BY <1>3 DEF CoveredInFile
  <2>1. Intact /\ q.order = r.order
    BY StartReads, Zenon
  <2>2. \A k \in LiveThere : Covers(r.order, wire, venue[k])
    BY <1>1, <2>1 DEF CoveredInFile
  <2> HIDE DEF q, r
  <2> QED BY <1>3, <1>4, <2>1, <2>2
<1>6. ASSUME LiveThere = {} PROVE OneEach' /\ CoveredHere'
  BY <1>3, <1>4, <1>6 DEF OneEach, CoveredHere
<1>7. ASSUME Up', ~NeedsAttention(r) PROVE LiveThere = {}
  <2>1. Working(r) = {} /\ r.corrupt = 0
    <3> HIDE DEF r
    <3> QED BY <1>2, <1>7 DEF NeedsAttention
  <2>2. Intact
    BY <2>1 DEF Intact
  <2>3. \A k \in LiveThere : Covers(r.order, wire, venue[k])
    BY <1>1, <2>2 DEF CoveredInFile
  <2> HIDE DEF r
  <2>4. ASSUME NEW k \in LiveThere PROVE FALSE
    <3>1. venue[k].id \in Working(r)
      BY <2>3 DEF Covers, Works, Working, Tracked
    <3> QED BY <2>1, <3>1
  <2> QED BY <2>4
<1>8. ASSUME Up', NeedsAttention(r) PROVE OneEach' /\ CoveredHere'
  <2>1. /\ MayStart(r, snap) /\ AllAdopted(r, snap) /\ oms' = FreshOms(r, snap) /\ IInv(oms')
        /\ \A i \in Tracked(oms') : \E k \in ToAdopt(r, snap) : AdoptedFrom(oms', i, k)
    BY <1>2, <1>3, <1>8
  <2>2. /\ DOMAIN snap.orders = LiveThere /\ snap.available = asked
        /\ \A k \in LiveThere : snap.orders[k] = venue[k]
    BY Listed
  <2> HIDE DEF r, snap
  <2>3. snap.available /\ Agreed(r, snap) = Working(r) /\ Orphans(r, snap) = {}
    BY <1>8, <2>1 DEF MayStart, ReconciledClean
  <2>4. \A k \in LiveThere : /\ venue[k].id \in Agreed(r, snap)
                             /\ k = Min(Holders(snap, venue[k].id))
    BY <2>2, <2>3 DEF Orphans
  <2>5. \A j, k \in LiveThere : venue[j].id = venue[k].id => j = k
    BY <2>4
  <2>6. ToAdopt(r, snap) = LiveThere
    BY <1>8, <2>2, <2>3, <2>4 DEF ToAdopt, AgreedOpen
  <2>7. ASSUME NEW k \in LiveThere
        PROVE  Covers(oms'.order, wire', venue'[k]) /\ venue[k].id < oms'.next
    <3> DEFINE i == venue[k].id
               n == oms'
    <3>1. i \in Working(n) /\ IInv(n)
      BY <2>1, <2>2, <2>6 DEF AllAdopted
    <3>2. PICK j \in LiveThere : AdoptedFrom(n, i, j)
      BY <2>1, <2>6, <3>1 DEF Working
    <3>3. j = k
      BY <2>5, <3>2 DEF AdoptedFrom
    <3>4. n.order[i].quantity = venue[k].quantity /\ n.order[i].filled = venue[k].filled
      BY <3>2, <3>3 DEF AdoptedFrom
    <3>5. Works(n.order, i, n.order[i].quantity) /\ i < n.next
      BY <3>1, WorksHere
    <3>6. InFlight(wire', i) = 0
      BY <1>3, NothingInFlight
    <3>7. n.order[i].filled + InFlight(wire', i) <= venue[k].filled
      BY <1>4, <3>4, <3>6
    <3> QED BY <1>4, <3>4, <3>5, <3>7 DEF Covers
  <2>8. \A i : i < oms'.next => Known(i)'
    BY <1>3 DEF Known
  <2>9. OneEach'
    BY <1>3, <1>4, <2>5, <2>7, <2>8 DEF OneEach
  <2>10. CoveredHere'
    BY <1>3, <1>4, <2>7 DEF CoveredHere
  <2> QED BY <2>9, <2>10
<1>9. OneEach' /\ CoveredHere'
  <2>1. CASE ~Up'
    BY <2>1 DEF OneEach, CoveredHere
  <2> QED BY <1>6, <1>7, <1>8, <2>1
<1> QED BY <1>5, <1>9

\* Each step leaves what the venue can still execute known, here and in the file.
LEMMA TrackedStep ==
  ASSUME ~AllowUnclean, Shape, FreshIds, TrackedInv, [Next]_vars
  PROVE  TrackedInv'
<1> DEFINE r == Recover(journal.file)
           q == Recover(journal'.file)
           Good == OneEach' /\ CoveredHere' /\ CoveredInFile'
<1> SUFFICES ASSUME ~lost' PROVE Good
  BY DEF TrackedInv
<1>1. ASSUME NEW event \in Event, event.type \notin {"OrderSent", "ExecReport"}, lost' = lost,
             journal' = Write(journal, event) \/ journal' = Synced(Write(journal, event)),
             UNCHANGED <<venue, oms>>, wire' = wire \/ wire' = << >>,
             Up' => Up, pc' = "sending" => pc = "sending"
      PROVE  Good
  <2>1. Intact' => Intact /\ q.order = r.order
    BY <1>1, OtherWrites
  <2> QED BY <1>1, <2>1, QuietTracks
<1>2. ASSUME NEW asked \in BOOLEAN, Start(asked) PROVE Good
  <2>1. ~lost
    BY <1>2 DEF Start
  <2> QED BY <1>2, <2>1, StartTracks
<1>3. ASSUME RecordSessionStart PROVE Good
  <2>1. SessionStart \in Event /\ SessionStart.type \notin {"OrderSent", "ExecReport"}
    BY EventsTyped DEF SessionStart
  <2>2. /\ lost' = lost /\ journal' = Write(journal, SessionStart) /\ UNCHANGED <<venue, oms, wire>>
        /\ (Up' => Up) /\ pc' # "sending"
    BY <1>3 DEF RecordSessionStart, process, market, history, Up
  <2> HIDE DEF Good
  <2> QED BY <1>1, <2>1, <2>2
<1>4. ASSUME NEW s \in Symbol, NEW d \in Sides, NEW quantity \in 1 .. MaxQuantity,
             Decide(s, d, quantity)
      PROVE  Good
  <2>1. ~lost
    BY <1>4 DEF Decide, history
  <2> QED BY <1>4, <2>1, DecideTracks
<1>5. ASSUME Submit PROVE Good
  <2>1. ~lost
    BY <1>5 DEF Submit
  <2> QED BY <1>5, <2>1, SubmitTracks
<1>6. ASSUME Deliver PROVE Good
  <2>1. ~lost
    BY <1>6 DEF Deliver, history
  <2> QED BY <1>6, <2>1, DeliverTracks
<1>7. ~DeliverUnwritten
  BY DEF DeliverUnwritten
<1>8. ASSUME CheckpointNext PROVE Good
  <2>1. Checkpoint(marked, held[marked]) \in Event
        /\ Checkpoint(marked, held[marked]).type \notin {"OrderSent", "ExecReport"}
    BY <1>8, EventsTyped DEF CheckpointNext, Shape, ProcessTyped, Checkpoint
  <2>2. /\ lost' = lost /\ journal' = Write(journal, Checkpoint(marked, held[marked]))
        /\ UNCHANGED <<venue, oms, wire>> /\ (Up' => Up) /\ pc' # "sending"
    BY <1>8 DEF CheckpointNext, market, history, Up
  <2> HIDE DEF Good
  <2> QED BY <1>1, <2>1, <2>2
<1>9. ASSUME End PROVE Good
  <2>1. SessionEnd \in Event /\ SessionEnd.type \notin {"OrderSent", "ExecReport"}
    BY EventsTyped DEF SessionEnd
  <2>2. /\ lost' = lost /\ journal' = Synced(Write(journal, SessionEnd))
        /\ UNCHANGED <<venue, oms>> /\ wire' = << >> /\ ~Up' /\ pc' # "sending"
    BY <1>9 DEF End, process, market, history, Up
  <2> HIDE DEF Good
  <2> QED BY <1>1, <2>1, <2>2
<1>10. ASSUME ProcessCrash \/ TornWrite \/ PowerLoss PROVE Good
  <2>1. /\ pc' = "down" /\ ~Up' /\ wire' = << >> /\ ~lost /\ UNCHANGED <<oms, venue>>
        /\ Intact' => Intact /\ q.order = r.order
    BY <1>10, CrashGives DEF process, market, Alike
  <2> QED BY <2>1, QuietTracks
<1>11. ASSUME NEW k \in DOMAIN venue, NEW n \in 1 .. MaxQuantity, VenueExecutes(k, n) PROVE Good
  <2>1. VenueMoves(k, n, venue[k].leaves - n, "Fill") /\ ~lost
    BY <1>11, ExecutionMoves DEF VenueExecutes, history
  <2> HIDE DEF Good
  <2> QED BY <2>1, MoveTracks DEF Good
<1>12. ASSUME NEW k \in DOMAIN venue, VenueCancels(k) PROVE Good
  <2>1. VenueMoves(k, 0, 0, "Cancelled") /\ ~lost
    BY <1>12, CancelMoves DEF VenueCancels, history
  <2> HIDE DEF Good
  <2> QED BY <2>1, MoveTracks DEF Good
<1>13. ASSUME UNCHANGED vars PROVE Good
  <2>1. /\ UNCHANGED <<pc, journal, venue, oms, wire, lost>>
    BY <1>13 DEF vars, process, market, history
  <2>2. /\ ~lost /\ (Up' => Up) /\ (Intact' => Intact /\ q.order = r.order)
    BY <2>1 DEF Up, Intact
  <2> QED BY <2>1, <2>2, QuietTracks
<1> HIDE DEF Good
<1> QED
  BY <1>2, <1>3, <1>4, <1>5, <1>6, <1>7, <1>8, <1>9, <1>10, <1>11, <1>12, <1>13 DEF Next

\* What is known of the venue's orders makes them orders that work here, with at least
\* as much left as there.
LEMMA KnownIsTracked == Shape /\ TrackedInv => NothingLiveIsUntracked
<1> SUFFICES ASSUME Shape, TrackedInv, Up, ~lost, NEW k \in DOMAIN venue, venue[k].leaves > 0
             PROVE  /\ venue[k].id \in Working(oms)
                    /\ oms.order[venue[k].id].leaves >= venue[k].leaves
  BY DEF NothingLiveIsUntracked
<1> DEFINE vo == venue[k]
           i  == vo.id
           q  == vo.quantity
           f  == oms.order[i].filled
           a  == InFlight(wire, i)
<1>1. /\ vo \in VenueOrder /\ vo.filled \in Nat /\ vo.leaves \in Nat /\ q \in Nat
      /\ vo.filled + vo.leaves = q
  BY Parts DEF VenueOrder, WellBooked
<1>2. Covers(oms.order, wire, vo)
  BY DEF TrackedInv, CoveredHere, LiveThere
<1>3. Works(oms.order, i, q) /\ f + a <= vo.filled /\ f \in Nat
  BY <1>2 DEF Covers, Works
<1>4. a \in Nat
  BY Parts, Flight
<1>5. i \in Working(oms) /\ oms.order[i].leaves = q - f
  <2>1. IInv(oms)
    BY Parts
  <2> QED BY <1>3, <2>1, WorksHere
<1> HIDE DEF vo, i, q, f, a
<1>6. oms.order[i].leaves >= vo.leaves
  <2> DEFINE left == oms.order[i].leaves
             l == vo.filled
             m == vo.leaves
  <2>1. left = q - f /\ l + m = q /\ f + a <= l /\ l \in Nat /\ m \in Nat
    BY <1>1, <1>3, <1>5
  <2> HIDE DEF left, l, m
  <2>2. left >= m
    BY <1>1, <1>3, <1>4, <2>1
  <2> QED BY <2>2 DEF left, m
<1> QED BY <1>5, <1>6 DEF vo, i

\* Unless the operator may wave a start through, no session ever trades beside an order
\* that it does not track: what the venue can still execute works here, with at least
\* as much left - whatever crashed, tore or was executed while no session was up.
THEOREM NothingLiveGoesUntracked == Spec => [](~AllowUnclean => NothingLiveIsUntracked)
<1> DEFINE KnownThere == ~AllowUnclean => TrackedInv
<1>1. Init => KnownThere
  <2> SUFFICES ASSUME Init PROVE TrackedInv
    OBVIOUS
  <2>1. LiveThere = {} /\ ~Up /\ pc = "down"
    BY DEF Init, LiveThere, Up
  <2> QED BY <2>1 DEF TrackedInv, OneEach, CoveredHere, CoveredInFile
<1>2. Shape /\ FreshIds /\ KnownThere /\ [Next]_vars => KnownThere'
  BY TrackedStep
<1>3. Shape /\ KnownThere => (~AllowUnclean => NothingLiveIsUntracked)
  BY KnownIsTracked
<1> HIDE DEF KnownThere
<1> QED BY <1>1, <1>2, <1>3, ShapeHolds, FreshIdsHold, PTL DEF Spec


-----------------------------------------------------------------------------
(***************************************************************************)
(* The replay against the order manager.                                   *)
(***************************************************************************)

\* What setting a state, retiring and executing make of the order they are for.
WithState(r, state) == [r EXCEPT !.state = state]
Ended(r, final) == [r EXCEPT !.leaves = 0, !.state = final]
Executed(r, quantity) ==
  [r EXCEPT !.filled = r.filled + quantity, !.leaves = LeavesAfter(r, quantity)]

\* Setting its state makes that of an order.
LEMMA SetStateIs ==
  ASSUME NEW o, Typed(o), NEW x \in Tracked(o), NEW state
  PROVE  SetState(o, x, state).order[x] = WithState(o.order[x], state)
BY DEF Typed, Tracked, SetState, WithState

\* Retiring it makes that of an order which is still remembered.
LEMMA RetiredIs ==
  ASSUME NEW o, Typed(o), NEW x \in Tracked(o), NEW final, x \in Tracked(Retire(o, <<x>>, final))
  PROVE  Retire(o, <<x>>, final).order[x] = Ended(o.order[x], final)
<1>1. Range(<<x>>) = {x}
  BY DEF Range
<1>2. DOMAIN o = {"order", "retired", "open", "next", "exposure", "gross", "breaks"}
  BY DEF Typed
<1> QED BY <1>1, <1>2 DEF Retire, Tracked, Ended

\* Executing it makes that of an order.
LEMMA ExecutedIs ==
  ASSUME NEW o, Typed(o), NEW x \in Tracked(o), NEW quantity
  PROVE  Execute(o, x, quantity).order[x] = Executed(o.order[x], quantity)
<1> DEFINE r == o.order[x]
           flagged == IF quantity > r.leaves THEN Count(o, "overfill") ELSE o
           filled == r.filled + quantity
           left == LeavesAfter(r, quantity)
           mid == [flagged EXCEPT !.order[x].filled = filled, !.order[x].leaves = left]
           delta == -Consumed(r, quantity)
<1>1. /\ DOMAIN o = {"order", "retired", "open", "next", "exposure", "gross", "breaks"}
      /\ x \in DOMAIN o.order
  BY DEF Typed, Tracked
<1>2. Execute(o, x, quantity) = AddExposure(mid, r.symbol, r.side, delta)
  BY DEF Execute
<1>3. DOMAIN flagged = DOMAIN o /\ flagged.order = o.order
  BY <1>1 DEF Count
<1> HIDE DEF flagged, filled, left, delta
<1>4. /\ DOMAIN mid = DOMAIN o
      /\ mid.order[x] = [r EXCEPT !.filled = filled, !.leaves = left]
  BY <1>1, <1>3
<1> HIDE DEF mid
<1>5. AddExposure(mid, r.symbol, r.side, delta).order = mid.order
  BY <1>1, <1>4 DEF AddExposure
<1> QED BY <1>2, <1>4, <1>5 DEF filled, left, Executed

\* An order that takes a report becomes what the replay makes of it.
LEMMA ReportedAlike ==
  ASSUME NEW o, IInv(o), NEW rep, ReadableReport(rep), Applies(o, rep)
  PROVE  Apply(o, rep).order[rep.id] = Reported(o.order[rep.id], rep)
<1> DEFINE n == Apply(o, rep)
           x == rep.id
           r == o.order[x]
           quantity == rep.quantity
           Goal == n.order[x] = Reported(r, rep)
<1>1. /\ rep.type \in ExecType /\ Typed(o) /\ x \in Tracked(o) /\ r \in OrderRecord
      /\ x \in Working(o) /\ x \in Tracked(n)
      /\ rep.type = "Fill" => quantity \in Nat \ {0}
  <2>1. x \in Working(o) /\ x \in Tracked(n)
    BY TakenMovesOn DEF MovesOn
  <2> QED BY <2>1 DEF ReadableReport, IInv, Sound, Typed, Applies
<1>2. ASSUME NEW state, n = SetState(o, x, state), Reported(r, rep) = WithState(r, state)
      PROVE  Goal
  <2> HIDE DEF n, x
  <2> QED BY <1>1, <1>2, SetStateIs
<1>3. ASSUME NEW final, n = Retire(o, <<x>>, final), Reported(r, rep) = Ended(r, final)
      PROVE  Goal
  <2> HIDE DEF n, x
  <2> QED BY <1>1, <1>3, RetiredIs
<1>4. CASE rep.type = "Acked"
  <2>1. n = SetState(o, x, "New") /\ Reported(r, rep) = WithState(r, "New")
    BY <1>1, <1>4 DEF Apply, Reported, WithState
  <2> HIDE DEF n, x, r, Goal
  <2>2. Goal
    BY <1>2, <2>1
  <2> QED BY <2>2 DEF Goal, n, x, r
<1>5. CASE rep.type = "VenueRejected"
  <2>1. n = Retire(o, <<x>>, "Rejected") /\ Reported(r, rep) = Ended(r, "Rejected")
    BY <1>1, <1>5 DEF Apply, Reported, Ended
  <2> HIDE DEF n, x, r, Goal
  <2>2. Goal
    BY <1>3, <2>1
  <2> QED BY <2>2 DEF Goal, n, x, r
<1>6. CASE rep.type = "Cancelled"
  <2>1. n = Retire(o, <<x>>, "Cancelled") /\ Reported(r, rep) = Ended(r, "Cancelled")
    BY <1>1, <1>6 DEF Apply, Reported, Ended
  <2> HIDE DEF n, x, r, Goal
  <2>2. Goal
    BY <1>3, <2>1
  <2> QED BY <2>2 DEF Goal, n, x, r
<1>7. CASE rep.type = "CancelRejected"
  <2> DEFINE state == IF r.filled > 0 THEN "PartiallyFilled" ELSE "New"
  <2>1. n = SetState(o, x, state) /\ Reported(r, rep) = WithState(r, state)
    BY <1>1, <1>7 DEF Apply, Reported, WithState
  <2> HIDE DEF n, x, r, Goal, state
  <2>2. Goal
    BY <1>2, <2>1
  <2> QED BY <2>2 DEF Goal, n, x, r
<1>8. CASE rep.type = "Fill"
  <2> DEFINE hit == Execute(o, x, quantity)
             g   == Executed(r, quantity)
  <2>1. n = IF hit.order[x].leaves = 0 THEN Retire(hit, <<x>>, "Filled")
            ELSE IF hit.order[x].state = "PendingCancel" THEN hit
            ELSE SetState(hit, x, "PartiallyFilled")
    BY <1>1, <1>8 DEF Apply, ApplyFill
  <2>2. Typed(hit) /\ x \in Tracked(hit)
    BY <1>1, <1>8, ExecuteKeeps DEF Sound, Working
  <2>3. hit.order[x] = g
    <3> HIDE DEF x, quantity
    <3> QED BY <1>1, ExecutedIs
  <2>4. /\ g.leaves = 0 => Reported(r, rep) = Ended(g, "Filled")
        /\ g.leaves # 0 /\ g.state = "PendingCancel" => Reported(r, rep) = g
        /\ g.leaves # 0 /\ g.state # "PendingCancel" =>
             Reported(r, rep) = WithState(g, "PartiallyFilled")
    <3> DEFINE filled == r.filled + quantity
               left   == LeavesAfter(r, quantity)
               next   == IF left = 0 THEN "Filled"
                         ELSE IF r.state = "PendingCancel" THEN r.state ELSE "PartiallyFilled"
    <3>1. Reported(r, rep) = [r EXCEPT !.filled = filled, !.leaves = left, !.state = next]
      BY <1>8 DEF Reported
    <3>2. g = [r EXCEPT !.filled = filled, !.leaves = left]
      BY DEF Executed
    <3> DEFINE m == Reported(r, rep)
    <3> HIDE DEF r, g, m, filled, left, next
    <3>3. g.leaves = left /\ g.state = r.state
      BY <1>1, <3>2 DEF OrderRecord
    <3>4. CASE g.leaves = 0
      <4>1. next = "Filled" /\ left = 0
        BY <3>3, <3>4 DEF next
      <4>2. m = Ended(g, "Filled")
        BY <1>1, <3>1, <3>2, <4>1 DEF OrderRecord, Ended, m
      <4> QED BY <3>4, <4>2 DEF m
    <3>5. CASE g.leaves # 0 /\ g.state = "PendingCancel"
      <4>1. next = r.state
        BY <3>3, <3>5 DEF next
      <4>2. m = g
        BY <1>1, <3>1, <3>2, <4>1 DEF OrderRecord, m
      <4> QED BY <3>5, <4>2 DEF m
    <3>6. CASE g.leaves # 0 /\ g.state # "PendingCancel"
      <4>1. next = "PartiallyFilled"
        BY <3>3, <3>6 DEF next
      <4>2. m = WithState(g, "PartiallyFilled")
        BY <1>1, <3>1, <3>2, <4>1 DEF OrderRecord, WithState, m
      <4> QED BY <3>6, <4>2 DEF m
    <3> QED BY <3>4, <3>5, <3>6 DEF m
  <2> HIDE DEF hit, n, x, r, g, Goal
  <2>5. CASE g.leaves = 0
    <3>1. n = Retire(hit, <<x>>, "Filled")
      BY <2>1, <2>3, <2>5
    <3>2. n.order[x] = Ended(g, "Filled")
      BY <1>1, <2>2, <2>3, <3>1, RetiredIs
    <3> QED BY <2>4, <2>5, <3>2 DEF n, x, r
  <2>6. CASE g.leaves # 0 /\ g.state = "PendingCancel"
    <3>1. n.order[x] = g
      BY <2>1, <2>3, <2>6
    <3> QED BY <2>4, <2>6, <3>1 DEF n, x, r
  <2>7. CASE g.leaves # 0 /\ g.state # "PendingCancel"
    <3>1. n = SetState(hit, x, "PartiallyFilled")
      BY <2>1, <2>3, <2>7
    <3>2. n.order[x] = WithState(g, "PartiallyFilled")
      BY <2>2, <2>3, <3>1, SetStateIs
    <3> QED BY <2>4, <2>7, <3>2 DEF n, x, r
  <2> QED BY <2>5, <2>6, <2>7
<1> QED BY <1>1, <1>4, <1>5, <1>6, <1>7, <1>8 DEF ExecType, AcceptedIn

\* The replay of recovery is the order manager's own: an order that is created, and any
\* that is still tracked after a report, reads there as it does here.
THEOREM ReplayFollowsTheOrderManager ==
  ASSUME NEW o, IInv(o)
  PROVE  /\ \A rep : ReadableReport(rep) =>
              \A i \in Tracked(Apply(o, rep)) :
                i \in DOMAIN o.order /\ Apply(o, rep).order[i] = AfterReport(o, rep)[i]
         /\ \A id \in Nat, s \in Symbol, d \in Side, quantity \in Nat :
              CanCreate(o, id, quantity) =>
                \A i \in Tracked(CreateWithId(o, id, s, d, quantity)) :
                  CreateWithId(o, id, s, d, quantity).order[i] =
                    WithOrder(o.order, id, s, d, quantity)[i]
<1>1. Typed(o)
  BY DEF IInv, Sound
<1>2. ASSUME NEW rep, ReadableReport(rep), NEW i \in Tracked(Apply(o, rep))
      PROVE  i \in DOMAIN o.order /\ Apply(o, rep).order[i] = AfterReport(o, rep)[i]
  <2> DEFINE n == Apply(o, rep)
             x == rep.id
  <2>1. CASE Applies(o, rep)
    <3>1. Tracked(n) \subseteq Tracked(o) /\ (i # x => n.order[i] = o.order[i])
      BY <1>2, <2>1, TakenMovesOn DEF MovesOn, Within
    <3>2. n.order[x] = Reported(o.order[x], rep)
      BY <1>2, <2>1, ReportedAlike
    <3>3. AfterReport(o, rep) = [o.order EXCEPT ![x] = Reported(o.order[x], rep)]
      BY <2>1 DEF AfterReport
    <3> HIDE DEF n
    <3> QED BY <1>2, <3>1, <3>2, <3>3 DEF Tracked, n
  <2>2. CASE ~Applies(o, rep)
    BY <1>1, <1>2, <2>2, RefusedIsCounted DEF AfterReport, Tracked
  <2> QED BY <2>1, <2>2
<1>3. ASSUME NEW id \in Nat, NEW s \in Symbol, NEW d \in Side, NEW quantity \in Nat,
             CanCreate(o, id, quantity), NEW i \in Tracked(CreateWithId(o, id, s, d, quantity))
      PROVE  CreateWithId(o, id, s, d, quantity).order[i] =
               WithOrder(o.order, id, s, d, quantity)[i]
  <2> DEFINE n == CreateWithId(o, id, s, d, quantity)
  <2>1. id # 0 /\ id \notin Tracked(o) /\ quantity \in Nat \ {0}
    BY <1>3 DEF CanCreate
  <2>2. /\ Tracked(n) \subseteq Tracked(o) \cup {id}
        /\ \A j \in Tracked(o) : n.order[j] = o.order[j]
    BY CreateAdvances
  <2>3. n.order[id] = [symbol |-> s, side |-> d, quantity |-> quantity, filled |-> 0,
                       leaves |-> quantity, state |-> "PendingNew", age |-> 0]
    BY <1>3, <2>1, CreateKeeps
  <2> HIDE DEF n
  <2> QED BY <1>3, <2>1, <2>2, <2>3 DEF WithOrder, Tracked, n
<1> QED BY <1>2, <1>3
=============================================================================
