------------------------- MODULE VenueSessionProofs -------------------------
(***************************************************************************)
(* The order manager and the venue keep one book each, and the wire        *)
(* between them may deliver reports out of order and more than once.       *)
(* SessionInv says how the two books fit while reports are in flight:      *)
(*                                                                         *)
(*  - a new order is on the wire once, and until the venue has taken it    *)
(*    nothing but a timeout has happened to it here;                       *)
(*  - a report is about an order the venue has seen, one that closes an    *)
(*    order is about a dead one, and a rejection stands alone;             *)
(*  - as long as each report is delivered once, what the venue executed is *)
(*    what is booked here plus the fills on the wire.  The fills on the    *)
(*    wire are counted as lots (InFlight), so that one report more or less *)
(*    changes the count by its quantity: no induction over the sequence;   *)
(*  - an order that lives there works here, and one that works here and is *)
(*    dead there has its end on the wire.  This needs AnswersFirst: while  *)
(*    nothing was overtaken, a cancel cannot meet an unanswered order.     *)
(*                                                                         *)
(* DeliverStep is the engine's side of the argument; Sweep, Tick and       *)
(* Cancel are instances of Recalls, the venue's five actions of Answers.   *)
(* A second invariant, TraceInv, follows a report that was delivered       *)
(* twice: see the last section.                                            *)
(***************************************************************************)
EXTENDS VenueSession, OmsProofs

RequestRecord == [id : Nat, what : {"New", "Cancel"}, quantity : Nat]
ReportRecord == [id : Nat, type : ExecType, quantity : Nat]
VenueOrder == [leaves : Nat, executed : Nat, live : BOOLEAN]

\* The shape of the state.
SessionTyped ==
  /\ IInv(oms) /\ oms.next <= MaxId + 1
  /\ expired \subseteq 1 .. oms.next - 1
  /\ DOMAIN venue \subseteq 1 .. oms.next - 1
  /\ venue \in [DOMAIN venue -> VenueOrder]
  /\ requests \in Seq(RequestRecord)
  /\ reports \in Seq(ReportRecord)
  /\ duplicates \in 0 .. MaxDuplicates /\ overtaken \in BOOLEAN

\* A new order the venue has not seen is on the wire once, with the quantity its
\* record has; a cancel is on its way only for an order the venue has seen.
RequestsSound ==
  \A k \in DOMAIN requests :
    LET q == requests[k]
    IN  /\ q.what = "New" =>
             /\ q.id \notin DOMAIN venue /\ q.id \in 1 .. oms.next - 1
             /\ q.quantity \in 1 .. MaxQuantity
             /\ q.id \in Tracked(oms) => oms.order[q.id].quantity = q.quantity
             /\ \A j \in DOMAIN requests :
                  requests[j].what = "New" /\ requests[j].id = q.id => j = k
        /\ q.what = "Cancel" => q.id \in DOMAIN venue

\* What the venue has not seen, nothing has happened to.
UnseenIsUntouched ==
  \A i \in Tracked(oms) \ DOMAIN venue :
    oms.order[i].filled = 0 /\ oms.order[i].state \in {"PendingNew", "Expired"}

\* Something of a working order is left to fill.
SomethingIsLeft == \A i \in Working(oms) : oms.order[i].filled < oms.order[i].quantity

Closes(rep) == rep.type \in {"VenueRejected", "Cancelled"}

\* The venue's reports are about orders it has seen: a fill is of something, an
\* order reported closed is closed, and a rejection is all there is to say.
ReportsSound ==
  \A k \in DOMAIN reports :
    LET rep == reports[k]
    IN  /\ rep.id \in DOMAIN venue
        /\ rep.type = "Fill" => rep.quantity > 0
        /\ Closes(rep) => ~venue[rep.id].live
        /\ rep.type = "VenueRejected" =>
             /\ \A j \in DOMAIN reports : reports[j].id = rep.id => j = k
             /\ \A j \in DOMAIN requests : requests[j].id # rep.id
             /\ rep.id \in Working(oms) => oms.order[rep.id].state = "PendingNew"

\* The venue's book: what is left and what was executed is what was ordered.
VenueSound ==
  \A i \in DOMAIN venue :
    /\ venue[i].live <=> venue[i].leaves > 0
    /\ venue[i].leaves + venue[i].executed <= MaxQuantity
    /\ venue[i].live /\ i \in Tracked(oms) =>
         venue[i].leaves + venue[i].executed = oms.order[i].quantity

\* The first thing the venue says of an order is whether it took it.
AnswersFirst ==
  ~overtaken => \A i \in Unanswered(oms) \cap DOMAIN venue :
    \E k \in DOMAIN reports :
      /\ reports[k].id = i /\ reports[k].type \in {"Acked", "VenueRejected"}
      /\ \A j \in 1 .. k - 1 : reports[j].id # i

\* Each lot executed is booked or on the wire, or a report of it was counted;
\* of a working order, none was.
LotsAccounted ==
  \A i \in DOMAIN venue \cap Tracked(oms) :
    LET known == oms.order[i].filled + InFlight(reports, i)
    IN  /\ known <= venue[i].executed
        /\ i \in Working(oms) \/ ~Misfit => known = venue[i].executed

\* What is given to the venue or lives there works here or was given up.
LiveIsWorking ==
  /\ \A i \in DOMAIN venue \ expired : venue[i].live => i \in Working(oms)
  /\ \A k \in DOMAIN requests :
       requests[k].what = "New" /\ requests[k].id \notin expired =>
         requests[k].id \in Working(oms)

\* An order that works here and is dead at the venue has been executed whole,
\* or the report that ends it is on the wire, or was refused when it overtook
\* the acknowledgement.
DeadIsReported ==
  \A i \in DOMAIN venue \cap Working(oms) :
    venue[i].live \/ venue[i].executed = oms.order[i].quantity
      \/ (\E k \in DOMAIN reports : reports[k].id = i /\ Closes(reports[k]))
      \/ (overtaken /\ Misfit)

SessionInv ==
  /\ SessionTyped /\ RequestsSound /\ UnseenIsUntouched /\ SomethingIsLeft
  /\ ReportsSound /\ VenueSound /\ AnswersFirst
  /\ duplicates = 0 => LotsAccounted /\ LiveIsWorking /\ DeadIsReported

-----------------------------------------------------------------------------

\* Taking one entry out of a sequence moves the ones behind it up.
LEMMA Removed ==
  ASSUME NEW S, NEW q \in Seq(S), NEW k \in 1 .. Len(q)
  PROVE  /\ RemoveAt(q, k) \in Seq(S) /\ Len(RemoveAt(q, k)) = Len(q) - 1
         /\ \A j \in 1 .. Len(q) - 1 :
              RemoveAt(q, k)[j] = IF j < k THEN q[j] ELSE q[j + 1]
<1> DEFINE a == SubSeq(q, 1, k - 1)
           b == SubSeq(q, k + 1, Len(q))
<1>1. Len(q) \in Nat /\ \A j \in 1 .. Len(q) : q[j] \in S
  BY ElementOfSeq, LenProperties
<1>2. a \in Seq(S) /\ Len(a) = k - 1 /\ \A j \in 1 .. k - 1 : a[j] = q[j]
  <2>1. 1 \in Int /\ k - 1 \in Int /\ \A j \in 1 .. k - 1 : q[j] \in S
    BY <1>1
  <2>2. /\ a \in Seq(S) /\ Len(a) = IF 1 <= k - 1 THEN k - 1 - 1 + 1 ELSE 0
        /\ \A j \in 1 .. k - 1 - 1 + 1 : a[j] = q[1 + j - 1]
    BY <2>1, SubSeqProperties
  <2> HIDE DEF a
  <2> QED BY <2>2, <1>1
<1>3. b \in Seq(S) /\ Len(b) = Len(q) - k /\ \A j \in 1 .. Len(q) - k : b[j] = q[k + j]
  <2>1. k + 1 \in Int /\ Len(q) \in Int /\ \A j \in k + 1 .. Len(q) : q[j] \in S
    BY <1>1
  <2>2. /\ b \in Seq(S) /\ Len(b) = IF k + 1 <= Len(q) THEN Len(q) - (k + 1) + 1 ELSE 0
        /\ \A j \in 1 .. Len(q) - (k + 1) + 1 : b[j] = q[k + 1 + j - 1]
    BY <2>1, SubSeqProperties
  <2> HIDE DEF b
  <2> QED BY <2>2, <1>1
<1>4. RemoveAt(q, k) = a \o b
  BY DEF RemoveAt
<1> HIDE DEF a, b
<1>5. /\ a \o b \in Seq(S) /\ Len(a \o b) = Len(a) + Len(b)
      /\ \A j \in 1 .. Len(a) + Len(b) :
           (a \o b)[j] = IF j <= Len(a) THEN a[j] ELSE b[j - Len(a)]
  BY <1>2, <1>3, ConcatProperties
<1> QED BY <1>1, <1>2, <1>3, <1>4, <1>5

\* A report that is added adds its lots.
LEMMA InFlightAppended ==
  ASSUME NEW reps \in Seq(ReportRecord), NEW rep \in ReportRecord, NEW i
  PROVE  InFlight(Append(reps, rep), i) =
           InFlight(reps, i) + (IF rep.id = i /\ rep.type = "Fill" THEN rep.quantity ELSE 0)
<1>1. \A r \in ReportRecord : r.quantity \in Nat
  BY DEF ReportRecord
<1> QED BY <1>1, LotsAppended

\* A report that is delivered takes its lots off the wire, and no others.
LEMMA InFlightRemoved ==
  ASSUME NEW reps \in Seq(ReportRecord), NEW k \in 1 .. Len(reps), NEW i
  PROVE  LET taken == IF reps[k].id = i /\ reps[k].type = "Fill" THEN reps[k].quantity ELSE 0
         IN  /\ InFlight(reps, i) = InFlight(RemoveAt(reps, k), i) + taken
             /\ InFlight(RemoveAt(reps, k), i) \in Nat /\ taken \in Nat
<1> DEFINE left == RemoveAt(reps, k)
<1>1. \A r \in ReportRecord : r.quantity \in Nat
  BY DEF ReportRecord
<1>2. /\ left \in Seq(ReportRecord) /\ DOMAIN left = 1 .. Len(reps) - 1
      /\ \A j \in 1 .. Len(reps) - 1 : left[j] = IF j < k THEN reps[j] ELSE reps[j + 1]
  BY Removed, LenProperties
<1> HIDE DEF left
<1>3. LET taken == IF reps[k].id = i /\ reps[k].type = "Fill" THEN reps[k].quantity ELSE 0
      IN  /\ InFlight(reps, i) = InFlight(left, i) + taken
          /\ InFlight(left, i) \in Nat /\ taken \in Nat
  BY <1>1, <1>2, LotsTaken
<1> QED BY <1>3 DEF left

-----------------------------------------------------------------------------

\* What SessionTyped says of the parts.
LEMMA Entries ==
  ASSUME SessionTyped
  PROVE  /\ IInv(oms) /\ Typed(oms) /\ oms.next \in Nat
         /\ Len(requests) \in Nat /\ DOMAIN requests = 1 .. Len(requests)
         /\ \A k \in DOMAIN requests : requests[k] \in RequestRecord
         /\ Len(reports) \in Nat /\ DOMAIN reports = 1 .. Len(reports)
         /\ \A k \in DOMAIN reports : reports[k] \in ReportRecord
         /\ \A i \in DOMAIN venue : venue[i] \in VenueOrder
         /\ \A i \in Tracked(oms) :
              /\ oms.order[i].filled \in Nat /\ oms.order[i].quantity \in Nat \ {0}
              /\ oms.order[i].leaves \in Nat /\ i < oms.next /\ i \in Nat
<1>1. IInv(oms) /\ Typed(oms) /\ oms.next \in Nat
  BY DEF SessionTyped, IInv, Sound, Typed
<1>2. \A i \in Tracked(oms) :
        /\ oms.order[i].filled \in Nat /\ oms.order[i].quantity \in Nat \ {0}
        /\ oms.order[i].leaves \in Nat /\ i < oms.next /\ i \in Nat
  BY <1>1 DEF Typed, OrderRecord
<1>3. requests \in Seq(RequestRecord) /\ reports \in Seq(ReportRecord)
  BY DEF SessionTyped
<1>4. /\ Len(requests) \in Nat /\ DOMAIN requests = 1 .. Len(requests)
      /\ Len(reports) \in Nat /\ DOMAIN reports = 1 .. Len(reports)
  BY <1>3, LenProperties
<1>5. /\ \A k \in 1 .. Len(requests) : requests[k] \in RequestRecord
      /\ \A k \in 1 .. Len(reports) : reports[k] \in ReportRecord
  BY <1>3, ElementOfSeq
<1>6. \A i \in DOMAIN venue : venue[i] \in VenueOrder
  BY DEF SessionTyped
<1> QED BY <1>1, <1>2, <1>4, <1>5, <1>6

\* The lots on the wire can be counted.
LEMMA InFlightCounts ==
  ASSUME NEW reps \in Seq(ReportRecord), NEW i
  PROVE  InFlight(reps, i) \in Nat
<1>1. \A r \in ReportRecord : r.quantity \in Nat
  BY DEF ReportRecord
<1> QED BY <1>1, LotsCounted

\* The engine times orders out, ages them, or asks for a cancel: no order is
\* reopened, and no request is made for what the venue has not seen or refused.
Recalls ==
  /\ UNCHANGED <<venue, reports, duplicates, overtaken>>
  /\ expired \subseteq expired' /\ expired' \subseteq 1 .. oms.next - 1
  /\ IInv(oms') /\ oms'.next = oms.next /\ oms'.breaks = oms.breaks
  /\ Tracked(oms') \subseteq Tracked(oms)
  /\ Working(oms') \subseteq Working(oms) /\ Working(oms) \ expired' \subseteq Working(oms')
  /\ \A i \in Tracked(oms') :
       /\ oms'.order[i].quantity = oms.order[i].quantity
       /\ oms'.order[i].filled = oms.order[i].filled
       /\ \/ oms'.order[i].state \in {oms.order[i].state, "Expired"}
          \/ /\ oms.order[i].state \in {"New", "PartiallyFilled"}
             /\ oms'.order[i].state = "PendingCancel"
             /\ \E k \in DOMAIN requests' \ DOMAIN requests :
                  requests'[k].what = "Cancel" /\ requests'[k].id = i
  /\ requests' \in Seq(RequestRecord) /\ DOMAIN requests \subseteq DOMAIN requests'
  /\ \A k \in DOMAIN requests : requests'[k] = requests[k]
  /\ \A k \in DOMAIN requests' \ DOMAIN requests :
       /\ requests'[k].what = "Cancel" /\ requests'[k].id \in DOMAIN venue
       /\ \A j \in DOMAIN reports :
            reports[j].type = "VenueRejected" => reports[j].id # requests'[k].id

\* It preserves the invariant.
LEMMA OmsStepKeeps ==
  ASSUME SessionInv, Recalls
  PROVE  SessionInv'
<1> USE DEF Recalls
<1>1. /\ SessionTyped /\ RequestsSound /\ UnseenIsUntouched /\ SomethingIsLeft
      /\ ReportsSound /\ VenueSound /\ AnswersFirst
  BY DEF SessionInv
<1>2. SessionTyped'
  BY <1>1 DEF SessionTyped
<1>3. RequestsSound'
  <2> SUFFICES ASSUME NEW k \in DOMAIN requests'
               PROVE  LET q == requests'[k]
                      IN  /\ q.what = "New" =>
                               /\ q.id \notin DOMAIN venue' /\ q.id \in 1 .. oms'.next - 1
                               /\ q.quantity \in 1 .. MaxQuantity
                               /\ q.id \in Tracked(oms') =>
                                    oms'.order[q.id].quantity = q.quantity
                               /\ \A j \in DOMAIN requests' :
                                    requests'[j].what = "New" /\ requests'[j].id = q.id => j = k
                          /\ q.what = "Cancel" => q.id \in DOMAIN venue'
    BY DEF RequestsSound
  <2>1. CASE k \in DOMAIN requests /\ requests'[k] = requests[k]
    BY <1>1, <2>1 DEF RequestsSound
  <2>2. CASE requests'[k].what = "Cancel" /\ requests'[k].id \in DOMAIN venue
    BY <2>2
  <2> QED BY <2>1, <2>2
<1>4. UnseenIsUntouched'
  BY <1>1 DEF UnseenIsUntouched
<1>5. ReportsSound'
  <2>1. \A i \in Working(oms') :
          i \in Tracked(oms) /\ (oms.order[i].state = "PendingNew" => oms'.order[i].state = "PendingNew")
    BY DEF Working, Live
  <2>2. \A k \in DOMAIN reports : reports[k].type = "VenueRejected" =>
          \A j \in DOMAIN requests' : requests'[j].id # reports[k].id
    BY <1>1 DEF ReportsSound
  <2> QED BY <1>1, <2>1, <2>2 DEF ReportsSound
<1>6. VenueSound'
  BY <1>1 DEF VenueSound
<1>7. AnswersFirst'
  <2>1. Unanswered(oms') \subseteq Unanswered(oms)
    BY DEF Unanswered
  <2> QED BY <1>1, <2>1 DEF AnswersFirst
<1>8. ASSUME duplicates' = 0 PROVE LotsAccounted' /\ LiveIsWorking' /\ DeadIsReported'
  <2>1. LotsAccounted /\ LiveIsWorking /\ DeadIsReported
    BY <1>8 DEF SessionInv
  <2>2. LotsAccounted'
    BY <2>1 DEF LotsAccounted, Misfit
  <2>3. LiveIsWorking'
    <3>1. \A i \in DOMAIN venue \ expired' : venue[i].live => i \in Working(oms')
      BY <2>1 DEF LiveIsWorking
    <3>2. \A k \in DOMAIN requests' :
            requests'[k].what = "New" => k \in DOMAIN requests /\ requests'[k] = requests[k]
      OBVIOUS
    <3>3. \A k \in DOMAIN requests' :
            requests'[k].what = "New" /\ requests'[k].id \notin expired' =>
              requests'[k].id \in Working(oms')
      <4> SUFFICES ASSUME NEW k \in DOMAIN requests', requests'[k].what = "New",
                          requests'[k].id \notin expired'
                   PROVE  requests'[k].id \in Working(oms')
        OBVIOUS
      <4>1. requests[k].id \in Working(oms)
        BY <2>1, <3>2 DEF LiveIsWorking
      <4> QED BY <3>2, <4>1
    <3> QED BY <3>1, <3>3 DEF LiveIsWorking
  <2>4. DeadIsReported'
    <3>1. \A i \in Working(oms') : oms'.order[i].quantity = oms.order[i].quantity
      BY DEF Working
    <3> QED BY <2>1, <3>1 DEF DeadIsReported, Misfit
  <2> QED BY <2>2, <2>3, <2>4
<1>9. SomethingIsLeft'
  <2>1. Working(oms') \subseteq Tracked(oms')
    BY DEF Working
  <2> QED BY <1>1, <2>1 DEF SomethingIsLeft
<1> QED BY <1>2, <1>3, <1>4, <1>5, <1>6, <1>7, <1>8, <1>9 DEF SessionInv

\* Sweep recalls: what it lets go is reported as given up.
LEMMA SweepRecalls ==
  ASSUME SessionInv, Sweep
  PROVE  Recalls
<1>1. PICK walk \in WalkOrders(Overdue(oms)) : oms' = SweepTimeouts(oms, walk)
  BY DEF Sweep
<1>2. /\ expired' = expired \cup Overdue(oms)
      /\ UNCHANGED <<venue, reports, requests, duplicates, overtaken>>
  BY DEF Sweep, wireFaults
<1>3. SessionTyped
  BY DEF SessionInv
<1>4. IInv(oms')
  BY <1>1, <1>3, Entries, SweepKeeps
<1>5. /\ oms'.next = oms.next /\ oms'.breaks = oms.breaks
      /\ Tracked(oms') \subseteq Tracked(oms)
      /\ Working(oms') = Working(oms) \ Overdue(oms)
      /\ \A i \in Tracked(oms') :
           /\ oms'.order[i].quantity = oms.order[i].quantity
           /\ oms'.order[i].filled = oms.order[i].filled
           /\ oms'.order[i].state \in {oms.order[i].state, "Expired"}
  BY <1>1, <1>3, Entries, SweepMovesOn
<1>6. expired' \subseteq 1 .. oms.next - 1
  <2>1. \A i \in Overdue(oms) : i \in Nat \ {0} /\ i < oms.next /\ oms.next \in Nat
    BY <1>3, Entries DEF Overdue, Unanswered, Typed
  <2> QED BY <1>2, <1>3, <2>1 DEF SessionTyped
<1>7. requests' \in Seq(RequestRecord)
  BY <1>2, <1>3 DEF SessionTyped
<1> QED BY <1>2, <1>4, <1>5, <1>6, <1>7 DEF Recalls

\* Tick recalls nothing.
LEMMA TickRecalls ==
  ASSUME SessionInv, Tick
  PROVE  Recalls
<1>1. /\ oms' = Older(oms)
      /\ UNCHANGED <<expired, venue, requests, reports, duplicates, overtaken>>
  BY DEF Tick, wireFaults
<1>2. SessionTyped /\ IInv(oms) /\ Typed(oms)
  BY Entries DEF SessionInv
<1>3. IInv(oms') /\ oms'.next = oms.next /\ oms'.breaks = oms.breaks
  <2>1. oms'.next = oms.next /\ oms'.breaks = oms.breaks
    BY <1>1, <1>2 DEF Older, Typed
  <2> QED BY <1>1, <1>2, <2>1, OlderKeeps
<1>4. /\ Tracked(oms') = Tracked(oms)
      /\ \A i \in Tracked(oms) :
           /\ oms'.order[i].quantity = oms.order[i].quantity
           /\ oms'.order[i].filled = oms.order[i].filled
           /\ oms'.order[i].state = oms.order[i].state
  BY <1>1, <1>2, OlderRemembers
<1>5. Working(oms') = Working(oms)
  BY <1>4 DEF Working
<1>6. requests' \in Seq(RequestRecord) /\ expired' \subseteq 1 .. oms.next - 1
  BY <1>1, <1>2 DEF SessionTyped
<1> QED BY <1>1, <1>3, <1>4, <1>5, <1>6 DEF Recalls

\* Cancel recalls one order: it is asked only of an order the venue has
\* acknowledged or traded.
LEMMA CancelRecalls ==
  ASSUME SessionInv, NEW id \in Tracked(oms), Cancel(id)
  PROVE  Recalls
<1> DEFINE q == CancelRequest(id)
<1>1. /\ Cancellable(oms, id) /\ oms' = SetState(oms, id, "PendingCancel")
      /\ requests' = Append(requests, q)
      /\ UNCHANGED <<expired, venue, reports, duplicates, overtaken>>
  BY DEF Cancel, RequestCancel, wireFaults
<1>2. SessionTyped /\ UnseenIsUntouched /\ ReportsSound
  BY DEF SessionInv
<1>3. /\ IInv(oms) /\ Typed(oms) /\ id \in Working(oms) /\ id \in Nat
      /\ oms.order[id].state \in {"New", "PartiallyFilled"}
  BY <1>1, <1>2, Entries DEF Cancellable, Working, Live
<1>4. IInv(oms')
  BY <1>3, RequestCancelKeeps, Zenon DEF Cancel
<1>5. /\ MovesOn(oms, oms', id, 0) /\ id \in Working(oms')
      /\ oms'.order[id].state = "PendingCancel" /\ oms'.breaks = oms.breaks
  <2>1. oms'.breaks = oms.breaks
    BY <1>1, <1>3 DEF SetState, Typed
  <2> QED BY <1>1, <1>3, <2>1, SetStateMovesOn DEF Live
<1>6. /\ oms'.next = oms.next /\ Tracked(oms') \subseteq Tracked(oms)
      /\ Working(oms') = Working(oms)
  BY <1>3, <1>5 DEF MovesOn, Within
<1>7. \A i \in Tracked(oms') :
        /\ oms'.order[i].quantity = oms.order[i].quantity
        /\ oms'.order[i].filled = oms.order[i].filled
        /\ \/ oms'.order[i].state = oms.order[i].state
           \/ /\ oms.order[i].state \in {"New", "PartiallyFilled"}
              /\ oms'.order[i].state = "PendingCancel" /\ i = id
  <2>1. oms.order[id].filled \in Nat
    BY <1>2, Entries
  <2> QED BY <1>3, <1>5, <2>1 DEF MovesOn, Within
<1>8. q \in RequestRecord /\ q.what = "Cancel" /\ q.id = id
  BY <1>3 DEF CancelRequest, RequestRecord
<1>9. /\ id \in DOMAIN venue
      /\ \A j \in DOMAIN reports : reports[j].type = "VenueRejected" => reports[j].id # id
  BY <1>2, <1>3 DEF UnseenIsUntouched, ReportsSound
<1> HIDE DEF q
<1>10. /\ requests' \in Seq(RequestRecord) /\ DOMAIN requests \subseteq DOMAIN requests'
       /\ \A k \in DOMAIN requests : requests'[k] = requests[k]
       /\ \A k \in DOMAIN requests' \ DOMAIN requests : requests'[k] = q
       /\ \E k \in DOMAIN requests' \ DOMAIN requests : requests'[k] = q
  <2>1. requests \in Seq(RequestRecord)
    BY <1>2 DEF SessionTyped
  <2>2. /\ requests' \in Seq(RequestRecord) /\ Len(requests) \in Nat
        /\ DOMAIN requests = 1 .. Len(requests)
        /\ Len(requests') = Len(requests) + 1 /\ DOMAIN requests' = 1 .. Len(requests')
        /\ \A k \in 1 .. Len(requests) : requests'[k] = requests[k]
        /\ requests'[Len(requests) + 1] = q
    BY <1>1, <1>8, <2>1, AppendProperties, LenProperties
  <2> QED BY <2>2
<1>11. expired' \subseteq 1 .. oms.next - 1
  BY <1>1, <1>2 DEF SessionTyped
<1> QED BY <1>1, <1>4, <1>5, <1>6, <1>7, <1>8, <1>9, <1>10, <1>11 DEF Recalls

\* Send preserves the invariant: an order is sent under a fresh id, once.
LEMMA SendStep ==
  ASSUME SessionInv, NEW quantity \in 1 .. MaxQuantity, Send(quantity)
  PROVE  SessionInv'
<1> DEFINE id == oms.next
           q  == NewOrder(id, quantity)
           can == CanCreate(oms, id, quantity)
<1>1. PICK s \in Symbol, d \in Side : oms' = Create(oms, s, d, quantity)
  BY DEF Send
<1>2. /\ id <= MaxId
      /\ requests' = IF can THEN Append(requests, q) ELSE requests
      /\ UNCHANGED <<expired, venue, reports, duplicates, overtaken>>
  BY DEF Send, wireFaults
<1>3. /\ SessionTyped /\ RequestsSound /\ UnseenIsUntouched /\ SomethingIsLeft
      /\ ReportsSound /\ VenueSound /\ AnswersFirst
  BY DEF SessionInv
<1>4. /\ IInv(oms) /\ id \in Nat /\ id # 0 /\ quantity \in Nat \ {0}
      /\ \A i \in Tracked(oms) : i < id
      /\ MaxId \in Nat
  <2>1. IInv(oms) /\ Typed(oms)
    BY <1>3, Entries
  <2> QED BY <2>1, VenueSessionConstants DEF VenueSessionConstants, Typed
<1>5. /\ Tracked(oms) \subseteq Tracked(oms') /\ Tracked(oms') \subseteq Tracked(oms) \cup {id}
      /\ \A i \in Tracked(oms) : oms'.order[i] = oms.order[i]
      /\ oms.breaks \subseteq oms'.breaks
      /\ ~can => oms'.next = oms.next /\ oms'.order = oms.order
      /\ can => oms'.next = id + 1
  BY <1>1, <1>4, CreateAdvances DEF Create
<1>6. /\ IInv(oms')
      /\ can => /\ id \in Working(oms') /\ oms'.order[id].state = "PendingNew"
                /\ oms'.order[id].filled = 0 /\ oms'.order[id].quantity = quantity
  <2> DEFINE rec == [symbol |-> s, side |-> d, quantity |-> quantity, filled |-> 0,
                     leaves |-> quantity, state |-> "PendingNew", age |-> 0]
             n   == CreateWithId(oms, id, s, d, quantity)
  <2>1. IInv(n) /\ (can => id \in Working(n) /\ n.order[id] = rec)
    BY <1>4, CreateKeeps
  <2>2. rec.state = "PendingNew" /\ rec.filled = 0 /\ rec.quantity = quantity
    OBVIOUS
  <2>3. oms' = n
    BY <1>1 DEF Create
  <2> HIDE DEF n, rec, can
  <2> QED BY <2>1, <2>2, <2>3
<1>7. /\ q \in RequestRecord /\ q.what = "New" /\ q.id = id /\ q.quantity = quantity
  BY <1>4 DEF NewOrder, RequestRecord
<1>8. /\ id \notin DOMAIN venue /\ id \notin expired /\ id \notin Tracked(oms)
      /\ \A k \in DOMAIN requests : requests[k].what = "New" => requests[k].id # id
  BY <1>3, <1>4 DEF SessionTyped, RequestsSound
<1>9. requests \in Seq(RequestRecord) /\ Len(requests) \in Nat
      /\ DOMAIN requests = 1 .. Len(requests)
  BY <1>3, Entries DEF SessionTyped
<1> HIDE DEF q, can
<1>10. /\ requests' \in Seq(RequestRecord) /\ DOMAIN requests \subseteq DOMAIN requests'
       /\ \A k \in DOMAIN requests : requests'[k] = requests[k]
       /\ \A k \in DOMAIN requests' \ DOMAIN requests :
            can /\ k = Len(requests) + 1 /\ requests'[k] = q
  <2>1. CASE can
    <3>1. /\ requests' \in Seq(RequestRecord) /\ Len(requests') = Len(requests) + 1
          /\ DOMAIN requests' = 1 .. Len(requests')
          /\ \A k \in 1 .. Len(requests) : requests'[k] = requests[k]
          /\ requests'[Len(requests) + 1] = q
      BY <1>2, <1>7, <1>9, <2>1, AppendProperties, LenProperties
    <3> QED BY <1>9, <2>1, <3>1
  <2> QED BY <1>2, <1>9, <2>1
<1>11. oms'.next \in Nat /\ oms.next <= oms'.next
       /\ (Tracked(oms') # Tracked(oms) => can)
  BY <1>4, <1>5 DEF Tracked
<1>12. Working(oms') \ {id} = Working(oms) /\ Unanswered(oms') \ {id} = Unanswered(oms)
  BY <1>5, <1>8 DEF Working, Unanswered
<1>13. SessionTyped'
  <2>1. oms'.next <= MaxId + 1
    BY <1>2, <1>3, <1>4, <1>5 DEF SessionTyped
  <2>2. /\ expired' \subseteq 1 .. oms'.next - 1 /\ DOMAIN venue' \subseteq 1 .. oms'.next - 1
    BY <1>2, <1>3, <1>4, <1>11 DEF SessionTyped
  <2>3. /\ venue' \in [DOMAIN venue' -> VenueOrder] /\ reports' \in Seq(ReportRecord)
        /\ duplicates' \in 0 .. MaxDuplicates /\ overtaken' \in BOOLEAN
    BY <1>2, <1>3 DEF SessionTyped
  <2> QED BY <1>6, <1>10, <2>1, <2>2, <2>3 DEF SessionTyped
<1>14. RequestsSound'
  <2> SUFFICES ASSUME NEW k \in DOMAIN requests'
               PROVE  LET r == requests'[k]
                      IN  /\ r.what = "New" =>
                               /\ r.id \notin DOMAIN venue /\ r.id \in 1 .. oms'.next - 1
                               /\ r.quantity \in 1 .. MaxQuantity
                               /\ r.id \in Tracked(oms') =>
                                    oms'.order[r.id].quantity = r.quantity
                               /\ \A j \in DOMAIN requests' :
                                    requests'[j].what = "New" /\ requests'[j].id = r.id => j = k
                          /\ r.what = "Cancel" => r.id \in DOMAIN venue
    BY <1>2 DEF RequestsSound
  <2>1. CASE k \in DOMAIN requests
    <3> DEFINE r == requests[k]
    <3>1. requests'[k] = r
      BY <1>10, <2>1
    <3>2. ASSUME r.what = "New"
          PROVE  /\ r.id \notin DOMAIN venue /\ r.id \in 1 .. oms'.next - 1
                 /\ r.quantity \in 1 .. MaxQuantity /\ r.id # id
      BY <1>3, <1>4, <1>8, <1>11, <2>1, <3>2 DEF RequestsSound
    <3>3. ASSUME r.what = "New", r.id \in Tracked(oms')
          PROVE  oms'.order[r.id].quantity = r.quantity
      BY <1>3, <1>5, <2>1, <3>2, <3>3 DEF RequestsSound
    <3>4. ASSUME r.what = "New", NEW j \in DOMAIN requests',
                 requests'[j].what = "New" /\ requests'[j].id = r.id
          PROVE  j = k
      BY <1>3, <1>7, <1>10, <2>1, <3>2, <3>4 DEF RequestsSound
    <3>5. r.what = "Cancel" => r.id \in DOMAIN venue
      BY <1>3, <2>1 DEF RequestsSound
    <3> HIDE DEF r
    <3> QED BY <3>1, <3>2, <3>3, <3>4, <3>5
  <2>2. CASE k \notin DOMAIN requests
    <3>1. can /\ k = Len(requests) + 1 /\ requests'[k] = q
      BY <1>10, <2>2
    <3>2. id \in 1 .. oms'.next - 1
      BY <1>4, <1>5, <3>1
    <3>3. \A j \in DOMAIN requests' :
            requests'[j].what = "New" /\ requests'[j].id = id => j = k
      BY <1>8, <1>10, <3>1
    <3> QED BY <1>6, <1>7, <1>8, <3>1, <3>2, <3>3
  <2> QED BY <2>1, <2>2
<1>15. UnseenIsUntouched'
  BY <1>2, <1>3, <1>5, <1>6, <1>11 DEF UnseenIsUntouched
<1>16. ReportsSound'
  <2>1. \A k \in DOMAIN reports : reports[k].id # id
    BY <1>3, <1>8 DEF ReportsSound
  <2>2. \A k \in DOMAIN reports : reports[k].type = "VenueRejected" =>
          /\ \A j \in DOMAIN requests' : requests'[j].id # reports[k].id
          /\ reports[k].id \in Working(oms') => oms'.order[reports[k].id].state = "PendingNew"
    <3> SUFFICES ASSUME NEW k \in DOMAIN reports, reports[k].type = "VenueRejected"
                 PROVE  /\ \A j \in DOMAIN requests' : requests'[j].id # reports[k].id
                        /\ reports[k].id \in Working(oms') =>
                             oms'.order[reports[k].id].state = "PendingNew"
      OBVIOUS
    <3>1. \A j \in DOMAIN requests' : requests'[j].id # reports[k].id
      BY <1>3, <1>7, <1>10, <2>1 DEF ReportsSound
    <3>2. reports[k].id \in Working(oms') => oms'.order[reports[k].id].state = "PendingNew"
      <4>1. Working(oms) \subseteq Tracked(oms)
        BY DEF Working
      <4> QED BY <1>3, <1>5, <1>12, <2>1, <4>1 DEF ReportsSound
    <3> QED BY <3>1, <3>2
  <2> QED BY <1>2, <1>3, <2>2 DEF ReportsSound
<1>17. VenueSound'
  BY <1>2, <1>3, <1>5, <1>8 DEF VenueSound
<1>18. AnswersFirst'
  BY <1>2, <1>3, <1>8, <1>12 DEF AnswersFirst
<1>19. ASSUME duplicates' = 0 PROVE LotsAccounted' /\ LiveIsWorking' /\ DeadIsReported'
  <2>1. LotsAccounted /\ LiveIsWorking /\ DeadIsReported
    BY <1>2, <1>19 DEF SessionInv
  <2>2. LotsAccounted'
    <3>1. \A i \in DOMAIN venue \cap Tracked(oms') : i \in Tracked(oms)
      BY <1>5, <1>8
    <3>2. ~Misfit' => ~Misfit
      BY <1>5 DEF Misfit
    <3> QED BY <1>2, <1>5, <1>8, <1>12, <2>1, <3>1, <3>2 DEF LotsAccounted
  <2>3. LiveIsWorking'
    BY <1>2, <1>6, <1>7, <1>8, <1>10, <1>12, <2>1 DEF LiveIsWorking
  <2>4. DeadIsReported'
    <3>1. Working(oms) \subseteq Tracked(oms)
      BY DEF Working
    <3>2. Misfit => Misfit'
      BY <1>5 DEF Misfit
    <3> QED BY <1>2, <1>5, <1>8, <1>12, <2>1, <3>1, <3>2 DEF DeadIsReported
  <2> QED BY <2>2, <2>3, <2>4
<1>20. SomethingIsLeft'
  <2> SUFFICES ASSUME NEW i \in Working(oms') PROVE oms'.order[i].filled < oms'.order[i].quantity
    BY DEF SomethingIsLeft
  <2>1. CASE i # id
    <3>1. i \in Working(oms) /\ i \in Tracked(oms)
      BY <1>12, <2>1 DEF Working
    <3> QED BY <1>3, <1>5, <3>1 DEF SomethingIsLeft
  <2>2. CASE i = id
    <3>1. can
      BY <1>5, <1>8, <2>2 DEF Working, Tracked
    <3> QED BY <1>4, <1>6, <2>2, <3>1
  <2> QED BY <2>1, <2>2
<1> QED BY <1>13, <1>14, <1>15, <1>16, <1>17, <1>18, <1>19, <1>20 DEF SessionInv

-----------------------------------------------------------------------------

\* f says which of the reports each report in left was; k alone may be missing.
ComesFrom(f, reps, k, left) ==
  /\ \A j \in DOMAIN left : f[j] \in DOMAIN reps /\ left[j] = reps[f[j]]
  /\ \A j, l \in DOMAIN left : f[j] = f[l] => j = l
  /\ \A m \in DOMAIN reps \ {k} : \E j \in DOMAIN left : f[j] = m

\* The reports that are left are reports that were there, each once, and only
\* the one delivered may be missing.
LEMMA LeftOver ==
  ASSUME NEW reps \in Seq(ReportRecord), NEW k \in 1 .. Len(reps),
         NEW left, left \in {reps, RemoveAt(reps, k)}
  PROVE  /\ left \in Seq(ReportRecord)
         /\ \E f : ComesFrom(f, reps, k, left)
<1>1. Len(reps) \in Nat /\ DOMAIN reps = 1 .. Len(reps)
  BY LenProperties
<1>2. /\ RemoveAt(reps, k) \in Seq(ReportRecord)
      /\ DOMAIN RemoveAt(reps, k) = 1 .. Len(reps) - 1
      /\ \A j \in 1 .. Len(reps) - 1 :
           RemoveAt(reps, k)[j] = IF j < k THEN reps[j] ELSE reps[j + 1]
  BY Removed, LenProperties
<1>3. CASE left = RemoveAt(reps, k)
  <2> DEFINE f == [j \in 1 .. Len(reps) - 1 |-> IF j < k THEN j ELSE j + 1]
  <2>1. /\ \A j \in DOMAIN left : f[j] \in DOMAIN reps /\ left[j] = reps[f[j]] /\ f[j] # k
        /\ \A j, l \in DOMAIN left : f[j] = f[l] => j = l
    BY <1>1, <1>2, <1>3
  <2>2. ASSUME NEW m \in DOMAIN reps \ {k} PROVE \E j \in DOMAIN left : f[j] = m
    <3> DEFINE j == IF m < k THEN m ELSE m - 1
    <3>1. j \in DOMAIN left /\ f[j] = m
      BY <1>1, <1>2, <1>3
    <3> QED BY <3>1
  <2>3. left \in Seq(ReportRecord)
    BY <1>2, <1>3
  <2> HIDE DEF f
  <2>4. ComesFrom(f, reps, k, left)
    BY <2>1, <2>2 DEF ComesFrom
  <2> QED BY <2>3, <2>4
<1>4. CASE left = reps /\ left # RemoveAt(reps, k)
  <2> DEFINE f == [j \in DOMAIN reps |-> j]
  <2>1. /\ \A j \in DOMAIN left : f[j] \in DOMAIN reps /\ left[j] = reps[f[j]]
        /\ \A j, l \in DOMAIN left : f[j] = f[l] => j = l
        /\ \A m \in DOMAIN reps \ {k} : \E j \in DOMAIN left : f[j] = m
    BY <1>4
  <2> HIDE DEF f
  <2>2. ComesFrom(f, reps, k, left)
    BY <2>1 DEF ComesFrom
  <2> QED BY <1>4, <2>2
<1> QED BY <1>3, <1>4

\* Deliver preserves the invariant.
LEMMA DeliverStep ==
  ASSUME SessionInv, NEW k \in 1 .. MaxInFlight, Deliver(k)
  PROVE  SessionInv'
<1> DEFINE rep  == reports[k]
           x    == rep.id
           more == IF rep.type = "Fill" THEN rep.quantity ELSE 0
<1>1. /\ k \in 1 .. Len(reports) /\ overtaken' = (overtaken \/ k # 1)
      /\ oms' = Apply(oms, rep)
      /\ \/ reports' = RemoveAt(reports, k) /\ duplicates' = duplicates
         \/ /\ reports' = reports /\ duplicates < MaxDuplicates
            /\ duplicates' = duplicates + 1
      /\ UNCHANGED <<expired, venue, requests>>
  BY DEF Deliver
<1>2. /\ SessionTyped /\ RequestsSound /\ UnseenIsUntouched /\ SomethingIsLeft
      /\ ReportsSound /\ VenueSound /\ AnswersFirst
  BY DEF SessionInv
<1>3. /\ IInv(oms) /\ Typed(oms) /\ reports \in Seq(ReportRecord)
      /\ Len(reports) \in Nat /\ DOMAIN reports = 1 .. Len(reports)
      /\ duplicates \in 0 .. MaxDuplicates /\ overtaken \in BOOLEAN
      /\ rep \in ReportRecord /\ rep.type \in ExecType /\ rep.quantity \in Nat
  BY <1>1, <1>2, Entries DEF SessionTyped, ReportRecord
<1>4. /\ x \in DOMAIN venue
      /\ rep.type = "Fill" => rep.quantity > 0
      /\ Closes(rep) => ~venue[x].live
      /\ rep.type = "VenueRejected" =>
           /\ \A j \in DOMAIN reports : reports[j].id = x => j = k
           /\ x \in Working(oms) => oms.order[x].state = "PendingNew"
  BY <1>1, <1>2, <1>3 DEF ReportsSound
<1>5. /\ reports' \in Seq(ReportRecord)
      /\ \E f : ComesFrom(f, reports, k, reports')
  <2>1. /\ reports \in Seq(ReportRecord) /\ k \in 1 .. Len(reports)
        /\ reports' \in {reports, RemoveAt(reports, k)}
    BY <1>1, <1>3
  <2> QED BY ONLY <2>1, LeftOver
<1>6. IInv(oms')
  BY <1>1, <1>3, ApplyKeeps DEF ReadableReport
\* What the report does to the orders.
<1>7. \/ /\ ~Applies(oms, rep) /\ oms'.order = oms.order /\ oms'.breaks # {}
         /\ x \in Tracked(oms) => Misfit'
      \/ /\ Applies(oms, rep) /\ x \in Working(oms) /\ MovesOn(oms, oms', x, more)
         /\ Closes(rep) => x \notin Working(oms')
         /\ rep.type \in {"Acked", "CancelRejected"} => x \in Working(oms')
         /\ oms.order[x].filled + more < oms.order[x].quantity =>
              x \in Working(oms') \/ Closes(rep)
         /\ x \in Working(oms') => oms'.order[x].state # "PendingNew"
         /\ rep.type = "Fill" /\ x \in Working(oms') =>
              oms.order[x].filled + more < oms.order[x].quantity
  BY <1>1, <1>3, RefusedIsCounted, TakenMovesOn DEF ReadableReport, Closes, Misfit
<1>8. /\ oms'.next = oms.next /\ oms.breaks \subseteq oms'.breaks
      /\ Tracked(oms') \subseteq Tracked(oms) /\ Working(oms') \subseteq Working(oms)
      /\ Working(oms) \ {x} \subseteq Working(oms')
      /\ \A i \in Tracked(oms') : i # x => oms'.order[i] = oms.order[i]
      /\ \A i \in Tracked(oms') : oms'.order[i].quantity = oms.order[i].quantity
  <2>1. CASE ~Applies(oms, rep)
    <3>1. /\ oms'.order = oms.order /\ oms'.next = oms.next
          /\ oms.breaks \subseteq oms'.breaks
      BY <1>1, <1>3, <2>1, RefusedIsCounted
    <3> QED BY <3>1 DEF Tracked, Working
  <2>2. CASE Applies(oms, rep)
    BY <1>7, <2>2 DEF MovesOn, Within
  <2> QED BY <2>1, <2>2
\* What a report is taken for.
<1>9. /\ x \in Working(oms) /\ rep.type = "Fill" => Applies(oms, rep)
      /\ x \in Unanswered(oms) /\ rep.type \in {"Acked", "VenueRejected"} => Applies(oms, rep)
      /\ x \in Working(oms) \ Unanswered(oms) /\ rep.type = "Cancelled" => Applies(oms, rep)
  BY <1>4 DEF Applies, AcceptedIn, Working, Unanswered, Live
<1> HIDE DEF rep, more, x
<1>10. SessionTyped'
  <2>1. duplicates' \in 0 .. MaxDuplicates
    BY <1>1, <1>3, VenueSessionConstants DEF VenueSessionConstants
  <2>2. overtaken' \in BOOLEAN
    BY <1>1
  <2>3. /\ oms'.next <= MaxId + 1 /\ expired' \subseteq 1 .. oms'.next - 1
        /\ DOMAIN venue' \subseteq 1 .. oms'.next - 1
        /\ venue' \in [DOMAIN venue' -> VenueOrder] /\ requests' \in Seq(RequestRecord)
    BY <1>1, <1>2, <1>8 DEF SessionTyped
  <2> QED BY <1>5, <1>6, <2>1, <2>2, <2>3 DEF SessionTyped
<1>11. RequestsSound'
  BY <1>1, <1>2, <1>8 DEF RequestsSound
<1>12. UnseenIsUntouched'
  BY <1>1, <1>2, <1>4, <1>8 DEF UnseenIsUntouched
<1>13. ReportsSound'
  <2> SUFFICES ASSUME NEW j \in DOMAIN reports'
               PROVE  LET r == reports'[j]
                      IN  /\ r.id \in DOMAIN venue
                          /\ r.type = "Fill" => r.quantity > 0
                          /\ Closes(r) => ~venue[r.id].live
                          /\ r.type = "VenueRejected" =>
                               /\ \A l \in DOMAIN reports' : reports'[l].id = r.id => l = j
                               /\ \A l \in DOMAIN requests : requests[l].id # r.id
                               /\ r.id \in Working(oms') =>
                                    oms'.order[r.id].state = "PendingNew"
    BY <1>1 DEF ReportsSound
  <2> PICK f : ComesFrom(f, reports, k, reports')
    BY <1>5
  <2> DEFINE m == f[j]
             r == reports[m]
  <2>1. m \in DOMAIN reports /\ reports'[j] = r
    BY DEF ComesFrom
  <2>2. /\ r.id \in DOMAIN venue
        /\ r.type = "Fill" => r.quantity > 0
        /\ Closes(r) => ~venue[r.id].live
        /\ r.type = "VenueRejected" => \A l \in DOMAIN requests : requests[l].id # r.id
    BY <1>2, <2>1 DEF ReportsSound
  <2>3. ASSUME r.type = "VenueRejected", NEW l \in DOMAIN reports', reports'[l].id = r.id
        PROVE  l = j
    <3>1. f[l] \in DOMAIN reports /\ reports[f[l]].id = r.id
      BY <2>3 DEF ComesFrom
    <3>2. f[l] = m
      BY <1>2, <2>1, <2>3, <3>1 DEF ReportsSound
    <3> QED BY <2>3, <3>2 DEF ComesFrom
  <2>4. ASSUME r.type = "VenueRejected", r.id \in Working(oms')
        PROVE  oms'.order[r.id].state = "PendingNew"
    <3>1. r.id \in Working(oms) /\ r.id \in Tracked(oms') /\ oms.order[r.id].state = "PendingNew"
      BY <1>2, <1>8, <2>1, <2>4 DEF ReportsSound, Working
    <3>2. CASE r.id # x
      BY <1>8, <3>1, <3>2
    <3>3. CASE r.id = x
      <4>1. m = k
        BY <1>1, <1>2, <1>3, <2>1, <2>4, <3>3 DEF ReportsSound, x, rep
      <4>2. rep.type = "VenueRejected"
        BY <2>4, <4>1 DEF rep
      <4>3. ~Applies(oms, rep)
        BY <1>7, <2>4, <3>3, <4>2 DEF Closes
      <4> QED BY <1>7, <3>1, <4>3
    <3> QED BY <3>2, <3>3
  <2> HIDE DEF m, r
  <2> QED BY <2>1, <2>2, <2>3, <2>4
<1>14. VenueSound'
  BY <1>1, <1>2, <1>8 DEF VenueSound
<1>15. AnswersFirst'
  <2> SUFFICES ASSUME ~overtaken', NEW i \in Unanswered(oms') \cap DOMAIN venue
               PROVE  \E j \in DOMAIN reports' :
                        /\ reports'[j].id = i /\ reports'[j].type \in {"Acked", "VenueRejected"}
                        /\ \A l \in 1 .. j - 1 : reports'[l].id # i
    BY <1>1 DEF AnswersFirst
  <2>1. ~overtaken /\ k = 1
    BY <1>1
  <2>2. i \in Unanswered(oms)
    <3>1. CASE ~Applies(oms, rep)
      BY <1>7, <3>1 DEF Unanswered, Tracked
    <3>2. CASE Applies(oms, rep)
      <4>1. i # x
        BY <1>7, <3>2 DEF Unanswered, Working, Live
      <4> QED BY <1>8, <4>1 DEF Unanswered
    <3> QED BY <3>1, <3>2
  <2>3. PICK m \in DOMAIN reports :
          /\ reports[m].id = i /\ reports[m].type \in {"Acked", "VenueRejected"}
          /\ \A l \in 1 .. m - 1 : reports[l].id # i
    BY <1>2, <2>1, <2>2 DEF AnswersFirst
  <2>4. i # x
    <3> SUFFICES ASSUME i = x PROVE FALSE
      OBVIOUS
    <3>1. m = 1
      BY <1>1, <1>3, <2>1, <2>3 DEF x, rep
    <3>2. Applies(oms, rep)
      BY <1>9, <2>1, <2>2, <2>3, <3>1 DEF rep
    <3> QED BY <1>7, <3>2 DEF Unanswered, Working, Live
  <2>5. m > 1
    BY <1>3, <2>1, <2>3, <2>4 DEF x, rep
  <2>6. CASE reports' = reports
    BY <2>3, <2>6
  <2>7. CASE reports' = RemoveAt(reports, k)
    <3>1. /\ DOMAIN reports' = 1 .. Len(reports) - 1
          /\ \A j \in 1 .. Len(reports) - 1 : reports'[j] = reports[j + 1]
      <4>1. /\ reports' \in Seq(ReportRecord) /\ Len(reports') = Len(reports) - 1
            /\ \A j \in 1 .. Len(reports) - 1 :
                 reports'[j] = IF j < 1 THEN reports[j] ELSE reports[j + 1]
        BY <1>1, <1>3, <2>1, <2>7, Removed
      <4>2. DOMAIN reports' = 1 .. Len(reports')
        BY <4>1, LenProperties
      <4> QED BY <1>3, <4>1, <4>2
    <3> DEFINE j == m - 1
    <3>2. j \in 1 .. Len(reports) - 1 /\ reports'[j] = reports[m]
      BY <1>3, <2>3, <2>5, <3>1
    <3>3. \A l \in 1 .. j - 1 : reports'[l].id # i
      <4>1. \A l \in 1 .. j - 1 : l \in 1 .. Len(reports) - 1 /\ l + 1 \in 1 .. m - 1
        BY <1>3, <2>3, <3>2
      <4> QED BY <2>3, <3>1, <4>1
    <3> HIDE DEF j
    <3> QED BY <2>3, <3>1, <3>2, <3>3
  <2> QED BY <1>1, <2>6, <2>7
<1>16. ASSUME duplicates' = 0 PROVE LotsAccounted' /\ LiveIsWorking' /\ DeadIsReported'
  <2>1. /\ duplicates = 0 /\ reports' = RemoveAt(reports, k)
        /\ LotsAccounted /\ LiveIsWorking /\ DeadIsReported
    <3>1. duplicates = 0 /\ reports' = RemoveAt(reports, k)
      BY <1>1, <1>3, <1>16
    <3> QED BY <3>1 DEF SessionInv
  <2>2. \A i : LET taken == IF i = x THEN more ELSE 0
               IN  /\ InFlight(reports, i) = InFlight(reports', i) + taken
                   /\ InFlight(reports', i) \in Nat /\ taken \in Nat
    <3> SUFFICES ASSUME NEW i
                 PROVE  LET taken == IF i = x THEN more ELSE 0
                        IN  /\ InFlight(reports, i) = InFlight(reports', i) + taken
                            /\ InFlight(reports', i) \in Nat /\ taken \in Nat
      OBVIOUS
    <3> DEFINE lots == IF reports[k].id = i /\ reports[k].type = "Fill"
                       THEN reports[k].quantity ELSE 0
    <3>1. /\ InFlight(reports, i) = InFlight(RemoveAt(reports, k), i) + lots
          /\ InFlight(RemoveAt(reports, k), i) \in Nat /\ lots \in Nat
      BY <1>1, <1>3, InFlightRemoved
    <3>2. lots = IF i = x THEN more ELSE 0
      BY DEF x, more, rep
    <3> HIDE DEF lots
    <3> QED BY <2>1, <3>1, <3>2
  <2>3. LotsAccounted'
    <3> SUFFICES ASSUME NEW i \in DOMAIN venue \cap Tracked(oms')
                 PROVE  LET known == oms'.order[i].filled + InFlight(reports', i)
                        IN  /\ known <= venue[i].executed
                            /\ i \in Working(oms') \/ ~Misfit' =>
                                 known = venue[i].executed
      BY <1>1 DEF LotsAccounted
    <3> DEFINE known == oms.order[i].filled + InFlight(reports, i)
    <3>1. /\ i \in Tracked(oms)
          /\ known <= venue[i].executed
          /\ i \in Working(oms) \/ ~Misfit => known = venue[i].executed
      BY <1>8, <2>1 DEF LotsAccounted
    <3>2. /\ oms.order[i].filled \in Nat /\ venue[i].executed \in Nat
      BY <1>2, <3>1, Entries DEF VenueOrder
    <3>3. /\ InFlight(reports, i) = InFlight(reports', i) + (IF i = x THEN more ELSE 0)
          /\ InFlight(reports', i) \in Nat /\ (IF i = x THEN more ELSE 0) \in Nat
      BY <2>2
    <3>4. CASE i # x
      BY <1>8, <3>1, <3>2, <3>3, <3>4 DEF Misfit
    <3>5. CASE i = x /\ Applies(oms, rep)
      <4>1. oms'.order[i].filled = oms.order[i].filled + more /\ i \in Working(oms)
        BY <1>7, <3>5 DEF MovesOn
      <4> QED BY <3>1, <3>2, <3>3, <3>5, <4>1
    <3>6. CASE i = x /\ ~Applies(oms, rep)
      <4>1. oms'.order = oms.order /\ Misfit'
        BY <1>7, <3>1, <3>6
      <4>2. i \in Working(oms') => i \in Working(oms) /\ more = 0
        BY <1>8, <1>9, <3>6 DEF more
      <4> QED BY <3>1, <3>2, <3>3, <3>6, <4>1, <4>2
    <3> QED BY <3>4, <3>5, <3>6
  <2>4. LiveIsWorking'
    <3>1. ASSUME NEW i \in DOMAIN venue \ expired, venue[i].live PROVE i \in Working(oms')
      <4>1. i \in Working(oms) /\ i \in Tracked(oms)
        BY <2>1, <3>1 DEF LiveIsWorking, Working
      <4>2. CASE i # x
        BY <1>8, <4>1, <4>2
      <4>3. CASE i = x /\ ~Applies(oms, rep)
        BY <1>7, <4>1, <4>3 DEF Working, Tracked
      <4>4. CASE i = x /\ Applies(oms, rep)
        <5>1. oms.order[i].filled + InFlight(reports, i) = venue[i].executed
          BY <2>1, <4>1 DEF LotsAccounted
        <5>2. venue[i].leaves > 0 /\ venue[i].leaves + venue[i].executed = oms.order[i].quantity
          BY <1>2, <3>1, <4>1 DEF VenueSound
        <5>3. /\ oms.order[i].filled \in Nat /\ oms.order[i].quantity \in Nat
              /\ venue[i].executed \in Nat /\ venue[i].leaves \in Nat
          BY <1>2, <4>1, Entries DEF VenueOrder
        <5>4. /\ InFlight(reports, i) = InFlight(reports', i) + more
              /\ InFlight(reports', i) \in Nat /\ more \in Nat
          BY <2>2, <4>4
        <5>5. oms.order[i].filled + more < oms.order[i].quantity
          BY <5>1, <5>2, <5>3, <5>4
        <5> QED BY <1>4, <1>7, <3>1, <4>4, <5>5
      <4> QED BY <4>2, <4>3, <4>4
    <3>2. ASSUME NEW j \in DOMAIN requests, requests[j].what = "New", requests[j].id \notin expired
          PROVE  requests[j].id \in Working(oms')
      <4>1. requests[j].id \in Working(oms)
        BY <2>1, <3>2 DEF LiveIsWorking
      <4>2. requests[j].id # x
        BY <1>2, <1>4, <3>2 DEF RequestsSound
      <4> QED BY <1>8, <4>1, <4>2
    <3> QED BY <1>1, <3>1, <3>2 DEF LiveIsWorking
  <2>5. DeadIsReported'
    <3> SUFFICES ASSUME NEW i \in DOMAIN venue \cap Working(oms')
                 PROVE  \/ venue[i].live \/ venue[i].executed = oms'.order[i].quantity
                        \/ \E j \in DOMAIN reports' : reports'[j].id = i /\ Closes(reports'[j])
                        \/ overtaken' /\ Misfit'
      BY <1>1 DEF DeadIsReported
    <3>1. /\ i \in Working(oms) /\ i \in Tracked(oms')
          /\ oms'.order[i].quantity = oms.order[i].quantity
      BY <1>8 DEF Working
    <3>2. \/ venue[i].live \/ venue[i].executed = oms.order[i].quantity
          \/ \E j \in DOMAIN reports : reports[j].id = i /\ Closes(reports[j])
          \/ overtaken /\ Misfit
      BY <2>1, <3>1 DEF DeadIsReported
    <3>3. CASE overtaken /\ Misfit
      BY <1>1, <1>8, <3>3 DEF Misfit
    <3>4. CASE \E j \in DOMAIN reports : reports[j].id = i /\ Closes(reports[j])
      <4>1. PICK j \in DOMAIN reports : reports[j].id = i /\ Closes(reports[j])
        BY <3>4
      <4>2. CASE j # k
        BY <1>5, <4>1, <4>2 DEF ComesFrom
      <4>3. CASE j = k
        <5>1. i = x /\ Closes(rep)
          BY <4>1, <4>3 DEF x, rep
        <5>2. ~Applies(oms, rep)
          BY <1>7, <5>1
        <5>3. rep.type = "Cancelled" /\ i \in Unanswered(oms)
          BY <1>4, <1>9, <3>1, <5>1, <5>2 DEF Closes, Unanswered, Working
        <5>4. ASSUME ~overtaken, k = 1 PROVE FALSE
          <6>1. PICK m \in DOMAIN reports :
                  /\ reports[m].id = i /\ reports[m].type \in {"Acked", "VenueRejected"}
                  /\ \A l \in 1 .. m - 1 : reports[l].id # i
            BY <1>2, <5>3, <5>4 DEF AnswersFirst
          <6>2. m = 1
            BY <1>3, <4>1, <4>3, <5>4, <6>1
          <6> QED BY <5>3, <5>4, <6>1, <6>2 DEF rep
        <5> QED BY <1>1, <1>7, <1>8, <3>1, <5>1, <5>2, <5>4
      <4> QED BY <4>2, <4>3
    <3> QED BY <3>1, <3>2, <3>3, <3>4
  <2> QED BY <2>3, <2>4, <2>5
<1>17. SomethingIsLeft'
  <2> SUFFICES ASSUME NEW i \in Working(oms') PROVE oms'.order[i].filled < oms'.order[i].quantity
    BY DEF SomethingIsLeft
  <2>1. /\ i \in Working(oms) /\ i \in Tracked(oms') /\ i \in Tracked(oms)
        /\ oms.order[i].filled < oms.order[i].quantity
        /\ oms'.order[i].quantity = oms.order[i].quantity
    BY <1>2, <1>8 DEF SomethingIsLeft, Working
  <2>2. CASE i # x
    BY <1>8, <2>1, <2>2
  <2>3. CASE i = x /\ ~Applies(oms, rep)
    BY <1>7, <2>1, <2>3
  <2>4. CASE i = x /\ Applies(oms, rep)
    <3>1. oms'.order[x].filled = oms.order[x].filled + more
      BY <1>7, <2>4 DEF MovesOn
    <3>2. CASE rep.type = "Fill"
      BY <1>7, <2>1, <2>4, <3>1, <3>2
    <3>3. CASE rep.type # "Fill"
      <4>1. more = 0 /\ oms.order[x].filled \in Nat
        BY <1>2, <2>1, <2>4, <3>3, Entries DEF more
      <4> QED BY <2>1, <2>4, <3>1, <4>1
    <3> QED BY <3>2, <3>3
  <2> QED BY <2>2, <2>3, <2>4
<1> QED BY <1>10, <1>11, <1>12, <1>13, <1>14, <1>15, <1>16, <1>17 DEF SessionInv

-----------------------------------------------------------------------------

\* The venue says one thing more, rep, of one order, x, which it may be seeing
\* for the first time, having taken at most the oldest request; what it says
\* fits what it writes into its book.
Says(rep, x, taken) ==
  /\ rep \in ReportRecord /\ rep.id = x /\ x \in 1 .. oms.next - 1
  /\ UNCHANGED <<oms, expired, duplicates, overtaken>>
  /\ reports' = Append(reports, rep)
  /\ taken \in {0, 1} /\ requests' \in Seq(RequestRecord)
  /\ \A k \in DOMAIN requests' :
       /\ k + taken \in DOMAIN requests /\ requests'[k] = requests[k + taken]
       /\ requests'[k].what = "New" => requests'[k].id # x
  /\ DOMAIN venue' = DOMAIN venue \cup {x} /\ venue' \in [DOMAIN venue' -> VenueOrder]
  /\ \A i \in DOMAIN venue \ {x} : venue'[i] = venue[i]
  /\ rep.type \in {"Acked", "VenueRejected"} <=> x \notin DOMAIN venue
  /\ rep.type = "Fill" => rep.quantity > 0
  /\ Closes(rep) => ~venue'[x].live
  /\ \A k \in DOMAIN reports : reports[k].id = x => reports[k].type # "VenueRejected"
  /\ x \in DOMAIN venue /\ venue'[x].live => venue[x].live
  /\ venue'[x].live <=> venue'[x].leaves > 0
  /\ venue'[x].leaves + venue'[x].executed <= MaxQuantity
  /\ venue'[x].live /\ x \in Tracked(oms) =>
       venue'[x].leaves + venue'[x].executed = oms.order[x].quantity
  /\ venue'[x].executed = (IF x \in DOMAIN venue THEN venue[x].executed ELSE 0)
                            + (IF rep.type = "Fill" THEN rep.quantity ELSE 0)
  /\ duplicates = 0 /\ venue'[x].live /\ x \notin expired => x \in Working(oms)
  /\ x \in Working(oms) =>
       \/ venue'[x].live \/ venue'[x].executed = oms.order[x].quantity \/ Closes(rep)
       \/ x \in DOMAIN venue /\ ~venue[x].live /\ venue'[x].executed = venue[x].executed

\* What the venue says answers what it takes: a cancel is granted for a live order
\* and refused for a dead one; the other requests stay on the wire.
Answers(rep, x, taken) ==
  /\ Says(rep, x, taken)
  /\ rep.type = "CancelRejected" => ~venue'[x].live
  /\ \A k \in DOMAIN requests :
       k > taken => k - taken \in DOMAIN requests' /\ requests'[k - taken] = requests[k]
  /\ taken = 1 /\ requests[1].what = "Cancel" =>
       requests[1].id = x /\ (rep.type = "CancelRejected" \/ venue[x].live)

\* A venue whose reports fit its book preserves the invariant.
LEMMA VenueStepKeeps ==
  ASSUME SessionInv, NEW rep, NEW x, NEW taken, Says(rep, x, taken)
  PROVE  SessionInv'
<1> USE DEF Says
<1>1. /\ SessionTyped /\ RequestsSound /\ UnseenIsUntouched /\ SomethingIsLeft
      /\ ReportsSound /\ VenueSound /\ AnswersFirst
  BY DEF SessionInv
<1>2. /\ DOMAIN requests' = 1 .. Len(requests') /\ Len(requests') \in Nat
      /\ DOMAIN requests = 1 .. Len(requests) /\ Len(requests) \in Nat
      /\ reports \in Seq(ReportRecord) /\ Len(reports) \in Nat
      /\ DOMAIN reports = 1 .. Len(reports)
  BY <1>1, LenProperties DEF SessionTyped
<1>3. /\ reports' \in Seq(ReportRecord) /\ DOMAIN reports' = 1 .. Len(reports) + 1
      /\ \A k \in DOMAIN reports : reports'[k] = reports[k]
      /\ reports'[Len(reports) + 1] = rep
  BY <1>2, AppendProperties, LenProperties
<1>4. \A k \in DOMAIN reports : reports[k].id \in DOMAIN venue
  BY <1>1 DEF ReportsSound
<1>5. SessionTyped'
  BY <1>1, <1>3 DEF SessionTyped
<1>6. RequestsSound'
  <2> SUFFICES ASSUME NEW k \in DOMAIN requests'
               PROVE  LET q == requests'[k]
                      IN  /\ q.what = "New" =>
                               /\ q.id \notin DOMAIN venue' /\ q.id \in 1 .. oms.next - 1
                               /\ q.quantity \in 1 .. MaxQuantity
                               /\ q.id \in Tracked(oms) => oms.order[q.id].quantity = q.quantity
                               /\ \A j \in DOMAIN requests' :
                                    requests'[j].what = "New" /\ requests'[j].id = q.id => j = k
                          /\ q.what = "Cancel" => q.id \in DOMAIN venue'
    BY DEF RequestsSound
  <2> DEFINE q == requests'[k]
  <2>1. k + taken \in DOMAIN requests /\ q = requests[k + taken]
    OBVIOUS
  <2>2. ASSUME q.what = "New"
        PROVE  /\ q.id \notin DOMAIN venue' /\ q.id \in 1 .. oms.next - 1
               /\ q.quantity \in 1 .. MaxQuantity
               /\ q.id \in Tracked(oms) => oms.order[q.id].quantity = q.quantity
    BY <1>1, <2>1, <2>2 DEF RequestsSound
  <2>3. ASSUME q.what = "New", NEW j \in DOMAIN requests',
               requests'[j].what = "New", requests'[j].id = q.id
        PROVE  j = k
    <3>1. j + taken = k + taken
      BY <1>1, <2>1, <2>3 DEF RequestsSound
    <3> QED BY <1>2, <3>1
  <2>4. q.what = "Cancel" => q.id \in DOMAIN venue'
    BY <1>1, <2>1 DEF RequestsSound
  <2> HIDE DEF q
  <2> QED BY <2>2, <2>3, <2>4 DEF q
<1>7. UnseenIsUntouched' /\ SomethingIsLeft'
  BY <1>1 DEF UnseenIsUntouched, SomethingIsLeft
<1>8. ReportsSound'
  <2> SUFFICES ASSUME NEW k \in DOMAIN reports'
               PROVE  LET r == reports'[k]
                      IN  /\ r.id \in DOMAIN venue'
                          /\ r.type = "Fill" => r.quantity > 0
                          /\ Closes(r) => ~venue'[r.id].live
                          /\ r.type = "VenueRejected" =>
                               /\ \A j \in DOMAIN reports' : reports'[j].id = r.id => j = k
                               /\ \A j \in DOMAIN requests' : requests'[j].id # r.id
                               /\ r.id \in Working(oms) =>
                                    oms.order[r.id].state = "PendingNew"
    BY DEF ReportsSound
  <2>1. CASE k \in DOMAIN reports
    <3> DEFINE r == reports[k]
    <3>1. reports'[k] = r
      BY <1>3, <2>1
    <3>2. /\ r.id \in DOMAIN venue
          /\ r.type = "Fill" => r.quantity > 0
          /\ Closes(r) => ~venue[r.id].live
          /\ r.type = "VenueRejected" =>
               /\ \A j \in DOMAIN reports : reports[j].id = r.id => j = k
               /\ \A j \in DOMAIN requests : requests[j].id # r.id
               /\ r.id \in Working(oms) => oms.order[r.id].state = "PendingNew"
      BY <1>1, <2>1 DEF ReportsSound
    <3>3. Closes(r) => ~venue'[r.id].live
      BY <3>2
    <3>4. ASSUME r.type = "VenueRejected", NEW j \in DOMAIN reports', reports'[j].id = r.id
          PROVE  j = k
      <4>1. r.id # x
        BY <2>1, <3>4
      <4>2. j \in DOMAIN reports /\ reports[j].id = r.id
        BY <1>2, <1>3, <3>4, <4>1
      <4> QED BY <3>2, <3>4, <4>2
    <3> HIDE DEF r
    <3> QED BY <3>1, <3>2, <3>3, <3>4
  <2>2. CASE k \notin DOMAIN reports
    <3>1. reports'[k] = rep /\ k = Len(reports) + 1
      BY <1>2, <1>3, <2>2
    <3>2. ASSUME rep.type = "VenueRejected"
          PROVE  /\ \A j \in DOMAIN reports' : reports'[j].id = x => j = k
                 /\ \A j \in DOMAIN requests' : requests'[j].id # x
                 /\ x \in Working(oms) => oms.order[x].state = "PendingNew"
      <4>1. x \notin DOMAIN venue
        BY <3>2
      <4>2. \A j \in DOMAIN reports' : reports'[j].id = x => j = k
        BY <1>2, <1>3, <1>4, <3>1, <4>1
      <4>3. \A j \in DOMAIN requests' : requests'[j].id # x
        <5>1. \A j \in DOMAIN requests' : requests'[j].what \in {"New", "Cancel"}
          <6>1. \A j \in 1 .. Len(requests') : requests'[j] \in RequestRecord
            BY ElementOfSeq
          <6> QED BY <1>2, <6>1 DEF RequestRecord
        <5> QED BY <1>1, <4>1, <5>1 DEF RequestsSound
      <4>4. x \in Working(oms) => oms.order[x].state = "PendingNew"
        BY <1>1, <4>1 DEF UnseenIsUntouched, Working, Live
      <4> QED BY <4>2, <4>3, <4>4
    <3> QED BY <3>1, <3>2
  <2> QED BY <2>1, <2>2
<1>9. VenueSound'
  BY <1>1 DEF VenueSound
<1>10. AnswersFirst'
  <2> SUFFICES ASSUME ~overtaken, NEW i \in Unanswered(oms) \cap DOMAIN venue'
               PROVE  \E k \in DOMAIN reports' :
                        /\ reports'[k].id = i /\ reports'[k].type \in {"Acked", "VenueRejected"}
                        /\ \A j \in 1 .. k - 1 : reports'[j].id # i
    BY DEF AnswersFirst
  <2>1. CASE i \in DOMAIN venue
    <3>1. PICK k \in DOMAIN reports :
            /\ reports[k].id = i /\ reports[k].type \in {"Acked", "VenueRejected"}
            /\ \A j \in 1 .. k - 1 : reports[j].id # i
      BY <1>1, <2>1 DEF AnswersFirst
    <3>2. \A j \in 1 .. k - 1 : j \in DOMAIN reports
      BY <1>2
    <3> QED BY <1>2, <1>3, <3>1, <3>2
  <2>2. CASE i \notin DOMAIN venue
    <3> DEFINE k == Len(reports) + 1
    <3>1. i = x /\ rep.type \in {"Acked", "VenueRejected"}
      BY <2>2
    <3>2. \A j \in 1 .. k - 1 : reports'[j].id # i
      BY <1>2, <1>3, <1>4, <2>2
    <3>3. k \in DOMAIN reports' /\ reports'[k] = rep
      BY <1>2, <1>3
    <3> HIDE DEF k
    <3> QED BY <3>1, <3>2, <3>3
  <2> QED BY <2>1, <2>2
<1>11. ASSUME duplicates' = 0 PROVE LotsAccounted' /\ LiveIsWorking' /\ DeadIsReported'
  <2>1. LotsAccounted /\ LiveIsWorking /\ DeadIsReported
    BY <1>11 DEF SessionInv
  <2>2. LotsAccounted'
    <3> SUFFICES ASSUME NEW i \in DOMAIN venue' \cap Tracked(oms)
                 PROVE  LET known == oms.order[i].filled + InFlight(reports', i)
                        IN  /\ known <= venue'[i].executed
                            /\ i \in Working(oms) \/ ~Misfit =>
                                 known = venue'[i].executed
      BY DEF LotsAccounted, Misfit
    <3> DEFINE more == IF rep.id = i /\ rep.type = "Fill" THEN rep.quantity ELSE 0
               base == IF i \in DOMAIN venue THEN venue[i].executed ELSE 0
               known == oms.order[i].filled + InFlight(reports, i)
    <3>1. InFlight(reports', i) = InFlight(reports, i) + more
      BY <1>2, InFlightAppended
    <3>2. known <= base /\ (i \in Working(oms) \/ ~Misfit => known = base)
      <4>1. CASE i \in DOMAIN venue
        BY <2>1, <4>1 DEF LotsAccounted
      <4>2. CASE i \notin DOMAIN venue
        <5>1. oms.order[i].filled = 0
          BY <1>1, <4>2 DEF UnseenIsUntouched
        <5>2. InFlight(reports, i) = 0
          BY <1>4, <4>2, NothingInFlight
        <5> QED BY <4>2, <5>1, <5>2
      <4> QED BY <4>1, <4>2
    <3>3. venue'[i].executed = base + more
      <4>1. \A j \in DOMAIN venue : venue[j].executed \in Nat
        BY <1>1, Entries DEF VenueOrder
      <4> QED BY <4>1
    <3>4. more \in Nat /\ base \in Nat /\ oms.order[i].filled \in Nat
      <4>1. \A j \in DOMAIN venue : venue[j].executed \in Nat
        BY <1>1, Entries DEF VenueOrder
      <4>2. oms.order[i].filled \in Nat
        BY <1>1, Entries
      <4>3. rep.quantity \in Nat
        BY DEF ReportRecord
      <4> QED BY <4>1, <4>2, <4>3
    <3>5. InFlight(reports, i) \in Nat
      BY <1>2, InFlightCounts
    <3> HIDE DEF more, base
    <3> QED BY <3>1, <3>2, <3>3, <3>4, <3>5
  <2>3. LiveIsWorking'
    <3>1. ASSUME NEW i \in DOMAIN venue' \ expired, venue'[i].live PROVE i \in Working(oms)
      BY <1>11, <2>1, <3>1 DEF LiveIsWorking
    <3>2. \A k \in DOMAIN requests' :
            requests'[k].what = "New" /\ requests'[k].id \notin expired =>
              requests'[k].id \in Working(oms)
      BY <2>1 DEF LiveIsWorking
    <3> QED BY <3>1, <3>2 DEF LiveIsWorking
  <2>4. DeadIsReported'
    <3> SUFFICES ASSUME NEW i \in DOMAIN venue' \cap Working(oms)
                 PROVE  \/ venue'[i].live \/ venue'[i].executed = oms.order[i].quantity
                        \/ \E j \in DOMAIN reports' : reports'[j].id = i /\ Closes(reports'[j])
                        \/ overtaken /\ Misfit
      BY DEF DeadIsReported, Misfit
    <3>1. CASE i = x /\ Closes(rep)
      BY <1>2, <1>3, <3>1
    <3>2. CASE i = x /\ (venue'[i].live \/ venue'[i].executed = oms.order[i].quantity)
      BY <3>2
    <3>3. CASE /\ i \in DOMAIN venue
               /\ i = x => ~venue[i].live /\ venue'[i].executed = venue[i].executed
      <4>1. \/ venue[i].live \/ venue[i].executed = oms.order[i].quantity
            \/ \E j \in DOMAIN reports : reports[j].id = i /\ Closes(reports[j])
            \/ overtaken /\ Misfit
        BY <2>1, <3>3 DEF DeadIsReported
      <4>2. CASE \E j \in DOMAIN reports : reports[j].id = i /\ Closes(reports[j])
        BY <1>2, <1>3, <4>2
      <4> QED BY <3>3, <4>1, <4>2
    <3> QED BY <3>1, <3>2, <3>3
  <2> QED BY <2>2, <2>3, <2>4
<1> QED BY <1>5, <1>6, <1>7, <1>8, <1>9, <1>10, <1>11 DEF SessionInv

\* What the venue takes is the oldest request.
LEMMA OldestRequest ==
  ASSUME SessionTyped, requests # << >>, requests' = Tail(requests)
  PROVE  /\ 1 \in DOMAIN requests /\ Head(requests) = requests[1]
         /\ requests[1] \in RequestRecord
         /\ requests' \in Seq(RequestRecord)
         /\ \A k \in DOMAIN requests' :
              k # 0 /\ k + 1 \in DOMAIN requests /\ requests'[k] = requests[k + 1]
         /\ \A k \in DOMAIN requests :
              k > 1 => k - 1 \in DOMAIN requests' /\ requests'[k - 1] = requests[k]
<1>1. requests \in Seq(RequestRecord)
  BY DEF SessionTyped
<1>2. /\ Len(requests) \in Nat /\ Len(requests) # 0 /\ DOMAIN requests = 1 .. Len(requests)
      /\ requests[1] \in RequestRecord /\ Head(requests) = requests[1]
  BY <1>1, LenProperties, HeadTailProperties, ElementOfSeq, EmptySeq
<1>3. /\ requests' \in Seq(RequestRecord) /\ Len(requests') = Len(requests) - 1
      /\ \A k \in 1 .. Len(requests') : requests'[k] = requests[k + 1]
  BY <1>1, HeadTailProperties
<1>4. DOMAIN requests' = 1 .. Len(requests')
  BY <1>3, LenProperties
<1> QED BY <1>2, <1>3, <1>4

\* A new order that the venue takes is not on the wire any more.
LEMMA TakenOnce ==
  ASSUME SessionInv, requests # << >>, requests' = Tail(requests), Head(requests).what = "New"
  PROVE  \A k \in DOMAIN requests' :
           requests'[k].what = "New" => requests'[k].id # Head(requests).id
<1>1. SessionTyped /\ RequestsSound
  BY DEF SessionInv
<1>2. /\ 1 \in DOMAIN requests /\ Head(requests) = requests[1]
      /\ \A k \in DOMAIN requests' :
           k # 0 /\ k + 1 \in DOMAIN requests /\ requests'[k] = requests[k + 1]
  BY <1>1, OldestRequest
<1>3. \A k \in DOMAIN requests' : k + 1 # 1
  <2>1. Len(requests') \in Nat /\ DOMAIN requests' = 1 .. Len(requests')
    BY <1>1, OldestRequest, LenProperties
  <2> QED BY <2>1
<1> QED BY <1>1, <1>2, <1>3 DEF RequestsSound

\* VenueAccept answers a new order.
LEMMA VenueAcceptAnswers ==
  ASSUME SessionInv, VenueAccept
  PROVE  \E rep, x, taken : Answers(rep, x, taken)
<1> DEFINE q == Head(requests)
           x == q.id
           rep == Report(x, "Acked", 0)
           e == [leaves |-> q.quantity, executed |-> 0, live |-> TRUE]
<1>1. /\ requests # << >> /\ q.what = "New" /\ requests' = Tail(requests)
      /\ venue' = [i \in DOMAIN venue \cup {x} |-> IF i = x THEN e ELSE venue[i]]
      /\ reports' = Append(reports, rep)
      /\ UNCHANGED <<oms, expired, duplicates, overtaken>>
  BY DEF VenueAccept, Answer, wireFaults
<1>2. SessionTyped /\ RequestsSound /\ ReportsSound
  BY DEF SessionInv
<1>3. /\ 1 \in DOMAIN requests /\ q = requests[1] /\ q \in RequestRecord
      /\ requests' \in Seq(RequestRecord)
      /\ \A k \in DOMAIN requests' : k + 1 \in DOMAIN requests /\ requests'[k] = requests[k + 1]
      /\ \A k \in DOMAIN requests' : requests'[k].what = "New" => requests'[k].id # x
      /\ \A k \in DOMAIN requests :
           k > 1 => k - 1 \in DOMAIN requests' /\ requests'[k - 1] = requests[k]
      /\ requests[1].what = "New"
  BY <1>1, <1>2, OldestRequest, TakenOnce
<1>4. /\ x \notin DOMAIN venue /\ x \in 1 .. oms.next - 1 /\ q.quantity \in 1 .. MaxQuantity
      /\ x \in Tracked(oms) => oms.order[x].quantity = q.quantity
  BY <1>1, <1>2, <1>3 DEF RequestsSound
<1>5. /\ x \in Nat /\ q.quantity \in Nat /\ oms.next \in Nat /\ MaxQuantity \in Nat
  BY <1>2, <1>3, Entries, VenueSessionConstants DEF VenueSessionConstants, RequestRecord
<1>6. rep \in ReportRecord /\ rep.id = x /\ rep.type = "Acked" /\ ~Closes(rep)
  BY <1>5 DEF Report, ReportRecord, Closes, ExecType, AcceptedIn
<1>7. /\ e \in VenueOrder /\ e.live /\ e.leaves = q.quantity /\ e.executed = 0
  BY <1>5 DEF VenueOrder
<1>8. duplicates = 0 /\ x \notin expired => x \in Working(oms)
  BY <1>1, <1>3 DEF SessionInv, LiveIsWorking
<1>9. \A k \in DOMAIN reports : reports[k].id # x
  BY <1>2, <1>4 DEF ReportsSound
<1>10. \A i \in DOMAIN venue : venue[i] \in VenueOrder
  BY <1>2, Entries
<1> HIDE DEF e, rep
<1>11. /\ DOMAIN venue' = DOMAIN venue \cup {x} /\ venue' \in [DOMAIN venue' -> VenueOrder]
       /\ \A i \in DOMAIN venue \ {x} : venue'[i] = venue[i]
       /\ venue'[x] = e
  BY <1>1, <1>7, <1>10
<1> HIDE DEF x, q
<1>12. Says(rep, x, 1)
  BY <1>1, <1>3, <1>4, <1>5, <1>6, <1>7, <1>8, <1>9, <1>11 DEF Says
<1>13. Answers(rep, x, 1)
  BY <1>3, <1>6, <1>12 DEF Answers
<1> QED BY <1>13

\* VenueReject answers a new order.
LEMMA VenueRejectAnswers ==
  ASSUME SessionInv, VenueReject
  PROVE  \E rep, x, taken : Answers(rep, x, taken)
<1> DEFINE q == Head(requests)
           x == q.id
           rep == Report(x, "VenueRejected", 0)
           e == [leaves |-> 0, executed |-> 0, live |-> FALSE]
<1>1. /\ requests # << >> /\ q.what = "New" /\ requests' = Tail(requests)
      /\ venue' = [i \in DOMAIN venue \cup {x} |-> IF i = x THEN e ELSE venue[i]]
      /\ reports' = Append(reports, rep)
      /\ UNCHANGED <<oms, expired, duplicates, overtaken>>
  BY DEF VenueReject, Answer, wireFaults
<1>2. SessionTyped /\ RequestsSound /\ ReportsSound
  BY DEF SessionInv
<1>3. /\ 1 \in DOMAIN requests /\ q = requests[1] /\ q \in RequestRecord
      /\ requests' \in Seq(RequestRecord)
      /\ \A k \in DOMAIN requests' : k + 1 \in DOMAIN requests /\ requests'[k] = requests[k + 1]
      /\ \A k \in DOMAIN requests' : requests'[k].what = "New" => requests'[k].id # x
      /\ \A k \in DOMAIN requests :
           k > 1 => k - 1 \in DOMAIN requests' /\ requests'[k - 1] = requests[k]
      /\ requests[1].what = "New"
  BY <1>1, <1>2, OldestRequest, TakenOnce
<1>4. x \notin DOMAIN venue /\ x \in 1 .. oms.next - 1
  BY <1>1, <1>2, <1>3 DEF RequestsSound
<1>5. x \in Nat /\ MaxQuantity \in Nat
  BY <1>2, <1>3, VenueSessionConstants DEF VenueSessionConstants, RequestRecord
<1>6. rep \in ReportRecord /\ rep.id = x /\ rep.type = "VenueRejected" /\ Closes(rep)
  BY <1>5 DEF Report, ReportRecord, Closes, ExecType, AcceptedIn
<1>7. /\ e \in VenueOrder /\ ~e.live /\ e.leaves = 0 /\ e.executed = 0
  BY DEF VenueOrder
<1>8. \A k \in DOMAIN reports : reports[k].id # x
  BY <1>2, <1>4 DEF ReportsSound
<1>9. \A i \in DOMAIN venue : venue[i] \in VenueOrder
  BY <1>2, Entries
<1> HIDE DEF e, rep
<1>10. /\ DOMAIN venue' = DOMAIN venue \cup {x} /\ venue' \in [DOMAIN venue' -> VenueOrder]
       /\ \A i \in DOMAIN venue \ {x} : venue'[i] = venue[i]
       /\ venue'[x] = e
  BY <1>1, <1>7, <1>9
<1> HIDE DEF x, q
<1>11. Says(rep, x, 1)
  BY <1>1, <1>3, <1>4, <1>5, <1>6, <1>7, <1>8, <1>10 DEF Says
<1>12. Answers(rep, x, 1)
  BY <1>3, <1>6, <1>11 DEF Answers
<1> QED BY <1>12

\* What follows of an order that lives at the venue.
LEMMA LiveAtVenue ==
  ASSUME SessionInv, NEW x \in DOMAIN venue
  PROVE  /\ x \in Nat /\ x \in 1 .. oms.next - 1
         /\ venue[x].leaves \in Nat /\ venue[x].executed \in Nat
         /\ venue[x].leaves + venue[x].executed <= MaxQuantity
         /\ venue \in [DOMAIN venue -> VenueOrder] /\ venue[x] \in VenueOrder
         /\ \A k \in DOMAIN requests : requests[k].what = "New" => requests[k].id # x
         /\ venue[x].live =>
              /\ venue[x].leaves > 0
              /\ x \in Tracked(oms) => venue[x].leaves + venue[x].executed = oms.order[x].quantity
              /\ \A k \in DOMAIN reports : reports[k].id = x => reports[k].type # "VenueRejected"
              /\ duplicates = 0 /\ x \notin expired => x \in Working(oms)
<1>1. SessionTyped /\ RequestsSound /\ ReportsSound /\ VenueSound
  BY DEF SessionInv
<1>2. venue[x] \in VenueOrder /\ oms.next \in Nat
  BY <1>1, Entries
<1>3. x \in 1 .. oms.next - 1 /\ venue \in [DOMAIN venue -> VenueOrder]
  BY <1>1 DEF SessionTyped
<1>4. \A k \in DOMAIN requests : requests[k].what = "New" => requests[k].id # x
  BY <1>1 DEF RequestsSound
<1>5. venue[x].live =>
        \A k \in DOMAIN reports : reports[k].id = x => reports[k].type # "VenueRejected"
  BY <1>1 DEF ReportsSound, Closes
<1>6. venue[x].live /\ duplicates = 0 /\ x \notin expired => x \in Working(oms)
  BY DEF SessionInv, LiveIsWorking
<1> QED BY <1>1, <1>2, <1>3, <1>4, <1>5, <1>6 DEF VenueSound, VenueOrder

\* An entry of the book written field by field.
ByField(f, x, a, b, c) == [f EXCEPT ![x].leaves = a, ![x].executed = b, ![x].live = c]

\* Writing an entry of the book field by field is writing it whole.
LEMMA EntryRewritten ==
  ASSUME NEW f, NEW S, f \in [S -> VenueOrder], NEW x \in S, NEW a, NEW b, NEW c
  PROVE  ByField(f, x, a, b, c) =
           [f EXCEPT ![x] = [leaves |-> a, executed |-> b, live |-> c]]
<1> DEFINE w1 == [f[x] EXCEPT !.leaves = a]
           w2 == [w1 EXCEPT !.executed = b]
           w3 == [w2 EXCEPT !.live = c]
           m1 == [f EXCEPT ![x] = w1]
           m2 == [m1 EXCEPT ![x] = [m1[x] EXCEPT !.executed = b]]
           m3 == [m2 EXCEPT ![x] = [m2[x] EXCEPT !.live = c]]
<1>1. w3 = [leaves |-> a, executed |-> b, live |-> c]
  <2>1. f[x] \in VenueOrder
    OBVIOUS
  <2>2. w1 = [leaves |-> a, executed |-> f[x].executed, live |-> f[x].live]
    BY <2>1 DEF VenueOrder
  <2> HIDE DEF w1
  <2>3. w2 = [leaves |-> a, executed |-> b, live |-> f[x].live]
    BY <2>2
  <2> HIDE DEF w2
  <2> QED BY <2>3
<1>2. m1[x] = w1
  <2> HIDE DEF w1
  <2> QED OBVIOUS
<1>3. m2 = [f EXCEPT ![x] = w2]
  <2>1. m2 = [m1 EXCEPT ![x] = w2]
    BY <1>2
  <2> HIDE DEF w1, w2, m2
  <2> QED BY <2>1
<1>4. m2[x] = w2
  <2> HIDE DEF w2, m2
  <2> QED BY <1>3
<1>5. m3 = [f EXCEPT ![x] = w3]
  <2>1. m3 = [m2 EXCEPT ![x] = w3]
    BY <1>4
  <2> HIDE DEF w2, w3, m2, m3
  <2> QED BY <1>3, <2>1
<1>6. ByField(f, x, a, b, c) = m3
  BY DEF ByField
<1> HIDE DEF m3, w3
<1> QED BY <1>1, <1>5, <1>6

\* VenueExecute answers nothing, and says what it executed.
LEMMA VenueExecuteAnswers ==
  ASSUME SessionInv, NEW x \in DOMAIN venue, NEW n \in 1 .. MaxQuantity, VenueExecute(x, n)
  PROVE  \E rep, y, taken : Answers(rep, y, taken)
<1> DEFINE v == venue[x]
           rep == Report(x, "Fill", n)
           e == [leaves |-> v.leaves - n, executed |-> v.executed + n, live |-> v.leaves > n]
<1>1. /\ v.live /\ n <= v.leaves /\ reports' = Append(reports, rep)
      /\ UNCHANGED <<oms, expired, requests, duplicates, overtaken>>
  BY DEF VenueExecute, Answer, wireFaults
<1>2. /\ x \in Nat /\ x \in 1 .. oms.next - 1
      /\ v.leaves \in Nat /\ v.executed \in Nat
      /\ v.leaves + v.executed <= MaxQuantity
      /\ venue \in [DOMAIN venue -> VenueOrder] /\ v \in VenueOrder
      /\ \A k \in DOMAIN requests : requests[k].what = "New" => requests[k].id # x
      /\ x \in Tracked(oms) => v.leaves + v.executed = oms.order[x].quantity
      /\ \A k \in DOMAIN reports : reports[k].id = x => reports[k].type # "VenueRejected"
      /\ duplicates = 0 /\ x \notin expired => x \in Working(oms)
  BY <1>1, LiveAtVenue
<1>3. MaxQuantity \in Nat /\ n \in Nat \ {0}
  BY VenueSessionConstants DEF VenueSessionConstants
<1>4. /\ rep \in ReportRecord /\ rep.id = x /\ rep.type = "Fill" /\ rep.quantity = n
      /\ ~Closes(rep)
  BY <1>2, <1>3 DEF Report, ReportRecord, Closes, ExecType, AcceptedIn
<1>5. /\ e \in VenueOrder /\ e.leaves = v.leaves - n /\ e.executed = v.executed + n
      /\ e.live <=> v.leaves > n
  <2>1. v.leaves - n \in Nat /\ v.executed + n \in Nat /\ (v.leaves > n) \in BOOLEAN
    BY <1>1, <1>2, <1>3
  <2>2. \A a, b \in Nat, c \in BOOLEAN : [leaves |-> a, executed |-> b, live |-> c] \in VenueOrder
    BY DEF VenueOrder
  <2>3. e \in VenueOrder
    BY <2>1, <2>2, Zenon
  <2> QED BY <2>3
<1>6. venue' = [venue EXCEPT ![x] = e]
  <2>1. venue' = ByField(venue, x, v.leaves - n, v.executed + n, v.leaves > n)
    BY DEF VenueExecute, ByField
  <2> QED BY <1>2, <2>1, EntryRewritten
<1> HIDE DEF e, rep, v
<1>7. /\ DOMAIN venue' = DOMAIN venue \cup {x} /\ venue' \in [DOMAIN venue' -> VenueOrder]
      /\ \A i \in DOMAIN venue \ {x} : venue'[i] = venue[i]
      /\ venue'[x] = e
  <2>1. DOMAIN venue = DOMAIN venue \cup {x}
    OBVIOUS
  <2> QED BY <1>2, <1>5, <1>6, <2>1
<1>8. Working(oms) \subseteq Tracked(oms)
  BY DEF Working
<1>9. requests' \in Seq(RequestRecord) /\ Len(requests) \in Nat /\ DOMAIN requests = 1 .. Len(requests)
  BY <1>1, Entries DEF SessionInv, SessionTyped
<1>10. /\ venue[x].live = v.live /\ venue[x].executed = v.executed
  BY DEF v
<1>11. \A k \in DOMAIN requests' :
         /\ k + 0 \in DOMAIN requests /\ requests'[k] = requests[k + 0]
         /\ requests'[k].what = "New" => requests'[k].id # x
  BY <1>1, <1>2, <1>9
<1>12. /\ venue'[x].live <=> venue'[x].leaves > 0
       /\ venue'[x].leaves + venue'[x].executed = v.leaves + v.executed
       /\ venue'[x].executed = venue[x].executed + rep.quantity
       /\ x \in Working(oms) => venue'[x].live \/ venue'[x].executed = oms.order[x].quantity
  <2>1. v.leaves + v.executed <= MaxQuantity /\ (e.live <=> e.leaves > 0)
        /\ e.leaves + e.executed = v.leaves + v.executed
        /\ e.executed = v.executed + n
        /\ (e.live \/ e.executed = v.leaves + v.executed)
    <3> DEFINE a == v.leaves
               b == v.executed
               c == e.leaves
               d == e.executed
    <3>1. a \in Nat /\ b \in Nat /\ c = a - n /\ d = b + n /\ n <= a
      BY <1>1, <1>2, <1>5
    <3>2. a + b <= MaxQuantity /\ (e.live <=> a > n)
      BY <1>2, <1>5
    <3> HIDE DEF a, b, c, d
    <3>3. c + d = a + b /\ (a > n <=> c > 0) /\ (a > n \/ d = a + b)
      BY <1>3, <3>1
    <3>4. a + b <= MaxQuantity /\ (e.live <=> c > 0) /\ c + d = a + b /\ d = b + n
          /\ (e.live \/ d = a + b)
      BY <3>1, <3>2, <3>3
    <3> QED BY <3>4 DEF a, b, c, d
  <2>2. x \in Working(oms) => v.leaves + v.executed = oms.order[x].quantity
    BY <1>2, <1>8
  <2> QED BY <1>4, <1>7, <1>10, <2>1, <2>2
<1>13. Says(rep, x, 0)
  BY <1>1, <1>2, <1>3, <1>4, <1>7, <1>9, <1>10, <1>11, <1>12 DEF Says
<1>14. Answers(rep, x, 0)
  BY <1>1, <1>4, <1>9, <1>13 DEF Answers
<1> QED BY <1>14

\* What a cancelled order becomes in the venue's book.
LEMMA Killed ==
  ASSUME venue \in [DOMAIN venue -> VenueOrder], NEW x \in DOMAIN venue, Kill(x)
  PROVE  venue' = [venue EXCEPT ![x] = [leaves |-> 0, executed |-> venue[x].executed,
                                        live |-> FALSE]]
<1> DEFINE w1 == [venue[x] EXCEPT !.leaves = 0]
           w2 == [w1 EXCEPT !.live = FALSE]
           m1 == [venue EXCEPT ![x] = w1]
           m2 == [m1 EXCEPT ![x] = [m1[x] EXCEPT !.live = FALSE]]
<1>1. w2 = [leaves |-> 0, executed |-> venue[x].executed, live |-> FALSE]
  <2>1. venue[x] \in VenueOrder
    OBVIOUS
  <2>2. w1 = [leaves |-> 0, executed |-> venue[x].executed, live |-> venue[x].live]
    BY <2>1 DEF VenueOrder
  <2> HIDE DEF w1
  <2>3. \A c : [w1 EXCEPT !.live = c] =
                [leaves |-> 0, executed |-> venue[x].executed, live |-> c]
    BY <2>2
  <2> QED BY <2>3, Zenon
<1>2. m1[x] = w1
  <2> HIDE DEF w1
  <2> QED OBVIOUS
<1>3. m2 = [venue EXCEPT ![x] = w2]
  <2>1. m2 = [m1 EXCEPT ![x] = w2]
    BY <1>2
  <2> HIDE DEF w1, w2, m2
  <2> QED BY <2>1
<1>4. venue' = m2
  BY DEF Kill
<1> HIDE DEF m2, w2
<1> QED BY <1>1, <1>3, <1>4

\* The venue closes a live order: the report says so.
LEMMA CloseAnswers ==
  ASSUME SessionInv, NEW x \in DOMAIN venue, venue[x].live, Kill(x),
         Answer(Report(x, "Cancelled", 0)),
         NEW taken \in {0, 1}, requests' \in Seq(RequestRecord),
         \A k \in DOMAIN requests' :
           k + taken \in DOMAIN requests /\ requests'[k] = requests[k + taken],
         \A k \in DOMAIN requests :
           k > taken => k - taken \in DOMAIN requests' /\ requests'[k - taken] = requests[k],
         taken = 1 => requests[1].id = x
  PROVE  \E rep, y, n : Answers(rep, y, n)
<1> DEFINE rep == Report(x, "Cancelled", 0)
           v == venue[x]
           e == [leaves |-> 0, executed |-> v.executed, live |-> FALSE]
<1>1. /\ v.live /\ reports' = Append(reports, rep)
      /\ UNCHANGED <<oms, expired, duplicates, overtaken>>
  BY DEF Answer, wireFaults
<1>2. /\ x \in Nat /\ x \in 1 .. oms.next - 1
      /\ v.leaves \in Nat /\ v.executed \in Nat
      /\ v.leaves + v.executed <= MaxQuantity
      /\ venue \in [DOMAIN venue -> VenueOrder] /\ v \in VenueOrder
      /\ \A k \in DOMAIN requests : requests[k].what = "New" => requests[k].id # x
      /\ \A k \in DOMAIN reports : reports[k].id = x => reports[k].type # "VenueRejected"
  BY <1>1, LiveAtVenue
<1>3. MaxQuantity \in Nat
  BY VenueSessionConstants DEF VenueSessionConstants
<1>4. rep \in ReportRecord /\ rep.id = x /\ rep.type = "Cancelled" /\ Closes(rep)
  BY <1>2 DEF Report, ReportRecord, Closes, ExecType, AcceptedIn
<1>5. e \in VenueOrder /\ e.leaves = 0 /\ e.executed = v.executed /\ ~e.live
  BY <1>2 DEF VenueOrder
<1>6. venue' = [venue EXCEPT ![x] = e]
  BY <1>2, Killed
<1> HIDE DEF e, rep, v
<1>7. /\ DOMAIN venue' = DOMAIN venue \cup {x} /\ venue' \in [DOMAIN venue' -> VenueOrder]
      /\ \A i \in DOMAIN venue \ {x} : venue'[i] = venue[i]
      /\ venue'[x] = e
  <2>1. DOMAIN venue = DOMAIN venue \cup {x}
    OBVIOUS
  <2> QED BY <1>2, <1>5, <1>6, <2>1
<1>8. /\ ~venue'[x].live /\ venue'[x].leaves = 0 /\ venue'[x].executed = venue[x].executed
      /\ venue[x].executed = v.executed
      /\ venue'[x].leaves + venue'[x].executed <= MaxQuantity
  <2>1. venue[x].executed = v.executed
    BY DEF v
  <2>2. e.leaves + e.executed <= MaxQuantity
    BY <1>2, <1>3, <1>5
  <2> QED BY <1>5, <1>7, <2>1, <2>2
<1>9. Says(rep, x, taken)
  BY <1>1, <1>2, <1>4, <1>7, <1>8 DEF Says
<1>10. Answers(rep, x, taken)
  BY <1>4, <1>9 DEF Answers
<1> QED BY <1>10

\* VenueCancels answers nothing, and says that the order is closed.
LEMMA VenueCancelsAnswers ==
  ASSUME SessionInv, NEW x \in DOMAIN venue, VenueCancels(x)
  PROVE  \E rep, y, taken : Answers(rep, y, taken)
<1>1. /\ venue[x].live /\ Kill(x) /\ Answer(Report(x, "Cancelled", 0)) /\ requests' = requests
  BY DEF VenueCancels
<1>2. /\ requests \in Seq(RequestRecord) /\ Len(requests) \in Nat
      /\ DOMAIN requests = 1 .. Len(requests)
  BY Entries DEF SessionInv, SessionTyped
<1>3. /\ requests' \in Seq(RequestRecord)
      /\ \A k \in DOMAIN requests' : k + 0 \in DOMAIN requests /\ requests'[k] = requests[k + 0]
      /\ \A k \in DOMAIN requests :
           k - 0 \in DOMAIN requests' /\ requests'[k - 0] = requests[k]
  BY <1>1, <1>2
<1> QED BY <1>1, <1>3, CloseAnswers

\* VenueAnswerCancel answers a cancel, whether it comes in time or not.
LEMMA VenueAnswerCancelAnswers ==
  ASSUME SessionInv, VenueAnswerCancel
  PROVE  \E rep, y, taken : Answers(rep, y, taken)
<1> DEFINE x == Head(requests).id
           rep == Report(x, "CancelRejected", 0)
           v == venue[x]
<1>1. requests # << >> /\ Head(requests).what = "Cancel" /\ requests' = Tail(requests)
  BY DEF VenueAnswerCancel
<1>2. SessionTyped /\ RequestsSound /\ ReportsSound /\ VenueSound
  BY DEF SessionInv
<1>3. /\ 1 \in DOMAIN requests /\ Head(requests) = requests[1]
      /\ requests' \in Seq(RequestRecord)
      /\ \A k \in DOMAIN requests' : k + 1 \in DOMAIN requests /\ requests'[k] = requests[k + 1]
      /\ \A k \in DOMAIN requests :
           k > 1 => k - 1 \in DOMAIN requests' /\ requests'[k - 1] = requests[k]
      /\ requests[1].id = x
  BY <1>1, <1>2, OldestRequest
<1>4. x \in DOMAIN venue
  BY <1>1, <1>2, <1>3 DEF RequestsSound
<1>5. CASE v.live
  <2>1. Kill(x) /\ Answer(Report(x, "Cancelled", 0))
    BY <1>4, <1>5 DEF VenueAnswerCancel
  <2> HIDE DEF x
  <2> QED BY <1>3, <1>4, <1>5, <2>1, CloseAnswers DEF v
<1>6. CASE ~v.live
  <2>1. /\ venue' = venue /\ reports' = Append(reports, rep)
        /\ UNCHANGED <<oms, expired, duplicates, overtaken>>
    BY <1>4, <1>6 DEF VenueAnswerCancel, Answer, wireFaults
  <2>2. /\ x \in Nat /\ x \in 1 .. oms.next - 1
        /\ v.leaves \in Nat /\ v.executed \in Nat
        /\ v.leaves + v.executed <= MaxQuantity
        /\ venue \in [DOMAIN venue -> VenueOrder]
        /\ \A k \in DOMAIN requests : requests[k].what = "New" => requests[k].id # x
    BY <1>4, LiveAtVenue
  <2>3. \A k \in DOMAIN reports : reports[k].id = x => reports[k].type # "VenueRejected"
    BY <1>2, <1>3 DEF ReportsSound
  <2>4. rep \in ReportRecord /\ rep.id = x /\ rep.type = "CancelRejected" /\ ~Closes(rep)
    BY <2>2 DEF Report, ReportRecord, Closes, ExecType, AcceptedIn
  <2>5. v.live <=> v.leaves > 0
    BY <1>2, <1>4 DEF VenueSound
  <2> HIDE DEF rep, x
  <2>6. /\ DOMAIN venue' = DOMAIN venue \cup {x} /\ venue' \in [DOMAIN venue' -> VenueOrder]
        /\ venue'[x] = v
    BY <1>4, <2>1, <2>2 DEF v
  <2>7. Says(rep, x, 1)
    BY <1>3, <1>4, <1>6, <2>1, <2>2, <2>3, <2>4, <2>5, <2>6 DEF Says, v
  <2>8. Answers(rep, x, 1)
    BY <1>3, <1>6, <2>4, <2>6, <2>7 DEF Answers
  <2> QED BY <2>8
<1> QED BY <1>5, <1>6

-----------------------------------------------------------------------------

\* The session begins with nothing sent.
LEMMA SessionInit == Init => SessionInv
<1> SUFFICES ASSUME Init PROVE SessionInv
  OBVIOUS
<1>1. /\ oms = InitOms /\ expired = {} /\ venue = [i \in {} |-> i]
      /\ requests = << >> /\ reports = << >> /\ duplicates = 0 /\ overtaken = FALSE
  BY DEF Init
<1>2. IInv(oms) /\ oms.next = 1 /\ Tracked(oms) = {} /\ Working(oms) = {} /\ Unanswered(oms) = {}
  BY <1>1, InitSound DEF InitOms, Tracked, Working, Unanswered
<1>3. DOMAIN venue = {} /\ DOMAIN requests = {} /\ DOMAIN reports = {}
  BY <1>1
<1>4. requests \in Seq(RequestRecord) /\ reports \in Seq(ReportRecord)
  BY <1>1
<1>5. SessionTyped
  <2>1. duplicates \in 0 .. MaxDuplicates /\ overtaken \in BOOLEAN /\ oms.next <= MaxId + 1
    <3>1. MaxId \in Nat /\ MaxDuplicates \in Nat
      BY VenueSessionConstants DEF VenueSessionConstants
    <3>2. 0 \in 0 .. MaxDuplicates /\ 1 <= MaxId + 1
      BY <3>1
    <3>3. overtaken \in BOOLEAN
      BY <1>1
    <3> QED BY <1>1, <1>2, <3>2, <3>3
  <2>2. venue \in [DOMAIN venue -> VenueOrder]
    BY <1>1
  <2> QED BY <1>1, <1>2, <1>3, <1>4, <2>1, <2>2 DEF SessionTyped
<1> QED BY <1>2, <1>3, <1>5 DEF SessionInv, RequestsSound, UnseenIsUntouched, SomethingIsLeft,
      ReportsSound, VenueSound, AnswersFirst, LotsAccounted, LiveIsWorking, DeadIsReported

\* Every step of the session preserves the invariant.
LEMMA SessionStep == SessionInv /\ [Next]_vars => SessionInv'
<1> SUFFICES ASSUME SessionInv, [Next]_vars PROVE SessionInv'
  OBVIOUS
<1>1. ASSUME NEW quantity \in 1 .. MaxQuantity, Send(quantity) PROVE SessionInv'
  BY <1>1, SendStep
<1>2. ASSUME NEW id \in Tracked(oms), Cancel(id) PROVE SessionInv'
  BY <1>2, CancelRecalls, OmsStepKeeps
<1>3. ASSUME NEW k \in 1 .. MaxInFlight, Deliver(k) PROVE SessionInv'
  BY <1>3, DeliverStep
<1>4. CASE Sweep
  BY <1>4, SweepRecalls, OmsStepKeeps
<1>5. CASE Tick
  BY <1>5, TickRecalls, OmsStepKeeps
<1>6. ASSUME NEW rep, NEW x, NEW taken, Answers(rep, x, taken) PROVE SessionInv'
  BY <1>6, VenueStepKeeps DEF Answers
<1>7. CASE VenueAccept
  BY <1>6, <1>7, VenueAcceptAnswers
<1>8. CASE VenueReject
  BY <1>6, <1>8, VenueRejectAnswers
<1>9. ASSUME NEW id \in DOMAIN venue, NEW n \in 1 .. MaxQuantity, VenueExecute(id, n)
      PROVE  SessionInv'
  BY <1>6, <1>9, VenueExecuteAnswers
<1>10. CASE VenueAnswerCancel
  BY <1>6, <1>10, VenueAnswerCancelAnswers
<1>11. ASSUME NEW id \in DOMAIN venue, VenueCancels(id) PROVE SessionInv'
  BY <1>6, <1>11, VenueCancelsAnswers
<1>12. CASE UNCHANGED vars
  BY <1>12 DEF vars, wireFaults, SessionInv, SessionTyped, RequestsSound, UnseenIsUntouched,
     SomethingIsLeft, Misfit, ReportsSound, VenueSound, AnswersFirst, LotsAccounted, LiveIsWorking,
     DeadIsReported
<1> QED BY <1>1, <1>2, <1>3, <1>4, <1>5, <1>7, <1>8, <1>9, <1>10, <1>11, <1>12 DEF Next

\* The two books fit together, whatever the wire does to the reports.
THEOREM SessionInvariant == Spec => []SessionInv
<1>1. Init => SessionInv
  BY SessionInit
<1>2. SessionInv /\ [Next]_vars => SessionInv'
  BY SessionStep
<1> QED BY <1>1, <1>2, PTL DEF Spec

-----------------------------------------------------------------------------
(***************************************************************************)
(* What the runs check, for every value of the constants.                  *)
(***************************************************************************)

\* What the lots come to for an order both sides know.
LEMMA LotsKnown ==
  ASSUME SessionInv, duplicates = 0, NEW i \in DOMAIN venue \cap Tracked(oms)
  PROVE  /\ oms.order[i].filled \in Nat /\ oms.order[i].filled <= venue[i].executed
         /\ venue[i].executed \in Nat /\ venue[i].leaves \in Nat
         /\ i \in Working(oms) /\ reports = << >> => oms.order[i].filled = venue[i].executed
         /\ reports = << >> => oms.order[i].filled = venue[i].executed \/ Misfit
<1>1. SessionTyped /\ LotsAccounted
  BY DEF SessionInv
<1>2. /\ oms.order[i].filled \in Nat /\ venue[i].executed \in Nat /\ venue[i].leaves \in Nat
      /\ reports \in Seq(ReportRecord)
  BY <1>1, Entries DEF SessionTyped, VenueOrder
<1>3. InFlight(reports, i) \in Nat
  BY <1>2, InFlightCounts
<1>4. /\ oms.order[i].filled + InFlight(reports, i) <= venue[i].executed
      /\ i \in Working(oms) \/ ~Misfit =>
           oms.order[i].filled + InFlight(reports, i) = venue[i].executed
  BY <1>1 DEF LotsAccounted
<1>5. reports = << >> => InFlight(reports, i) = 0
  BY NothingInFlight
<1> QED BY <1>2, <1>3, <1>4, <1>5

\* Type correctness: the venue's book stays within what was ordered, and the
\* order manager's records stay well formed, whatever reports come.
THEOREM SessionTypeCorrect == Spec => []TypeOK
<1>1. SessionInv => TypeOK
  <2> SUFFICES ASSUME SessionInv PROVE TypeOK
    OBVIOUS
  <2>1. SessionTyped /\ VenueSound
    BY DEF SessionInv
  <2>2. oms.order \in [Tracked(oms) -> OrderRecord]
    BY <2>1, Entries DEF Typed
  <2>3. expired \subseteq 1 .. MaxId
    <3>1. /\ oms.next \in Nat /\ MaxId \in Nat /\ oms.next <= MaxId + 1
          /\ expired \subseteq 1 .. oms.next - 1
      BY <2>1, Entries, VenueSessionConstants DEF SessionTyped, VenueSessionConstants
    <3> QED BY <3>1
  <2>4. venue \in [DOMAIN venue -> [leaves : 0 .. MaxQuantity, executed : 0 .. MaxQuantity,
                                    live : BOOLEAN]]
    <3> DEFINE Bounded == [leaves : 0 .. MaxQuantity, executed : 0 .. MaxQuantity, live : BOOLEAN]
    <3>1. ASSUME NEW i \in DOMAIN venue PROVE venue[i] \in Bounded
      <4>1. venue[i] \in VenueOrder /\ venue[i].leaves + venue[i].executed <= MaxQuantity
        BY <2>1, Entries DEF VenueSound
      <4>2. MaxQuantity \in Nat
        BY VenueSessionConstants DEF VenueSessionConstants
      <4> QED BY <4>1, <4>2 DEF VenueOrder
    <3>2. venue \in [DOMAIN venue -> VenueOrder]
      BY <2>1 DEF SessionTyped
    <3> HIDE DEF Bounded
    <3>3. venue \in [DOMAIN venue -> Bounded]
      BY <3>1, <3>2
    <3> QED BY <3>3 DEF Bounded
  <2>5. \A k \in DOMAIN reports : reports[k].type \in ExecType
    BY <2>1, Entries DEF ReportRecord
  <2> QED BY <2>1, <2>2, <2>3, <2>4, <2>5 DEF TypeOK, SessionTyped
<1> QED BY <1>1, SessionInvariant, PTL

\* What can still trade at the venue is covered here, unless the sweep gave the
\* order up or a report came twice.
THEOREM CoverHolds == Spec => []LiveAtVenueIsCovered
<1>1. SessionInv => LiveAtVenueIsCovered
  <2> SUFFICES ASSUME SessionInv, duplicates = 0, NEW i \in DOMAIN venue \ expired, venue[i].live
               PROVE  i \in Working(oms) /\ oms.order[i].leaves >= venue[i].leaves
    BY DEF LiveAtVenueIsCovered
  <2>1. SessionTyped /\ VenueSound /\ LiveIsWorking
    BY DEF SessionInv
  <2>2. i \in Working(oms) /\ i \in Tracked(oms) /\ oms.order[i].state \in Live
    BY <2>1 DEF LiveIsWorking, Working
  <2>3. oms.order[i].leaves = oms.order[i].quantity - oms.order[i].filled
    BY <2>1, <2>2, Entries DEF IInv, Sound, Settled
  <2>4. venue[i].leaves + venue[i].executed = oms.order[i].quantity
    BY <2>1, <2>2 DEF VenueSound
  <2>5. /\ oms.order[i].filled \in Nat /\ oms.order[i].filled <= venue[i].executed
        /\ venue[i].executed \in Nat /\ venue[i].leaves \in Nat
    BY <2>2, LotsKnown
  <2>6. oms.order[i].quantity \in Nat
    BY <2>1, <2>2, Entries
  <2> QED BY <2>2, <2>3, <2>4, <2>5, <2>6
<1> QED BY <1>1, SessionInvariant, PTL

\* Executions are never overstated, and never understated in silence.
THEOREM BookedHolds == Spec => []ExecutionsAreBooked
<1>1. SessionInv => ExecutionsAreBooked
  BY LotsKnown DEF ExecutionsAreBooked, Quiet
<1> QED BY <1>1, SessionInvariant, PTL

\* Once all is delivered, both sides agree on what is live, or a report that
\* was overtaken has been counted.
THEOREM AgreementHolds == Spec => []AgreeOrCounted
<1>1. SessionInv => AgreeOrCounted
  <2> SUFFICES ASSUME SessionInv, Quiet, duplicates = 0, ~(overtaken /\ Misfit),
                      NEW i \in DOMAIN venue \ expired
               PROVE  venue[i].live <=> i \in Working(oms)
    BY DEF AgreeOrCounted, AgreeOnWhatIsLive
  <2>1. LiveIsWorking /\ DeadIsReported /\ SomethingIsLeft /\ reports = << >>
    BY DEF SessionInv, Quiet
  <2>2. venue[i].live => i \in Working(oms)
    BY <2>1 DEF LiveIsWorking
  <2>3. ASSUME i \in Working(oms), ~venue[i].live PROVE FALSE
    <3>1. i \in Tracked(oms)
      BY <2>3 DEF Working
    <3>2. venue[i].executed = oms.order[i].quantity
      BY <2>1, <2>3 DEF DeadIsReported
    <3>3. oms.order[i].filled = venue[i].executed /\ venue[i].executed \in Nat
      BY <2>1, <2>3, <3>1, LotsKnown
    <3>4. oms.order[i].filled < oms.order[i].quantity
      BY <2>1, <2>3 DEF SomethingIsLeft
    <3> QED BY <3>2, <3>3, <3>4
  <2>4. venue[i].live \in BOOLEAN
    BY Entries DEF SessionInv, VenueOrder
  <2> QED BY <2>2, <2>3, <2>4
<1> QED BY <1>1, SessionInvariant, PTL

-----------------------------------------------------------------------------
(***************************************************************************)
(* A report that comes twice.  Reports carry nothing to tell a repeat by,  *)
(* so that one was delivered twice has to be read off what it leaves       *)
(* behind: a fill is booked twice; an answer stays on the wire for an      *)
(* order that has had it, and will be counted; and the refusal of a cancel *)
(* leaves one refusal too many, which stands until one of them is counted, *)
(* even if the order is asked to cancel again and waits for another.       *)
(***************************************************************************)

\* Every report so far was taken, and the orders the venue knows are still on
\* record: what has happened can be read off the two books and the wire.
NothingCounted == oms.breaks = {} /\ DOMAIN venue \subseteq Tracked(oms)

\* The requests to cancel order i, and the answers that they came too late.
CancelsOf(i) == {k \in DOMAIN requests : requests[k].what = "Cancel" /\ requests[k].id = i}
RefusalsOf(i) == {k \in DOMAIN reports : reports[k].type = "CancelRejected" /\ reports[k].id = i}

Several(S) == \E j, k \in S : j # k

\* More of order i is booked or on its way than the venue executed.
Overstated(i) == venue[i].executed < oms.order[i].filled + InFlight(reports, i)

\* A report on the wire can only be counted: an answer to what was answered.
Doomed(i) ==
  \E k \in DOMAIN reports :
    /\ reports[k].id = i
    /\ \/ reports[k].type = "Acked" /\ oms.order[i].state # "PendingNew"
       \/ Closes(reports[k]) /\ i \notin Working(oms)

\* More refusals of a cancel will come in for order i than it can take, whatever
\* it is asked next: one at least, or two if it waits for one.  The order is dead
\* at the venue, which grants it no cancel any more.
OneTooMany(i) ==
  /\ ~venue[i].live
  /\ CancelsOf(i) # {} \/ RefusalsOf(i) # {}
  /\ oms.order[i].state = "PendingCancel" =>
       \/ CancelsOf(i) # {} /\ RefusalsOf(i) # {}
       \/ Several(CancelsOf(i)) \/ Several(RefusalsOf(i))

\* A cancel is refused for a dead order only; and as long as nothing was
\* counted, no execution is missing, and a report that came twice has left its
\* trace on some order.
TraceInv ==
  /\ \A k \in DOMAIN reports :
       reports[k].type = "CancelRejected" => ~venue[reports[k].id].live
  /\ NothingCounted =>
       /\ \A i \in DOMAIN venue : venue[i].executed <= oms.order[i].filled + InFlight(reports, i)
       /\ duplicates > 0 =>
            \E i \in DOMAIN venue : Overstated(i) \/ Doomed(i) \/ OneTooMany(i)

\* What keeps a refusal one too many.
LEMMA StillTooMany ==
  ASSUME NEW i, OneTooMany(i), ~venue'[i].live,
         oms'.order[i].state = "PendingCancel" => oms.order[i].state = "PendingCancel",
         CancelsOf(i) # {} => CancelsOf(i)' # {}, Several(CancelsOf(i)) => Several(CancelsOf(i)'),
         RefusalsOf(i) # {} => RefusalsOf(i)' # {},
         Several(RefusalsOf(i)) => Several(RefusalsOf(i)')
  PROVE  OneTooMany(i)'
BY Zenon DEF OneTooMany

\* The engine's other steps leave each trace where it is; a cancel it asks for
\* comes with the request.
LEMMA TraceStays ==
  ASSUME SessionInv, TraceInv, UNCHANGED <<venue, reports, duplicates>>,
         oms.breaks \subseteq oms'.breaks,
         DOMAIN venue \cap Tracked(oms') \subseteq Tracked(oms),
         \A i \in DOMAIN venue \cap Tracked(oms') :
           /\ oms'.order[i].filled = oms.order[i].filled
           /\ \/ oms'.order[i].state \in {oms.order[i].state, "Expired"}
              \/ /\ oms.order[i].state \in {"New", "PartiallyFilled"}
                 /\ oms'.order[i].state = "PendingCancel"
                 /\ \E k \in DOMAIN requests' \ DOMAIN requests :
                      requests'[k].what = "Cancel" /\ requests'[k].id = i,
         DOMAIN requests \subseteq DOMAIN requests',
         \A k \in DOMAIN requests : requests'[k] = requests[k]
  PROVE  TraceInv'
<1>1. \A k \in DOMAIN reports' :
        reports'[k].type = "CancelRejected" => ~venue'[reports'[k].id].live
  BY DEF TraceInv
<1>2. ASSUME NothingCounted'
      PROVE  /\ \A i \in DOMAIN venue' :
                  venue'[i].executed <= oms'.order[i].filled + InFlight(reports', i)
             /\ duplicates' > 0 =>
                  \E i \in DOMAIN venue' : Overstated(i)' \/ Doomed(i)' \/ OneTooMany(i)'
  <2>1. NothingCounted /\ DOMAIN venue \subseteq Tracked(oms')
    BY <1>2 DEF NothingCounted
  <2>2. \A i \in DOMAIN venue : oms'.order[i].filled = oms.order[i].filled
    BY <2>1
  <2>3. \A i \in DOMAIN venue' :
          venue'[i].executed <= oms'.order[i].filled + InFlight(reports', i)
    BY <2>1, <2>2 DEF TraceInv
  <2>4. ASSUME NEW i \in DOMAIN venue, Overstated(i) PROVE Overstated(i)'
    BY <2>2, <2>4 DEF Overstated
  <2>5. ASSUME NEW i \in DOMAIN venue, Doomed(i) PROVE Doomed(i)'
    <3>1. /\ oms.order[i].state # "PendingNew" => oms'.order[i].state # "PendingNew"
          /\ i \notin Working(oms) => i \notin Working(oms')
      BY <2>1 DEF Working, NothingCounted, Live
    <3> QED BY <2>5, <3>1 DEF Doomed
  <2>6. ASSUME NEW i \in DOMAIN venue, OneTooMany(i) PROVE OneTooMany(i)'
    <3>1. CancelsOf(i) \subseteq CancelsOf(i)' /\ RefusalsOf(i)' = RefusalsOf(i)
      BY DEF CancelsOf, RefusalsOf
    <3>2. CASE oms'.order[i].state = "PendingCancel" => oms.order[i].state = "PendingCancel"
      <4>1. Several(CancelsOf(i)) => Several(CancelsOf(i)')
        BY <3>1 DEF Several
      <4>2. CancelsOf(i) # {} => CancelsOf(i)' # {}
        BY <3>1
      <4> QED BY <2>6, <3>1, <3>2, <4>1, <4>2, StillTooMany DEF OneTooMany
    <3>3. CASE \E k \in DOMAIN requests' \ DOMAIN requests :
                 requests'[k].what = "Cancel" /\ requests'[k].id = i
      <4>1. PICK k \in CancelsOf(i)' : k \notin CancelsOf(i)
        BY <3>3 DEF CancelsOf
      <4>2. CancelsOf(i) # {} => Several(CancelsOf(i)')
        BY <3>1, <4>1 DEF Several
      <4>3. CancelsOf(i)' # {} /\ ~venue'[i].live
        BY <2>6, <4>1 DEF OneTooMany
      <4>4. CancelsOf(i) # {} \/ RefusalsOf(i) # {}
        BY <2>6 DEF OneTooMany
      <4> QED BY <3>1, <4>2, <4>3, <4>4 DEF OneTooMany
    <3> QED BY <2>1, <3>2, <3>3
  <2>7. duplicates' > 0 =>
          \E i \in DOMAIN venue : Overstated(i) \/ Doomed(i) \/ OneTooMany(i)
    BY <2>1 DEF TraceInv
  <2> QED BY <2>3, <2>4, <2>5, <2>6, <2>7
<1> QED BY <1>1, <1>2 DEF TraceInv

\* Sweep, Tick and Cancel leave the traces.
LEMMA RecallLeavesTraces ==
  ASSUME SessionInv, TraceInv, Recalls
  PROVE  TraceInv'
BY TraceStays DEF Recalls

\* Send leaves the traces: it changes no order the venue knows.
LEMMA SendLeavesTraces ==
  ASSUME SessionInv, TraceInv, NEW quantity \in 1 .. MaxQuantity, Send(quantity)
  PROVE  TraceInv'
<1>1. PICK s \in Symbol, d \in Side : oms' = Create(oms, s, d, quantity)
  BY DEF Send
<1>2. /\ requests' \in {Append(requests, NewOrder(oms.next, quantity)), requests}
      /\ UNCHANGED <<venue, reports, duplicates>>
  BY DEF Send, wireFaults
<1>3. /\ IInv(oms) /\ oms.next \in Nat /\ DOMAIN venue \subseteq 1 .. oms.next - 1
      /\ requests \in Seq(RequestRecord)
  BY Entries DEF SessionInv, SessionTyped
<1>4. /\ Tracked(oms') \subseteq Tracked(oms) \cup {oms.next}
      /\ \A i \in Tracked(oms) : oms'.order[i] = oms.order[i]
      /\ oms.breaks \subseteq oms'.breaks
  BY <1>1, <1>3, CreateAdvances DEF Create
<1>5. DOMAIN venue \cap Tracked(oms') \subseteq Tracked(oms)
  BY <1>3, <1>4
<1>6. DOMAIN requests \subseteq DOMAIN requests' /\ \A k \in DOMAIN requests : requests'[k] = requests[k]
  <2>1. NewOrder(oms.next, quantity) \in RequestRecord
    <3>1. quantity \in Nat
      BY VenueSessionConstants DEF VenueSessionConstants
    <3> QED BY <1>3, <3>1 DEF NewOrder, RequestRecord
  <2>2. Len(requests) \in Nat /\ DOMAIN requests = 1 .. Len(requests)
    BY <1>3, LenProperties
  <2>3. LET longer == Append(requests, NewOrder(oms.next, quantity))
        IN  /\ DOMAIN longer = 1 .. Len(requests) + 1
            /\ \A k \in 1 .. Len(requests) : longer[k] = requests[k]
    BY <1>3, <2>1, AppendProperties, LenProperties
  <2> QED BY <1>2, <2>2, <2>3
<1> QED BY <1>2, <1>4, <1>5, <1>6, TraceStays

\* The venue leaves the traces: what it executes it reports, and it turns a
\* request to cancel a dead order into the refusal.
LEMMA VenueLeavesTraces ==
  ASSUME SessionInv, TraceInv, NEW rep, NEW x, NEW taken, Answers(rep, x, taken)
  PROVE  TraceInv'
<1> DEFINE new == Len(reports) + 1
           more == IF rep.type = "Fill" THEN rep.quantity ELSE 0
<1>1. /\ rep \in ReportRecord /\ rep.id = x /\ taken \in {0, 1}
      /\ UNCHANGED <<oms, duplicates>> /\ reports' = Append(reports, rep)
      /\ DOMAIN venue' = DOMAIN venue \cup {x}
      /\ \A i \in DOMAIN venue \ {x} : venue'[i] = venue[i]
      /\ x \in DOMAIN venue /\ venue'[x].live => venue[x].live
      /\ venue'[x].executed = (IF x \in DOMAIN venue THEN venue[x].executed ELSE 0) + more
      /\ rep.type = "CancelRejected" => ~venue'[x].live
      /\ \A k \in DOMAIN requests :
           k > taken => k - taken \in DOMAIN requests' /\ requests'[k - taken] = requests[k]
      /\ taken = 1 /\ requests[1].what = "Cancel" =>
           requests[1].id = x /\ (rep.type = "CancelRejected" \/ venue[x].live)
  BY DEF Answers, Says
<1>2. /\ reports \in Seq(ReportRecord) /\ Len(reports) \in Nat
      /\ DOMAIN reports = 1 .. Len(reports) /\ DOMAIN requests = 1 .. Len(requests)
      /\ Len(requests) \in Nat /\ more \in Nat
      /\ \A k \in DOMAIN reports : reports[k].id \in DOMAIN venue
      /\ \A i \in DOMAIN venue : venue[i].executed \in Nat
      /\ \A i \in Tracked(oms) : oms.order[i].filled \in Nat
  <2>1. more \in Nat
    BY <1>1 DEF ReportRecord
  <2>2. SessionTyped /\ \A k \in DOMAIN reports : reports[k].id \in DOMAIN venue
    BY DEF SessionInv, ReportsSound
  <2>3. \A i \in DOMAIN venue : venue[i].executed \in Nat
    BY <2>2, Entries DEF VenueOrder
  <2> QED BY <2>1, <2>2, <2>3, Entries DEF SessionTyped
<1>3. /\ DOMAIN reports' = 1 .. new /\ reports'[new] = rep
      /\ \A k \in DOMAIN reports : k \in DOMAIN reports' /\ k # new /\ reports'[k] = reports[k]
  BY <1>1, <1>2, AppendProperties, LenProperties
<1>4. \A i : /\ InFlight(reports', i) = InFlight(reports, i) + (IF i = x THEN more ELSE 0)
             /\ InFlight(reports, i) \in Nat
  BY <1>1, <1>2, InFlightAppended, InFlightCounts
<1>5. \A i \in DOMAIN venue :
        /\ ~venue[i].live => ~venue'[i].live
        /\ venue'[i].executed = venue[i].executed + (IF i = x THEN more ELSE 0)
  BY <1>1, <1>2
<1>6. new \in DOMAIN reports' /\ new \notin DOMAIN reports
  BY <1>2, <1>3
<1> HIDE DEF new, more
<1>7. ASSUME NEW k \in DOMAIN reports', reports'[k].type = "CancelRejected"
      PROVE  ~venue'[reports'[k].id].live
  <2>1. CASE k \in DOMAIN reports
    BY <1>2, <1>3, <1>5, <1>7, <2>1 DEF TraceInv
  <2>2. CASE k \notin DOMAIN reports
    <3>1. k = new
      BY <1>2, <1>3, <2>2 DEF new
    <3> QED BY <1>1, <1>3, <1>7, <3>1
  <2> QED BY <2>1, <2>2
<1>8. ASSUME NothingCounted'
      PROVE  /\ \A i \in DOMAIN venue' :
                  venue'[i].executed <= oms'.order[i].filled + InFlight(reports', i)
             /\ duplicates' > 0 =>
                  \E i \in DOMAIN venue' : Overstated(i)' \/ Doomed(i)' \/ OneTooMany(i)'
  <2>1. /\ NothingCounted /\ DOMAIN venue' \subseteq Tracked(oms)
        /\ \A i \in DOMAIN venue : venue[i].executed <= oms.order[i].filled + InFlight(reports, i)
        /\ duplicates > 0 =>
             \E i \in DOMAIN venue : Overstated(i) \/ Doomed(i) \/ OneTooMany(i)
    BY <1>1, <1>8 DEF NothingCounted, TraceInv
  <2>2. ASSUME NEW i \in DOMAIN venue'
        PROVE  venue'[i].executed <= oms'.order[i].filled + InFlight(reports', i)
    <3>1. oms.order[i].filled \in Nat
      BY <1>2, <2>1
    <3>2. CASE i \in DOMAIN venue
      <4> DEFINE a == venue[i].executed
                 b == oms.order[i].filled
                 c == InFlight(reports, i)
                 m == IF i = x THEN more ELSE 0
      <4>1. /\ a \in Nat /\ b \in Nat /\ c \in Nat /\ m \in Nat /\ a <= b + c
            /\ venue'[i].executed = a + m /\ oms'.order[i].filled = b
            /\ InFlight(reports', i) = c + m
        BY <1>1, <1>2, <1>4, <1>5, <2>1, <3>1, <3>2
      <4> HIDE DEF a, b, c, m
      <4>2. a + m <= b + (c + m)
        BY <4>1
      <4> QED BY <4>1, <4>2
    <3>3. CASE i \notin DOMAIN venue
      <4>1. i = x /\ venue'[i].executed = 0 + more
        BY <1>1, <3>3
      <4>2. InFlight(reports', i) = InFlight(reports, i) + more /\ InFlight(reports, i) \in Nat
        BY <1>4, <4>1
      <4> QED BY <1>1, <1>2, <3>1, <4>1, <4>2
    <3> QED BY <3>2, <3>3
  <2>3. ASSUME NEW i \in DOMAIN venue, Overstated(i) PROVE Overstated(i)'
    <3> DEFINE a == venue[i].executed
               b == oms.order[i].filled
               c == InFlight(reports, i)
               m == IF i = x THEN more ELSE 0
    <3>1. /\ a \in Nat /\ b \in Nat /\ c \in Nat /\ m \in Nat /\ a < b + c
          /\ venue'[i].executed = a + m /\ oms'.order[i].filled = b
          /\ InFlight(reports', i) = c + m
      BY <1>1, <1>2, <1>4, <1>5, <2>1, <2>3 DEF Overstated
    <3> HIDE DEF a, b, c, m
    <3>2. a + m < b + (c + m)
      BY <3>1
    <3> QED BY <3>1, <3>2 DEF Overstated
  <2>4. ASSUME NEW i \in DOMAIN venue, Doomed(i) PROVE Doomed(i)'
    BY <1>1, <1>3, <2>4 DEF Doomed
  <2>5. ASSUME NEW i \in DOMAIN venue, OneTooMany(i) PROVE OneTooMany(i)'
    <3>1. ~venue[i].live /\ ~venue'[i].live /\ oms'.order[i].state = oms.order[i].state
      BY <1>1, <1>5, <2>5 DEF OneTooMany
    <3>2. RefusalsOf(i) \subseteq RefusalsOf(i)' /\ new \notin RefusalsOf(i)
      BY <1>3, <1>6 DEF RefusalsOf
    <3>3. \A k \in CancelsOf(i) : k > taken => k - taken \in CancelsOf(i)'
      BY <1>1 DEF CancelsOf
    <3>4. CancelsOf(i) \subseteq Nat \ {0}
      BY <1>2 DEF CancelsOf
    <3>5. CASE \A k \in CancelsOf(i) : k > taken
      <4>1. CancelsOf(i) # {} => CancelsOf(i)' # {}
        BY <3>3, <3>5
      <4>2. Several(CancelsOf(i)) => Several(CancelsOf(i)')
        <5> SUFFICES ASSUME NEW j \in CancelsOf(i), NEW k \in CancelsOf(i), j # k
                     PROVE  j - taken # k - taken
          BY <3>3, <3>5 DEF Several
        <5> QED BY <1>1, <3>4
      <4>3. Several(RefusalsOf(i)) => Several(RefusalsOf(i)')
        BY <3>2 DEF Several
      <4> QED BY <2>5, <3>1, <3>2, <4>1, <4>2, <4>3, StillTooMany
    <3>6. CASE \E k \in CancelsOf(i) : ~(k > taken)
      <4>1. taken = 1 /\ 1 \in CancelsOf(i)
        BY <1>1, <3>4, <3>6
      <4>2. rep.type = "CancelRejected" /\ i = x
        BY <1>1, <3>1, <4>1 DEF CancelsOf
      <4>3. new \in RefusalsOf(i)'
        BY <1>1, <1>3, <1>6, <4>2 DEF RefusalsOf
      <4>4. RefusalsOf(i) # {} => Several(RefusalsOf(i)')
        BY <3>2, <4>3 DEF Several
      <4>5. Several(CancelsOf(i)) => CancelsOf(i)' # {}
        <5> SUFFICES ASSUME NEW j \in CancelsOf(i), j # 1 PROVE CancelsOf(i)' # {}
          BY DEF Several
        <5> QED BY <3>3, <3>4, <4>1
      <4>6. Several(RefusalsOf(i)) => RefusalsOf(i) # {}
        BY DEF Several
      <4> QED BY <2>5, <3>1, <4>3, <4>4, <4>5, <4>6 DEF OneTooMany
    <3> QED BY <3>5, <3>6
  <2> QED BY <1>1, <2>1, <2>2, <2>3, <2>4, <2>5
<1> QED BY <1>7, <1>8 DEF TraceInv

\* An order waits for its cancel after a report only if it did before, and the
\* report was a fill.
LEMMA FillLeavesCancelPending ==
  ASSUME NEW o, IInv(o), NEW rep, ReadableReport(rep), Applies(o, rep),
         Apply(o, rep).order[rep.id].state = "PendingCancel"
  PROVE  o.order[rep.id].state = "PendingCancel" /\ rep.type = "Fill"
<1> DEFINE n == Apply(o, rep)
           x == rep.id
<1>1. /\ rep.type \in ExecType /\ rep.quantity \in Nat /\ Typed(o) /\ x \in Tracked(o)
      /\ x \in Working(o) /\ x \in Tracked(n)
      /\ rep.type \in {"VenueRejected", "Cancelled"} => x \notin Working(n)
      /\ rep.type = "Fill" => rep.quantity \in Nat \ {0}
  <2>1. /\ rep.type \in ExecType /\ rep.quantity \in Nat /\ Typed(o) /\ x \in Tracked(o)
        /\ rep.type = "Fill" => rep.quantity \in Nat \ {0}
    BY DEF ReadableReport, IInv, Sound, Applies
  <2>2. /\ x \in Working(o) /\ MovesOn(o, n, x, IF rep.type = "Fill" THEN rep.quantity ELSE 0)
        /\ rep.type \in {"VenueRejected", "Cancelled"} => x \notin Working(n)
    BY TakenMovesOn
  <2> HIDE DEF n
  <2> QED BY <2>1, <2>2 DEF MovesOn
<1>2. rep.type \notin {"VenueRejected", "Cancelled"}
  BY <1>1 DEF Working, Live
<1>3. rep.type \notin {"Acked", "CancelRejected"}
  <2> SUFFICES ASSUME rep.type \in {"Acked", "CancelRejected"} PROVE FALSE
    OBVIOUS
  <2>1. PICK state \in {"New", "PartiallyFilled"} : n = SetState(o, x, state)
    BY <1>1 DEF Apply
  <2>2. n.order[x].state = state
    BY <1>1, <2>1, SetStateMovesOn DEF Live
  <2> QED BY <2>1, <2>2
<1>4. rep.type = "Fill"
  BY <1>1, <1>2, <1>3 DEF ExecType, AcceptedIn
<1> DEFINE hit == Execute(o, x, rep.quantity)
<1>5. n = ApplyFill(o, x, rep.quantity)
  BY <1>1, <1>4 DEF Apply
<1>6. /\ Sound(hit, {x}) /\ x \in Working(hit) /\ SameOrder(o, hit, x)
      /\ hit.order[x].state = o.order[x].state
  BY <1>1, <1>4, ExecuteKeeps, ExecuteRemembers
<1>7. \/ n = Retire(hit, <<x>>, "Filled")
      \/ hit.order[x].state = "PendingCancel" /\ n = hit
      \/ n = SetState(hit, x, "PartiallyFilled")
  BY <1>5 DEF ApplyFill
<1>8. Typed(hit) /\ Books(hit) /\ n.order[x].state = "PendingCancel"
  BY <1>6 DEF Sound
<1> HIDE DEF hit, n, x
<1>9. CASE n = Retire(hit, <<x>>, "Filled")
  <2>1. x \notin Working(n)
    BY <1>6, <1>8, <1>9, RetireMovesOn DEF Terminal
  <2> QED BY <1>1, <1>8, <2>1 DEF Working, Live
<1>10. CASE n = SetState(hit, x, "PartiallyFilled")
  <2>1. n.order[x].state = "PartiallyFilled"
    BY <1>6, <1>8, <1>10, SetStateMovesOn DEF Live
  <2> QED BY <1>8, <2>1
<1> QED BY <1>4, <1>6, <1>7, <1>9, <1>10 DEF x

\* Deliver leaves the traces: a report that could only be counted is counted, any
\* other moves its order on, and if it stays on the wire it leaves its trace.
LEMMA DeliverLeavesTraces ==
  ASSUME SessionInv, TraceInv, NEW k \in 1 .. MaxInFlight, Deliver(k)
  PROVE  TraceInv'
<1> DEFINE rep  == reports[k]
           x    == rep.id
           more == IF rep.type = "Fill" THEN rep.quantity ELSE 0
<1>1. /\ k \in 1 .. Len(reports) /\ oms' = Apply(oms, rep)
      /\ \/ reports' = RemoveAt(reports, k) /\ duplicates' = duplicates
         \/ reports' = reports
      /\ UNCHANGED <<venue, requests>>
  BY DEF Deliver
<1>2. SessionTyped /\ ReportsSound
  BY DEF SessionInv
<1>3. /\ IInv(oms) /\ Typed(oms) /\ reports \in Seq(ReportRecord)
      /\ DOMAIN reports = 1 .. Len(reports)
      /\ rep \in ReportRecord /\ ReadableReport(rep)
      /\ x \in DOMAIN venue /\ (rep.type = "Fill" => rep.quantity > 0)
      /\ \A i \in DOMAIN venue : venue[i].executed \in Nat
      /\ \A i \in Tracked(oms) : oms.order[i].filled \in Nat
  <2>1. rep \in ReportRecord /\ ReadableReport(rep)
    BY <1>1, <1>2, Entries DEF ReportRecord, ReadableReport
  <2>2. \A i \in DOMAIN venue : venue[i].executed \in Nat
    BY <1>2, Entries DEF VenueOrder
  <2> QED BY <1>1, <1>2, <2>1, <2>2, Entries DEF SessionTyped, ReportsSound
<1>4. PICK f : ComesFrom(f, reports, k, reports')
  <2>1. /\ reports \in Seq(ReportRecord) /\ k \in 1 .. Len(reports)
        /\ reports' \in {reports, RemoveAt(reports, k)}
    BY <1>1, <1>3
  <2> QED BY ONLY <2>1, LeftOver
<1>5. \A i : LET taken == IF i = x THEN more ELSE 0
             IN  /\ InFlight(reports, i) \in Nat /\ InFlight(reports', i) \in Nat
                 /\ taken \in Nat
                 /\ InFlight(reports, i) <= InFlight(reports', i) + taken
                 /\ reports' = reports => InFlight(reports', i) = InFlight(reports, i)
  <2> SUFFICES ASSUME NEW i
               PROVE  LET taken == IF i = x THEN more ELSE 0
                      IN  /\ InFlight(reports, i) \in Nat /\ InFlight(reports', i) \in Nat
                          /\ taken \in Nat
                          /\ InFlight(reports, i) <= InFlight(reports', i) + taken
                          /\ reports' = reports => InFlight(reports', i) = InFlight(reports, i)
    OBVIOUS
  <2> DEFINE lots == IF reports[k].id = i /\ reports[k].type = "Fill"
                     THEN reports[k].quantity ELSE 0
  <2>1. /\ InFlight(reports, i) = InFlight(RemoveAt(reports, k), i) + lots
        /\ InFlight(RemoveAt(reports, k), i) \in Nat /\ lots \in Nat
        /\ InFlight(reports, i) \in Nat
    BY <1>1, <1>3, InFlightRemoved, InFlightCounts
  <2>2. lots = IF i = x THEN more ELSE 0
    BY DEF x, more, rep
  <2> HIDE DEF lots
  <2>3. CASE reports' = RemoveAt(reports, k)
    BY <2>1, <2>2, <2>3
  <2>4. CASE reports' = reports
    BY <2>1, <2>2, <2>4
  <2> QED BY <1>1, <2>3, <2>4
<1>6. \A j \in DOMAIN reports' :
        reports'[j].type = "CancelRejected" => ~venue'[reports'[j].id].live
  BY <1>1, <1>4 DEF ComesFrom, TraceInv
<1>7. ASSUME NothingCounted'
      PROVE  /\ \A i \in DOMAIN venue' :
                  venue'[i].executed <= oms'.order[i].filled + InFlight(reports', i)
             /\ duplicates' > 0 =>
                  \E i \in DOMAIN venue' : Overstated(i)' \/ Doomed(i)' \/ OneTooMany(i)'
  <2>1. Applies(oms, rep)
    BY <1>1, <1>3, <1>7, RefusedIsCounted DEF NothingCounted
\* What the report does to its order, and that it does nothing to the others.
  <2>2. /\ x \in Working(oms) /\ MovesOn(oms, oms', x, more)
        /\ Closes(rep) => x \notin Working(oms')
        /\ x \in Working(oms') => oms'.order[x].state # "PendingNew"
    BY <1>1, <1>3, <2>1, TakenMovesOn DEF Closes
  <2>3. /\ oms'.order[x].state = "PendingCancel" =>
             oms.order[x].state = "PendingCancel" /\ rep.type = "Fill"
        /\ rep.type = "Acked" => oms.order[x].state = "PendingNew"
        /\ rep.type = "CancelRejected" => oms.order[x].state = "PendingCancel"
    <3>1. /\ rep.type = "Acked" => oms.order[x].state = "PendingNew"
          /\ rep.type = "CancelRejected" => oms.order[x].state = "PendingCancel"
      BY <2>1 DEF Applies, AcceptedIn
    <3> QED BY <1>1, <1>3, <2>1, <3>1, FillLeavesCancelPending
  <2>4. /\ Tracked(oms') \subseteq Tracked(oms) /\ oms.breaks \subseteq oms'.breaks
        /\ Working(oms') \subseteq Working(oms)
        /\ \A i \in Tracked(oms') : i # x => oms'.order[i] = oms.order[i]
        /\ oms'.order[x].filled = oms.order[x].filled + more /\ x \in Tracked(oms')
    BY <2>2 DEF MovesOn, Within
  <2>5. oms'.order[x].state # "PendingNew"
    BY <2>2, <2>4 DEF Working, Live
  <2>6. /\ NothingCounted /\ DOMAIN venue \subseteq Tracked(oms')
        /\ DOMAIN venue \subseteq Tracked(oms)
    BY <1>1, <1>7, <2>4 DEF NothingCounted
  <2> HIDE DEF rep, x, more
  <2>7. \A i \in DOMAIN venue :
          LET taken == IF i = x THEN more ELSE 0
          IN  /\ oms'.order[i].filled = oms.order[i].filled + taken
              /\ taken \in Nat /\ oms.order[i].filled \in Nat
    <3> SUFFICES ASSUME NEW i \in DOMAIN venue
                 PROVE  LET taken == IF i = x THEN more ELSE 0
                        IN  /\ oms'.order[i].filled = oms.order[i].filled + taken
                            /\ taken \in Nat /\ oms.order[i].filled \in Nat
      OBVIOUS
    <3>1. /\ (IF i = x THEN more ELSE 0) \in Nat /\ oms.order[i].filled \in Nat
          /\ i # x => oms'.order[i] = oms.order[i]
      BY <1>3, <1>5, <2>4, <2>6
    <3>2. CASE i = x
      BY <2>4, <3>1, <3>2
    <3>3. CASE i # x
      BY <3>1, <3>3
    <3> QED BY <3>2, <3>3
  <2>8. ASSUME NEW i \in DOMAIN venue'
        PROVE  venue'[i].executed <= oms'.order[i].filled + InFlight(reports', i)
    <3> DEFINE a == venue[i].executed
               b == oms.order[i].filled
               c == InFlight(reports, i)
               d == InFlight(reports', i)
               m == IF i = x THEN more ELSE 0
    <3>1. /\ a \in Nat /\ b \in Nat /\ c \in Nat /\ d \in Nat /\ m \in Nat
          /\ a <= b + c /\ c <= d + m
          /\ venue'[i].executed = a /\ oms'.order[i].filled = b + m
      BY <1>1, <1>3, <1>5, <2>6, <2>7 DEF TraceInv
    <3> HIDE DEF a, b, c, d, m
    <3>2. a <= (b + m) + d
      BY <3>1
    <3> QED BY <3>1, <3>2 DEF d
  <2>9. ASSUME reports' = reports, NEW i \in DOMAIN venue, i = x
        PROVE  Overstated(i)' \/ Doomed(i)' \/ OneTooMany(i)'
    <3>1. k \in DOMAIN reports' /\ reports'[k] = rep /\ rep.id = i
      BY <1>1, <1>3, <2>9 DEF rep, x
    <3>2. CASE rep.type = "Fill"
      <4> DEFINE a == venue[i].executed
                 b == oms.order[i].filled
                 c == InFlight(reports, i)
      <4>1. /\ a \in Nat /\ b \in Nat /\ c \in Nat /\ more \in Nat /\ a <= b + c
            /\ venue'[i].executed = a /\ oms'.order[i].filled = b + more
            /\ InFlight(reports', i) = c
        BY <1>1, <1>3, <1>5, <2>4, <2>6, <2>9 DEF TraceInv
      <4>2. more > 0
        BY <1>3, <3>2 DEF more
      <4> HIDE DEF a, b, c
      <4>3. a < (b + more) + c
        BY <4>1, <4>2
      <4> QED BY <4>1, <4>3 DEF Overstated
    <3>3. CASE rep.type = "Acked"
      BY <2>5, <2>9, <3>1, <3>3 DEF Doomed
    <3>4. CASE Closes(rep)
      BY <2>2, <2>9, <3>1, <3>4 DEF Doomed
    <3>5. CASE rep.type = "CancelRejected"
      <4>1. k \in RefusalsOf(i)'
        BY <3>1, <3>5 DEF RefusalsOf
      <4>2. ~venue'[i].live
        BY <1>6, <3>1, <3>5
      <4> QED BY <2>3, <2>9, <3>5, <4>1, <4>2 DEF OneTooMany
    <3>6. rep.type \in ExecType
      BY <1>3 DEF ReportRecord
    <3> QED BY <3>2, <3>3, <3>4, <3>5, <3>6 DEF ExecType, AcceptedIn, Closes
  <2>10. ASSUME NEW i \in DOMAIN venue, Overstated(i) PROVE Overstated(i)'
    <3> DEFINE a == venue[i].executed
               b == oms.order[i].filled
               c == InFlight(reports, i)
               d == InFlight(reports', i)
               m == IF i = x THEN more ELSE 0
    <3>1. /\ a \in Nat /\ b \in Nat /\ c \in Nat /\ d \in Nat /\ m \in Nat
          /\ a < b + c /\ c <= d + m
          /\ venue'[i].executed = a /\ oms'.order[i].filled = b + m
      BY <1>1, <1>3, <1>5, <2>7, <2>10 DEF Overstated
    <3> HIDE DEF a, b, c, d, m
    <3>2. a < (b + m) + d
      BY <3>1
    <3> QED BY <3>1, <3>2 DEF Overstated, d
  <2>11. ASSUME NEW i \in DOMAIN venue, Doomed(i) PROVE Doomed(i)'
    <3>1. PICK m \in DOMAIN reports :
            /\ reports[m].id = i
            /\ \/ reports[m].type = "Acked" /\ oms.order[i].state # "PendingNew"
               \/ Closes(reports[m]) /\ i \notin Working(oms)
      BY <2>11 DEF Doomed
    <3>2. m # k
      BY <2>2, <2>3, <3>1 DEF rep, x
    <3>3. PICK j \in DOMAIN reports' : reports'[j] = reports[m]
      BY <1>4, <3>1, <3>2 DEF ComesFrom
    <3>4. oms.order[i].state # "PendingNew" => oms'.order[i].state # "PendingNew"
      BY <2>4, <2>5, <2>6
    <3> QED BY <2>4, <3>1, <3>3, <3>4 DEF Doomed
  <2>12. ASSUME NEW i \in DOMAIN venue, OneTooMany(i) PROVE OneTooMany(i)'
    <3>1. ~venue'[i].live /\ CancelsOf(i)' = CancelsOf(i)
      BY <1>1, <2>12 DEF OneTooMany, CancelsOf
    <3>2. \A m \in RefusalsOf(i) \ {k} : \E j \in RefusalsOf(i)' : f[j] = m
      <4> SUFFICES ASSUME NEW m \in RefusalsOf(i) \ {k}
                   PROVE  \E j \in RefusalsOf(i)' : f[j] = m
        OBVIOUS
      <4>1. m \in DOMAIN reports \ {k}
        BY DEF RefusalsOf
      <4>2. PICK j \in DOMAIN reports' : f[j] = m /\ reports'[j] = reports[m]
        BY <1>4, <4>1 DEF ComesFrom
      <4> QED BY <4>2 DEF RefusalsOf
    <3>3. CASE k \notin RefusalsOf(i)
      <4>1. /\ RefusalsOf(i) # {} => RefusalsOf(i)' # {}
            /\ Several(RefusalsOf(i)) => Several(RefusalsOf(i)')
        BY <3>2, <3>3 DEF Several
      <4>2. oms'.order[i].state = "PendingCancel" => oms.order[i].state = "PendingCancel"
        BY <2>3, <2>4, <2>6
      <4> QED BY <2>12, <3>1, <4>1, <4>2, StillTooMany
    <3>4. CASE k \in RefusalsOf(i)
      <4>1. i = x /\ rep.type = "CancelRejected"
        BY <3>4 DEF RefusalsOf, rep, x
      <4>2. oms.order[i].state = "PendingCancel" /\ oms'.order[i].state # "PendingCancel"
        BY <2>3, <4>1
      <4>3. Several(RefusalsOf(i)) => RefusalsOf(i)' # {}
        BY <3>2 DEF Several
      <4>4. CancelsOf(i) # {} \/ RefusalsOf(i)' # {}
        BY <2>12, <4>2, <4>3 DEF OneTooMany, Several
      <4> QED BY <3>1, <4>2, <4>4 DEF OneTooMany
    <3> QED BY <3>3, <3>4
  <2>13. duplicates' > 0 =>
           \/ reports' = reports
           \/ \E i \in DOMAIN venue : Overstated(i) \/ Doomed(i) \/ OneTooMany(i)
    BY <1>1, <2>6 DEF TraceInv
  <2>14. ASSUME duplicates' > 0
         PROVE  \E i \in DOMAIN venue' : Overstated(i)' \/ Doomed(i)' \/ OneTooMany(i)'
    <3>1. CASE reports' = reports
      <4>1. \E i \in DOMAIN venue : i = x
        BY <1>3
      <4> QED BY <1>1, <2>9, <3>1, <4>1
    <3>2. CASE reports' # reports
      BY <1>1, <2>10, <2>11, <2>12, <2>13, <2>14, <3>2
    <3> QED BY <3>1, <3>2
  <2> QED BY <2>8, <2>14
<1> QED BY <1>6, <1>7 DEF TraceInv

\* As long as nothing was counted, a repeat has left its trace.
THEOREM TraceInvariant == Spec => []TraceInv
<1>1. Init => TraceInv
  <2> SUFFICES ASSUME Init PROVE TraceInv
    OBVIOUS
  <2>1. venue = [i \in {} |-> i] /\ reports = << >> /\ duplicates = 0
    BY DEF Init
  <2>2. DOMAIN venue = {} /\ DOMAIN reports = {} /\ ~(duplicates > 0)
    BY <2>1
  <2> QED BY <2>2 DEF TraceInv
<1>2. SessionInv /\ TraceInv /\ [Next]_vars => TraceInv'
  <2> SUFFICES ASSUME SessionInv, TraceInv, [Next]_vars PROVE TraceInv'
    OBVIOUS
  <2>1. ASSUME NEW quantity \in 1 .. MaxQuantity, Send(quantity) PROVE TraceInv'
    BY <2>1, SendLeavesTraces
  <2>2. ASSUME NEW id \in Tracked(oms), Cancel(id) PROVE TraceInv'
    BY <2>2, CancelRecalls, RecallLeavesTraces
  <2>3. ASSUME NEW k \in 1 .. MaxInFlight, Deliver(k) PROVE TraceInv'
    BY <2>3, DeliverLeavesTraces
  <2>4. CASE Sweep
    BY <2>4, SweepRecalls, RecallLeavesTraces
  <2>5. CASE Tick
    BY <2>5, TickRecalls, RecallLeavesTraces
  <2>6. ASSUME NEW rep, NEW x, NEW taken, Answers(rep, x, taken) PROVE TraceInv'
    BY <2>6, VenueLeavesTraces
  <2>7. CASE VenueAccept
    BY <2>6, <2>7, VenueAcceptAnswers
  <2>8. CASE VenueReject
    BY <2>6, <2>8, VenueRejectAnswers
  <2>9. ASSUME NEW id \in DOMAIN venue, NEW n \in 1 .. MaxQuantity, VenueExecute(id, n)
        PROVE  TraceInv'
    BY <2>6, <2>9, VenueExecuteAnswers
  <2>10. CASE VenueAnswerCancel
    BY <2>6, <2>10, VenueAnswerCancelAnswers
  <2>11. ASSUME NEW id \in DOMAIN venue, VenueCancels(id) PROVE TraceInv'
    BY <2>6, <2>11, VenueCancelsAnswers
  <2>12. CASE UNCHANGED vars
    <3>1. UNCHANGED <<oms, venue, requests, reports, duplicates>>
      BY <2>12 DEF vars, wireFaults
    <3>2. NothingCounted' = NothingCounted
      BY <3>1 DEF NothingCounted
    <3>3. \A i : /\ Overstated(i)' <=> Overstated(i)
                 /\ Doomed(i)' <=> Doomed(i)
                 /\ OneTooMany(i)' <=> OneTooMany(i)
      BY <3>1 DEF Overstated, Doomed, OneTooMany, CancelsOf, RefusalsOf
    <3> QED BY <3>1, <3>2, <3>3 DEF TraceInv
  <2> QED BY <2>1, <2>2, <2>3, <2>4, <2>5, <2>7, <2>8, <2>9, <2>10, <2>11, <2>12 DEF Next
<1> QED BY <1>1, <1>2, SessionInvariant, PTL DEF Spec

\* A repeated report is counted, or it was a fill that still fitted: with nothing
\* left on the wire, no other trace can stand.
THEOREM RepeatsAreCountedOrFills == Spec => []SilentDuplicateIsAFill
<1>1. SessionInv /\ TraceInv => SilentDuplicateIsAFill
  <2> SUFFICES ASSUME SessionInv, TraceInv, Quiet, duplicates > 0, NothingCounted
               PROVE  \E i \in Tracked(oms) : oms.order[i].filled > venue[i].executed
    BY DEF SilentDuplicateIsAFill, NothingCounted
  <2>1. DOMAIN reports = {} /\ DOMAIN requests = {}
    BY DEF Quiet
  <2>2. PICK i \in DOMAIN venue : Overstated(i) \/ Doomed(i) \/ OneTooMany(i)
    BY DEF TraceInv
  <2>3. ~Doomed(i) /\ ~OneTooMany(i)
    BY <2>1 DEF Doomed, OneTooMany, CancelsOf, RefusalsOf
  <2>4. InFlight(reports, i) = 0
    BY <2>1, NothingInFlight
  <2>5. i \in Tracked(oms) /\ oms.order[i].filled \in Nat
    BY Entries DEF SessionInv, NothingCounted
  <2> QED BY <2>2, <2>3, <2>4, <2>5 DEF Overstated
<1> QED BY <1>1, SessionInvariant, TraceInvariant, PTL
=============================================================================
