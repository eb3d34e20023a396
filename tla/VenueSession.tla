---------------------------- MODULE VenueSession -----------------------------
(***************************************************************************)
(* The order manager of the engine against a venue that answers when it    *)
(* likes.  engine.cpp:106-110 puts the paper venue's synchronous answer    *)
(* through the same reports "it would see from a live session"; this       *)
(* module is that live session.  The venue and the two channels are        *)
(* external: they are what oms.cpp says it must withstand - fills before   *)
(* the ack, fills that race a cancel, unsolicited cancels, repeated        *)
(* reports, and silence.                                                   *)
(***************************************************************************)
EXTENDS Oms, SequencesExt

CONSTANTS
  MaxId,           \* bound: orders sent
  MaxQuantity,     \* bound: an order's quantity
  MaxInFlight,     \* bound: reports on the wire
  MaxDuplicates    \* bound: reports delivered twice

ASSUME VenueSessionConstants ==
  /\ MaxId \in Nat \ {0} /\ MaxQuantity \in Nat \ {0} /\ MaxInFlight \in Nat \ {0}
  /\ MaxDuplicates \in Nat

VARIABLES
  oms,          \* the order manager
  expired,      \* the ids sweep_timeouts() has reported to the operator
  venue,        \* id -> [leaves, executed, live]: the venue's own book
  requests,     \* requests on the wire to the venue, oldest first
  reports,      \* reports on the wire back, oldest first
  duplicates,   \* history: how many reports were repeated so far
  overtaken     \* history: whether a report was delivered before an earlier one

wireFaults == <<duplicates, overtaken>>
vars == <<oms, expired, venue, requests, reports, wireFaults>>

NewOrder(id, quantity) == [id |-> id, what |-> "New", quantity |-> quantity]
CancelRequest(id) == [id |-> id, what |-> "Cancel", quantity |-> 0]
Report(id, type, quantity) == [id |-> id, type |-> type, quantity |-> quantity]

Init ==
  /\ oms = InitOms
  /\ expired = {}
  /\ venue = [i \in {} |-> i]
  /\ requests = << >>
  /\ reports = << >>
  /\ duplicates = 0 /\ overtaken = FALSE

-----------------------------------------------------------------------------
\* The engine's side.

\* create(), and the order goes out only if it could be tracked
\* (engine.cpp:351-358).
Send(quantity) ==
  /\ oms.next <= MaxId
  /\ \E s \in Symbol, d \in Side :
       /\ oms' = Create(oms, s, d, quantity)
       /\ requests' = IF CanCreate(oms, oms.next, quantity)
                      THEN Append(requests, NewOrder(oms.next, quantity))
                      ELSE requests
  /\ UNCHANGED <<expired, venue, reports, wireFaults>>

Cancel(id) ==
  /\ Cancellable(oms, id)
  /\ oms' = RequestCancel(oms, id)
  /\ requests' = Append(requests, CancelRequest(id))
  /\ UNCHANGED <<expired, venue, reports, wireFaults>>

\* The report that the wire delivers next: the oldest, or one that overtakes it.
Deliver(k) ==
  /\ k \in 1 .. Len(reports)
  /\ overtaken' = (overtaken \/ k # 1)
  /\ oms' = Apply(oms, reports[k])
  /\ \/ /\ reports' = RemoveAt(reports, k)
        /\ UNCHANGED duplicates
     \/ /\ duplicates < MaxDuplicates
        /\ duplicates' = duplicates + 1
        /\ UNCHANGED reports
  /\ UNCHANGED <<expired, venue, requests>>

Sweep ==
  /\ \E walk \in WalkOrders(Overdue(oms)) : oms' = SweepTimeouts(oms, walk)
  /\ expired' = expired \cup Overdue(oms)
  /\ UNCHANGED <<venue, requests, reports, wireFaults>>

Tick == oms' = Older(oms) /\ UNCHANGED <<expired, venue, requests, reports, wireFaults>>

-----------------------------------------------------------------------------
\* The venue's side.

Answer(rep) ==
  /\ Len(reports) < MaxInFlight
  /\ reports' = Append(reports, rep)
  /\ UNCHANGED <<oms, expired, wireFaults>>

VenueAccept ==
  /\ requests # << >> /\ Head(requests).what = "New"
  /\ LET q == Head(requests)
     IN  /\ venue' = [i \in DOMAIN venue \cup {q.id} |->
                        IF i = q.id THEN [leaves |-> q.quantity, executed |-> 0, live |-> TRUE]
                        ELSE venue[i]]
         /\ Answer(Report(q.id, "Acked", 0))
  /\ requests' = Tail(requests)

VenueReject ==
  /\ requests # << >> /\ Head(requests).what = "New"
  /\ LET q == Head(requests)
     IN  /\ venue' = [i \in DOMAIN venue \cup {q.id} |->
                        IF i = q.id THEN [leaves |-> 0, executed |-> 0, live |-> FALSE]
                        ELSE venue[i]]
         /\ Answer(Report(q.id, "VenueRejected", 0))
  /\ requests' = Tail(requests)

\* Mutant of VenueExecute: the venue executes more than is left.
VenueOverexecute(id, n) ==
  /\ venue[id].live
  /\ venue' = [venue EXCEPT ![id].leaves = @ - n, ![id].executed = @ + n,
                            ![id].live = venue[id].leaves > n]
  /\ Answer(Report(id, "Fill", n))
  /\ UNCHANGED requests

VenueExecute(id, n) ==
  /\ venue[id].live /\ n <= venue[id].leaves
  /\ venue' = [venue EXCEPT ![id].leaves = @ - n, ![id].executed = @ + n,
                            ![id].live = venue[id].leaves > n]
  /\ Answer(Report(id, "Fill", n))
  /\ UNCHANGED requests

Kill(id) == venue' = [venue EXCEPT ![id].leaves = 0, ![id].live = FALSE]

VenueAnswerCancel ==
  /\ requests # << >> /\ Head(requests).what = "Cancel"
  /\ LET id == Head(requests).id
     IN  IF id \in DOMAIN venue /\ venue[id].live
         THEN Kill(id) /\ Answer(Report(id, "Cancelled", 0))
         ELSE UNCHANGED venue /\ Answer(Report(id, "CancelRejected", 0))
  /\ requests' = Tail(requests)

\* Cancel on disconnect, or a day order that expires (oms.cpp:419-420).
VenueCancels(id) ==
  /\ venue[id].live
  /\ Kill(id)
  /\ Answer(Report(id, "Cancelled", 0))
  /\ UNCHANGED requests

Next ==
  \/ \E quantity \in 1 .. MaxQuantity : Send(quantity)
  \/ \E id \in Tracked(oms) : Cancel(id)
  \/ \E k \in 1 .. MaxInFlight : Deliver(k)
  \/ Sweep
  \/ Tick
  \/ VenueAccept
  \/ VenueReject
  \/ \E id \in DOMAIN venue, n \in 1 .. MaxQuantity : VenueExecute(id, n)
  \/ VenueAnswerCancel
  \/ \E id \in DOMAIN venue : VenueCancels(id)

Spec == Init /\ [][Next]_vars

-----------------------------------------------------------------------------
(***************************************************************************)
(* Properties.                                                             *)
(***************************************************************************)

Quiet == requests = << >> /\ reports = << >>

\* A report did not fit the state of the order it was for: invalid_transitions, one of
\* the four counters of breaks() (oms.hpp:131-140; late_reports is not one of them).
Misfit == "invalid" \in oms.breaks

\* The venue's book stays within what was ordered, and every record the order
\* manager keeps is well formed, whatever it was sent.
TypeOK ==
  /\ oms.order \in [Tracked(oms) -> OrderRecord]
  /\ expired \subseteq 1 .. MaxId
  /\ venue \in [DOMAIN venue -> [leaves : 0 .. MaxQuantity, executed : 0 .. MaxQuantity,
                                 live : BOOLEAN]]
  /\ \A k \in DOMAIN reports : reports[k].type \in ExecType
  /\ duplicates \in 0 .. MaxDuplicates /\ overtaken \in BOOLEAN

\* An order that can still trade at the venue is covered by working quantity
\* here, for at least what can still trade - the number the position limit is
\* checked against - unless the sweep gave the order up and said so, or a report
\* came twice.  Reports may overtake one another.
LiveAtVenueIsCovered ==
  duplicates = 0 => \A i \in DOMAIN venue \ expired :
    venue[i].live => i \in Working(oms) /\ oms.order[i].leaves >= venue[i].leaves

\* As long as every report is delivered once, what the venue executed is never
\* overstated here, and never understated once its reports are in unless a
\* report was counted as not fitting.
ExecutionsAreBooked ==
  duplicates = 0 => \A i \in DOMAIN venue \cap Tracked(oms) :
    /\ oms.order[i].filled <= venue[i].executed
    /\ Quiet => oms.order[i].filled = venue[i].executed \/ Misfit

AgreeOnWhatIsLive == \A i \in DOMAIN venue \ expired : venue[i].live <=> i \in Working(oms)

\* With nothing on the wire, both sides agree on which orders can still trade,
\* the given-up ones aside, however fills, cancels and their answers raced.
\* Reports that overtook one another may make them disagree, but not in
\* silence: some report was then counted as not fitting.
AgreeOrCounted ==
  Quiet /\ duplicates = 0 => AgreeOnWhatIsLive \/ (overtaken /\ Misfit)

\* A repeated report is counted, unless it is a fill that still fitted: then
\* the order manager holds more executions than the venue made (oms.hpp:27-30
\* has every duplicate counted; reports carry no execution id to tell one by).
\* Said while the records of all orders are kept.
SilentDuplicateIsAFill ==
  Quiet /\ duplicates > 0 /\ oms.breaks = {} /\ DOMAIN venue \subseteq Tracked(oms) =>
    \E i \in Tracked(oms) : oms.order[i].filled > venue[i].executed
=============================================================================
