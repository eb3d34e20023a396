------------------------------- MODULE Journal -------------------------------
(***************************************************************************)
(* The event journal (cpp/src/journal.cpp), what a restart reads back from *)
(* it, and the comparison of that with the venue (cpp/src/reconcile.cpp),  *)
(* as operators; Restart.tla makes a system of them.                       *)
(*                                                                         *)
(* The file is a sequence of units, Units of them to a record, so that a   *)
(* crash may leave part of a record and what is appended after it lies     *)
(* across the frames the reader reads.  A frame passes its checksum if and *)
(* only if it is one whole record.  The header is not modelled: it is      *)
(* written before the first record.                                        *)
(***************************************************************************)
EXTENDS Oms

CONSTANTS
  Units,          \* the units a record is written in
  SyncInterval    \* Config::sync_interval

ASSUME JournalConstants == Units \in Nat \ {0} /\ SyncInterval \in Nat \ {0}

SyncPolicy == {"OnWrite", "Always", "Interval"}

-----------------------------------------------------------------------------
(***************************************************************************)
(* Writing.  A journal is [file, os, disk, since, seq]: what was written,  *)
(* how much of it the operating system has, how much the device has, the   *)
(* records since the last sync, the last sequence number.                  *)
(***************************************************************************)

UnitsOf(rec) == [part \in 1 .. Units |-> [rec |-> rec, part |-> part]]

HandedToOs(j) == [j EXCEPT !.os = Len(j.file)]

\* Mutant of Synced: fsync() without the fflush() before it.
SyncedUnflushed(j) == [j EXCEPT !.disk = Len(j.file), !.since = 0]

Synced(j) == [j EXCEPT !.os = Len(j.file), !.disk = Len(j.file), !.since = 0]

\* Mutant of SyncedIfDue: one record too late.
SyncedIfPastDue(j) == IF j.since > SyncInterval THEN Synced(j) ELSE j

SyncedIfDue(j) == IF j.since >= SyncInterval THEN Synced(j) ELSE j

\* append(), for an event of the given session.
AppendRecord(j, policy, session, event) ==
  LET rec     == [seq |-> j.seq + 1, session |-> session, event |-> event]
      written == [j EXCEPT !.file = @ \o UnitsOf(rec), !.seq = @ + 1]
  IN  CASE policy = "OnWrite"  -> HandedToOs(written)
        [] policy = "Always"   -> Synced(written)
        [] policy = "Interval" -> SyncedIfDue([written EXCEPT !.since = @ + 1])

\* The number is spent whether or not the write succeeds.
FailedAppend(j) == [j EXCEPT !.seq = @ + 1]

SessionStart == [type |-> "SessionStart"]
SessionEnd == [type |-> "SessionEnd"]
OrderSent(id, s, d, quantity) ==
  [type |-> "OrderSent", id |-> id, symbol |-> s, side |-> d, quantity |-> quantity]
ExecReport(rep) == [type |-> "ExecReport", report |-> rep]
Checkpoint(s, position) == [type |-> "Checkpoint", symbol |-> s, position |-> position]

-----------------------------------------------------------------------------
(***************************************************************************)
(* recover_from_journal(): the records are replayed into an order manager  *)
(* that has room for all of them.  Of it only the orders are read          *)
(* afterwards, so what is recovered keeps those alone, all of them: a      *)
(* create_with_id() that is never short of a slot, and apply() as it       *)
(* changes the order it is for.                                            *)
(***************************************************************************)
NothingRecovered ==
  [order |-> [i \in {} |-> i], read |-> 0, seq |-> 0, truncated |-> FALSE, corrupt |-> 0,
   gaps |-> 0, clean |-> FALSE, position |-> [s \in Symbol |-> 0], next |-> 0]

WithOrder(order, id, s, d, quantity) ==
  IF id = 0 \/ id \in DOMAIN order \/ quantity <= 0 THEN order
  ELSE [i \in DOMAIN order \cup {id} |->
          IF i = id THEN [symbol |-> s, side |-> d, quantity |-> quantity, filled |-> 0,
                          leaves |-> quantity, state |-> "PendingNew", age |-> 0]
          ELSE order[i]]

\* An order after a report it accepts.
Reported(order, rep) ==
  CASE rep.type = "Acked"          -> [order EXCEPT !.state = "New"]
    [] rep.type = "VenueRejected"  -> [order EXCEPT !.leaves = 0, !.state = "Rejected"]
    [] rep.type = "Cancelled"      -> [order EXCEPT !.leaves = 0, !.state = "Cancelled"]
    [] rep.type = "CancelRejected" ->
         [order EXCEPT !.state = IF order.filled > 0 THEN "PartiallyFilled" ELSE "New"]
    [] rep.type = "Fill" ->
         LET left == LeavesAfter(order, rep.quantity)
         IN  [order EXCEPT !.filled = @ + rep.quantity, !.leaves = left,
                           !.state  = IF left = 0 THEN "Filled"
                                      ELSE IF @ = "PendingCancel" THEN @ ELSE "PartiallyFilled"]

AfterReport(r, rep) ==
  IF Applies(r, rep) THEN [r.order EXCEPT ![rep.id] = Reported(@, rep)] ELSE r.order

SignedFill(rep) == IF rep.side = "Buy" THEN rep.quantity ELSE -rep.quantity

Replayed(r, event) ==
  CASE event.type = "OrderSent" ->
         [r EXCEPT !.order = WithOrder(@, event.id, event.symbol, event.side, event.quantity),
                   !.next  = IF event.id > @ THEN event.id ELSE @]
    [] event.type = "ExecReport" ->
         LET rep == event.report
         IN  [r EXCEPT !.order = AfterReport(r, rep),
                       !.position[rep.symbol] =
                          IF rep.type = "Fill" THEN @ + SignedFill(rep) ELSE @]
    [] event.type = "Checkpoint" -> [r EXCEPT !.position[event.symbol] = event.position]
    [] OTHER -> r

\* A record that passed its checksum.
ReadRecord(r, rec) ==
  Replayed([r EXCEPT !.gaps  = IF r.seq # 0 /\ rec.seq # r.seq + 1 THEN @ + 1 ELSE @,
                     !.seq   = rec.seq,
                     !.read  = @ + 1,
                     !.clean = rec.event.type = "SessionEnd"],
           rec.event)

Frame(file, k) == SubSeq(file, (k - 1) * Units + 1, k * Units)
Passes(frame) == frame = UnitsOf(frame[1].rec)

\* Mutant of ReadFrame: a bad frame is passed over in silence.
ReadFrameLenient(r, file, k) ==
  IF Passes(Frame(file, k)) THEN ReadRecord(r, Frame(file, k)[1].rec)
  ELSE [r EXCEPT !.truncated = TRUE]

\* A bad frame at the end of the file is a torn tail, one with bytes after it is
\* corruption; the reader goes on with the next frame.
ReadFrame(r, file, k) ==
  IF Passes(Frame(file, k)) THEN ReadRecord(r, Frame(file, k)[1].rec)
  ELSE IF k * Units = Len(file) THEN [r EXCEPT !.truncated = TRUE]
  ELSE [r EXCEPT !.corrupt = @ + 1]

\* What has been recovered after each frame.
FramesRead(file) ==
  LET read[k \in 0 .. Len(file) \div Units] ==
        IF k = 0 THEN NothingRecovered ELSE ReadFrame(read[k - 1], file, k)
  IN  read

Recover(file) ==
  LET whole == Len(file) \div Units
  IN  [FramesRead(file)[whole] EXCEPT !.truncated = @ \/ whole * Units # Len(file)]

\* What the last session left has to be signed off (main.cpp).
NeedsAttention(r) == (r.read > 0 /\ ~r.clean) \/ Working(r) # {} \/ r.corrupt > 0

-----------------------------------------------------------------------------
(***************************************************************************)
(* reconcile(): the recovered state r against a snapshot of the venue,     *)
(* [available, orders, position].  Its orders are numbered as they are     *)
(* listed; they carry our id, and two may carry the same one.              *)
(***************************************************************************)
Holders(snap, id) == {k \in DOMAIN snap.orders : snap.orders[k].id = id}

\* The first order under an id of ours is claimed; every other is an orphan.
Orphans(r, snap) ==
  {k \in DOMAIN snap.orders :
     \/ snap.orders[k].id \notin Working(r)
     \/ k # Min(Holders(snap, snap.orders[k].id))}

SameTerms(our, vo) == our.side = vo.side /\ our.symbol = vo.symbol

\* Our working orders which the venue rests on the same terms, with as much left.
Agreed(r, snap) ==
  {id \in Working(r) :
     /\ Holders(snap, id) # {}
     /\ LET vo == snap.orders[Min(Holders(snap, id))]
        IN  SameTerms(r.order[id], vo) /\ r.order[id].leaves = vo.leaves}

\* Clean: the venue answered and there is no discrepancy of any kind - no order of
\* ours missing or different there, no orphan, the same position in every symbol.
ReconciledClean(r, snap) ==
  /\ snap.available
  /\ Agreed(r, snap) = Working(r)
  /\ Orphans(r, snap) = {}
  /\ r.position = snap.position

\* The orders of the snapshot that the reconciliation hands on, and one of them as
\* main() passes it to adopt().
AgreedOpen(r, snap) ==
  {k \in DOMAIN snap.orders :
     /\ snap.orders[k].id \in Agreed(r, snap)
     /\ k = Min(Holders(snap, snap.orders[k].id))}

OpenOrder(vo) ==
  [id |-> vo.id, symbol |-> vo.symbol, side |-> vo.side, quantity |-> vo.quantity,
   filled |-> vo.filled, leaves |-> vo.leaves,
   state |-> IF vo.filled > 0 THEN "PartiallyFilled" ELSE "New"]
=============================================================================
