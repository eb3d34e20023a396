------------------------------- MODULE Restart -------------------------------
(***************************************************************************)
(* Sessions of the engine one after another over one journal: what main()  *)
(* (cpp/src/main.cpp) does between recovery and the first message, what    *)
(* the engine writes while it trades, the ways a session ends, and the     *)
(* next start.  The venue is external: it rests, executes and cancels      *)
(* orders on its own, also while no session is up, and it remembers; so is *)
(* the operator, who writes down truthfully what the venue holds, or does  *)
(* not.                                                                    *)
(*                                                                         *)
(*   down      no process                                                  *)
(*   refused   exited with kExitUnclean                                    *)
(*   opening   past the checks, journal open, session start not written    *)
(*   idle      between two messages                                        *)
(*   sending   in dispatch(): order written, not yet at the venue          *)
(*   stopping  a write failed, and the loop is on its way out              *)
(*   closing   the loop has ended and the checkpoints are being written    *)
(***************************************************************************)
EXTENDS Journal

CONSTANTS
  Policies,        \* the sync policies that may be configured
  PowerMayFail,    \* TRUE: the machine may go down, not only the process
  WritesMayTear,   \* TRUE: a process may die half way through a write
  WritesMayFail,   \* TRUE: one append may fail
  AllowUnclean,    \* allow_unclean_start
  Sides,           \* bound: the sides orders are sent on
  MaxSession,      \* bound: sessions started
  MaxOrders,       \* bound: orders sent
  MaxQuantity      \* bound: an order's quantity

ASSUME RestartConstants ==
  /\ Symbol = 0 .. Cardinality(Symbol) - 1
  /\ Policies \subseteq SyncPolicy
  /\ PowerMayFail \in BOOLEAN /\ WritesMayTear \in BOOLEAN /\ WritesMayFail \in BOOLEAN
  /\ AllowUnclean \in BOOLEAN /\ Sides \subseteq Side
  /\ MaxSession \in Nat \ {0} /\ MaxOrders \in Nat /\ MaxQuantity \in Nat \ {0}

VARIABLES
  pc,          \* where the process is
  policy,      \* cfg.journal_sync
  journal,     \* the file, and the journal open on it
  oms,         \* engine->oms()
  held,        \* engine->venue().positions(): this session's fills only
  marked,      \* checkpoints written at the end of the session
  session,     \* sessions started so far
  venue,       \* the orders the venue was ever given, oldest first
  account,     \* the position the venue holds for us, per symbol
  wire,        \* its reports on the way to the session
  sent,        \* the ids the venue was given
  reused,      \* an id was given to the venue twice
  overlooked,  \* a session went ahead over records that recovery called corrupt
  lost         \* a record the journal was given is not in the file

process == <<oms, held, marked, session>>
market == <<venue, account>>
history == <<sent, reused, overlooked, lost>>
vars == <<pc, policy, journal, process, market, wire, history>>

Init ==
  /\ pc = "down"
  /\ policy \in Policies
  /\ journal = [file |-> << >>, os |-> 0, disk |-> 0, since |-> 0, seq |-> 0]
  /\ oms = InitOms
  /\ held = [s \in {} |-> 0]
  /\ marked = 0
  /\ session = 0
  /\ venue = << >>
  /\ account = [s \in Symbol |-> 0]
  /\ wire = << >>
  /\ sent = {}
  /\ reused = FALSE /\ overlooked = FALSE /\ lost = FALSE

Write(j, event) == AppendRecord(j, policy, session, event)

-----------------------------------------------------------------------------
(***************************************************************************)
(* Starting.                                                               *)
(***************************************************************************)

\* What the operator finds the venue to rest and to hold.
Rests(k) == venue[k].leaves > 0
Resting == Restrict(venue, {k \in DOMAIN venue : Rests(k)})

Snapshot(asked) == [available |-> asked, orders |-> Resting, position |-> account]

\* Mutant of MayStart: any answer of the venue will do.
MayStartOnceAsked(r, snap) == NeedsAttention(r) => snap.available \/ AllowUnclean

MayStart(r, snap) == NeedsAttention(r) => ReconciledClean(r, snap) \/ AllowUnclean

\* The orders the recovery hands on for adoption: none unless the venue was asked.
ToAdopt(r, snap) ==
  IF NeedsAttention(r) /\ snap.available THEN AgreedOpen(r, snap) ELSE {}

\* They are adopted one after another: what is tracked after the first k orders listed.
Adopting(o, r, snap) ==
  LET after[k \in 0 .. Len(venue)] ==
        IF k = 0 THEN o
        ELSE IF k \in ToAdopt(r, snap) THEN Adopt(after[k - 1], OpenOrder(snap.orders[k]))
        ELSE after[k - 1]
  IN  after

\* Mutant of FreshOms: the ids start over.
FreshOmsFromOne(r, snap) == Adopting(InitOms, r, snap)[Len(venue)]

FreshOms(r, snap) == Adopting(SetNextId(InitOms, r.next + 1), r, snap)[Len(venue)]

AllAdopted(r, snap) ==
  \A k \in ToAdopt(r, snap) : snap.orders[k].id \in Working(FreshOms(r, snap))

\* open() appends to the file as it is, and counts on from the records read.
ReopenedAt(r) == [journal EXCEPT !.since = 0, !.seq = r.read]

\* Recovery, the checks, the venue's answer if there is one, the journal reopened and
\* the adoption; where that fails, the process exits with the session start written, and
\* the journal's destructor syncs.
Start(asked) ==
  /\ pc \in {"down", "refused"}
  /\ session < MaxSession
  /\ LET r    == Recover(journal.file)
         snap == Snapshot(asked)
     IN  IF MayStart(r, snap)
         THEN /\ pc' = IF AllAdopted(r, snap) THEN "opening" ELSE "refused"
              /\ session' = session + 1
              /\ journal' = IF AllAdopted(r, snap) THEN ReopenedAt(r)
                            ELSE Synced(Write(ReopenedAt(r), SessionStart))
              /\ oms' = FreshOms(r, snap)
              /\ held' = [s \in {} |-> 0]
              /\ marked' = 0
              /\ overlooked' = (overlooked \/ r.corrupt > 0)
         ELSE /\ pc' = "refused"
              /\ UNCHANGED <<journal, process, overlooked>>
  /\ UNCHANGED <<policy, market, wire, sent, reused, lost>>

RecordSessionStart ==
  /\ pc = "opening"
  /\ pc' = "idle"
  /\ journal' = Write(journal, SessionStart)
  /\ UNCHANGED <<policy, process, market, wire, history>>

-----------------------------------------------------------------------------
(***************************************************************************)
(* Trading.                                                                *)
(***************************************************************************)

\* A signal becomes an order, and dispatch() writes it before it leaves.
Decide(s, d, quantity) ==
  /\ pc = "idle"
  /\ Len(venue) < MaxOrders
  /\ CanCreate(oms, oms.next, quantity)
  /\ pc' = "sending"
  /\ oms' = Create(oms, s, d, quantity)
  /\ journal' = Write(journal, OrderSent(oms.next, s, d, quantity))
  /\ UNCHANGED <<policy, held, marked, session, market, wire, history>>

\* The order the thread is sending: the last one created.
Sending == oms.next - 1

Submit ==
  /\ pc = "sending"
  /\ pc' = "idle"
  /\ LET r == oms.order[Sending]
     IN  venue' = Append(venue, [id |-> Sending, symbol |-> r.symbol, side |-> r.side,
                                 quantity |-> r.quantity, filled |-> 0,
                                 leaves |-> r.quantity])
  /\ wire' = Append(wire, [id |-> Sending, type |-> "Acked", quantity |-> 0,
                           symbol |-> oms.order[Sending].symbol,
                           side |-> oms.order[Sending].side])
  /\ sent' = sent \cup {Sending}
  /\ reused' = (reused \/ Sending \in sent)
  /\ UNCHANGED <<policy, journal, process, account, overlooked, lost>>

Booked(rep) ==
  IF rep.type # "Fill" THEN held
  ELSE [s \in DOMAIN held \cup 0 .. rep.symbol |->
          (IF s \in DOMAIN held THEN held[s] ELSE 0) +
          (IF s = rep.symbol THEN SignedFill(rep) ELSE 0)]

\* emit(): the report is written, then applied.
Deliver ==
  /\ pc = "idle"
  /\ wire # << >>
  /\ journal' = Write(journal, ExecReport(Head(wire)))
  /\ oms' = Apply(oms, Head(wire))
  /\ held' = Booked(Head(wire))
  /\ wire' = Tail(wire)
  /\ UNCHANGED <<pc, policy, marked, session, market, history>>

\* The same with the write failing: emit() halts and asks for a stop, so that all
\* that is left for the session is to end.
DeliverUnwritten ==
  /\ pc = "idle"
  /\ WritesMayFail /\ ~lost
  /\ wire # << >>
  /\ lost' = TRUE
  /\ pc' = "stopping"
  /\ journal' = FailedAppend(journal)
  /\ oms' = Apply(oms, Head(wire))
  /\ held' = Booked(Head(wire))
  /\ wire' = Tail(wire)
  /\ UNCHANGED <<policy, marked, session, market, sent, reused, overlooked>>

-----------------------------------------------------------------------------
(***************************************************************************)
(* The end of a session.                                                   *)
(***************************************************************************)

\* A checkpoint for every instrument with a position record, one after another.
CheckpointNext ==
  /\ pc \in {"idle", "stopping", "closing"}
  /\ marked \in DOMAIN held
  /\ pc' = "closing"
  /\ journal' = Write(journal, Checkpoint(marked, held[marked]))
  /\ marked' = marked + 1
  /\ UNCHANGED <<policy, oms, held, session, market, wire, history>>

\* Then the end of the session, a sync, and the file is closed.
End ==
  /\ pc \in {"idle", "stopping", "closing"}
  /\ marked \notin DOMAIN held
  /\ pc' = "down"
  /\ journal' = Synced(Write(journal, SessionEnd))
  /\ wire' = << >>
  /\ UNCHANGED <<policy, process, market, history>>

Up == pc \in {"opening", "idle", "sending", "stopping", "closing"}

Gone(file, disk) ==
  /\ pc' = "down"
  /\ wire' = << >>
  /\ journal' = [journal EXCEPT !.file = file, !.os = Len(file), !.disk = disk]
  /\ lost' = (lost \/ Len(file) < Len(journal.file))
  /\ UNCHANGED <<policy, process, market, sent, reused, overlooked>>

\* The process dies between two writes: what the stdio buffer held is lost, but for
\* what had already spilled from it.
ProcessCrash ==
  /\ Up
  /\ \E kept \in journal.os .. Len(journal.file) :
       Gone(SubSeq(journal.file, 1, kept), journal.disk)

\* Or in the middle of one: part of a record has reached the file.
TornWrite ==
  /\ Up /\ WritesMayTear
  /\ journal.os = Len(journal.file)
  /\ \E part \in 1 .. Units - 1 :
       Gone(journal.file \o SubSeq(UnitsOf([seq |-> journal.seq + 1, session |-> session,
                                            event |-> [type |-> "Torn"]]), 1, part),
            journal.disk)

\* The machine goes down: what the device does not have may be lost.
PowerLoss ==
  /\ Up /\ PowerMayFail
  /\ \E kept \in journal.disk .. Len(journal.file) :
       Gone(SubSeq(journal.file, 1, kept), kept)

-----------------------------------------------------------------------------
(***************************************************************************)
(* The venue.                                                              *)
(***************************************************************************)

\* Its reports reach the session that is up, if one is.
Reports(k, type, quantity) ==
  wire' = IF Up
          THEN Append(wire, [id |-> venue[k].id, type |-> type, quantity |-> quantity,
                             symbol |-> venue[k].symbol, side |-> venue[k].side])
          ELSE wire

VenueExecutes(k, n) ==
  /\ n <= venue[k].leaves
  /\ venue' = [venue EXCEPT ![k].leaves = @ - n, ![k].filled = @ + n]
  /\ account' = [account EXCEPT ![venue[k].symbol] =
                   IF venue[k].side = "Buy" THEN @ + n ELSE @ - n]
  /\ Reports(k, "Fill", n)
  /\ UNCHANGED <<pc, policy, journal, process, history>>

VenueCancels(k) ==
  /\ venue[k].leaves > 0
  /\ venue' = [venue EXCEPT ![k].leaves = 0]
  /\ Reports(k, "Cancelled", 0)
  /\ UNCHANGED <<pc, policy, journal, process, account, history>>

Next ==
  \/ \E asked \in BOOLEAN : Start(asked)
  \/ RecordSessionStart
  \/ \E s \in Symbol, d \in Sides, quantity \in 1 .. MaxQuantity : Decide(s, d, quantity)
  \/ Submit
  \/ Deliver
  \/ DeliverUnwritten
  \/ CheckpointNext
  \/ End
  \/ ProcessCrash
  \/ TornWrite
  \/ PowerLoss
  \/ \E k \in DOMAIN venue, n \in 1 .. MaxQuantity : VenueExecutes(k, n)
  \/ \E k \in DOMAIN venue : VenueCancels(k)

Spec == Init /\ [][Next]_vars

-----------------------------------------------------------------------------
(***************************************************************************)
(* Properties.                                                             *)
(***************************************************************************)

\* The parts of the journal are nested, and the process tracks only well-formed orders.
TypeOK ==
  /\ pc \in {"down", "refused", "opening", "idle", "sending", "stopping", "closing"}
  /\ journal.disk <= journal.os /\ journal.os <= Len(journal.file)
  /\ oms.order \in [Tracked(oms) -> OrderRecord]
  /\ \A k \in DOMAIN venue : venue[k].filled + venue[k].leaves <= venue[k].quantity
  /\ session \in 0 .. MaxSession

\* A session never trades beside an order it does not track: what the venue can
\* still execute is working here, with at least as much left.
NothingLiveIsUntracked ==
  Up /\ ~lost =>
    \A k \in DOMAIN venue : venue[k].leaves > 0 =>
      /\ venue[k].id \in Working(oms)
      /\ oms.order[venue[k].id].leaves >= venue[k].leaves

\* An id goes to the venue twice only if a session started over records that its
\* recovery had called corrupt, or records were lost.
ReuseFollowsDamage == reused => overlooked \/ lost

\* An id never goes to the venue twice (journal.hpp:223-226).
IdsAreFresh == ~reused

\* The records of the file, whole ones at any offset.
WholeRecords(file) ==
  {file[i].rec : i \in {k \in DOMAIN file :
     k + Units - 1 <= Len(file) /\ SubSeq(file, k, k + Units - 1) = UnitsOf(file[k].rec)}}

\* Recovery tells what is wrong with the file: a record it did not read it calls
\* corrupt, and a gap in the sequence numbers means a lost record, not a restart.
RecoveryIsHonest ==
  ~Up => LET r == Recover(journal.file)
         IN  /\ r.read < Cardinality(WholeRecords(journal.file)) => r.corrupt > 0
             /\ r.gaps > 0 => lost \/ r.corrupt > 0

\* The places of the file where a record ends.
RecordEnds(file) == {k \in DOMAIN file : file[k].part = Units}

\* What a crash can take under each sync policy.  OnWrite: nothing if only the process
\* dies.  Always: nothing at all.  Interval: what is in the stdio buffer if the process
\* dies, which is less than sync_interval records; and if the power fails, as many for
\* each session so far, because open() starts the count of unsynced records over without
\* a sync (journal.cpp:101, 207-215).
PoliciesBoundTheLoss ==
  \A k \in RecordEnds(journal.file) :
    /\ policy \in {"OnWrite", "Always"} => k <= journal.os
    /\ policy = "Always" => k <= journal.disk
    /\ policy = "Interval" =>
         /\ k - journal.os <= (SyncInterval - 1) * Units
         /\ k - journal.disk <= session * (SyncInterval - 1) * Units

\* A process crash takes no record, whenever it comes.
SurvivesProcessCrash == \A k \in RecordEnds(journal.file) : k <= journal.os

\* Power loss takes no more records than the interval, whenever it comes.
LosesAtMostTheInterval ==
  Cardinality({k \in RecordEnds(journal.file) : k > journal.disk}) <= SyncInterval

\* RUNBOOK.md:253 promises both of the interval policy: "Survives process crash: Yes",
\* "Survives power loss: Loses at most `journal_sync_interval` records".  The property asks
\* for either, so that a state which violates it contradicts both.
IntervalKeepsAPromise ==
  policy = "Interval" => SurvivesProcessCrash \/ LosesAtMostTheInterval
=============================================================================
