# A TLA+ model of the trading engine

This directory holds a formal model of the engine in `src/cpp`: TLA+ modules, the
configurations TLC checks them with, and proofs the TLA+ proof system (TLAPS) checks.
Every definition is translated from the C++ source; `PROJECT.json` names, for each
one, the lines it stands for.

    tlc -config Orders.cfg MCOrderManager      # one run; PROJECT.json lists them all
    tlapm OrderManagerProofs.tla               # the theorems of the order manager
    tlapm VenueSessionProofs.tla               # those of the live session
    tlapm TradingEngineProofs.tla              # those of the engine
    tlapm PipelineProofs.tla                   # those of the ring, the threads and the feed
    tlapm RestartProofs.tla                    # those of the restarts
    tlapm BookStructureProofs.tla              # those of the book's bitmap and index

`OmsProofs` and `Counting` hold the lemmas that the order manager, the session, the engine
and the restarts share.

## 1. The system

One process takes market data in and sends orders out, through six stages on one
consumer thread (`Engine::process`): feed health, book, signal, pre-trade risk, order
manager, venue. In threaded mode a producer thread reads the feed into a single-producer
single-consumer ring; a watcher thread turns SIGINT/SIGTERM into a stop request; a writer
thread empties the log ring. At start-up `main` replays the journal, compares what it
finds with the venue's snapshot, and decides whether the session may begin.

| Component | State it keeps | Operations | Talks to | What makes it correct |
|---|---|---|---|---|
| Order manager (`oms`) | pool of records, id index, ring of finished orders, `open_count_`, exposure per symbol and side, gross exposure, next id, counters | `create`, `adopt`, `set_next_id`, `apply`, `request_cancel`, `sweep_timeouts`, `clear` | called by the engine; its exposure is read by risk | exposure equals what working orders have left; finished orders stay finished; ids unique; a slot for every order under the cap; nothing unanswered for ever |
| Pre-trade risk (`risk`) | kill switch and reason, position book, gross position, order counts, throttle window | `check`, `on_fill`, `on_equity`, `engage_kill_switch`, `roll_day` | reads the order manager; called by the engine | position limits hold whatever is in flight; its position book is the venue's |
| Engine (`engine`) | the wire of held orders, stop flag, sweep counters | `process`, `release_pending`, `sweep_orders`, `flatten`, both loops | everything | nothing sent is lost or sent twice; recorded before it can exist; a stop ends the run, with nothing outstanding |
| Paper venue (`execution`) | position and cost per instrument, realized PnL | `submit`, `equity` | called by the engine | what is booked as earned and as cost is what was paid and received |
| Journal (`journal`) | file, sequence, unsynced count | `open`, `append` and one `record_*` per event, `sync`, `close`, `recover_from_journal` | written by the engine, read at start-up | what a sync policy promises survives; recovery says what it could not read |
| Reconciliation (`reconcile`) | two views of the open orders | `fetch`, `reconcile`, adoption in `main` | start-up | nothing live at the venue goes untracked |
| Feed monitor (`feed_health`) | last sequence, time of the last message, stale and faulted flags | `on_tick`, `check_stale`, `resynchronise` | first stage of `process` | no gap missed, nothing applied twice or late, silence noticed |
| Ring (`ring_buffer`) | head, tail, a cached copy of each, slots | `try_push`, `push_or_drop`, `try_pop` | producer and consumer threads; logger | a bounded FIFO |
| Logger (`log`) | ring, running flag, drop count | `emit`, `start`, `stop` | every thread | no record lost without being counted |
| Order book (`order_book`) | slab of nodes, a list per level, a bitmap per side, id index | `add_limit`, `execute_market`, `cancel`, `modify`, `clear`, queries | the paper venue and the second stage | price-time priority; the four structures agree |
| Strategy (`strategy`) | window, running sums | `on_price` | third stage | sums equal the window's |
| Start-up and shutdown (`main`) | recovered state, watcher flag | recovery, reconciliation, run, flatten, checkpoint | everything | does not trade on a state nobody has looked at |

The hard behaviours, each at its line under `hazards` in `PROJECT.json`, are of six kinds:
reports out of order, repeated or late against an incremental book of exposure; orders on
the wire between the decision and the fill, while the clock, the sweep, a halt or a stop
intervene; a failed write in the middle of a dispatch; crash and restart around the
journal; the ring, its two threads and the way a run ends; and an order book whose four
structures must be changed together in every operation.

## 2. Modules

```
 Ledger                  PriceTime                Channel
   ^ implements            ^ implements             ^ implements
 OrderManager --+        OrderBook                SpscRing    FeedMonitor
 VenueSession --+          |      |                 ^            ^
 PaperVenue ----+-> Oms    v      v                 +--Pipeline--+
   ^              |  ^  LevelBitmap IdIndex
 Risk             |  |                            Logger
   ^              |  |
 TradingEngine    |  |
        Restart -> Journal

 OrderManagerProofs  --+
 VenueSessionProofs  --+-> OmsProofs -> Counting    PipelineProofs
 TradingEngineProofs --+
 RestartProofs       --+               BookStructureProofs -> Counting
```

Operators whose comment begins with "Mutant" are deliberately wrong versions of a
definition that show each property can fail; nothing else uses them.

**`Oms`** is the order manager as data: its state is one record (`order`, `retired`, `open`,
`exposure`, `gross`, `next`, `breaks`) and each operation an operator from a state to a
state, so that several state machines can use it. `order` is the pool and the id index
together: a function from the ids the manager can find to their records. `retired` is the
history of finished orders with the oldest first. An order's age counts clock ticks since
it was sent and saturates at the timeout. The counters behind `breaks()` are a set of the
kinds counted so far, because a property asks only whether something was counted.
The clamps at zero of `add_exposure` are kept (`AtLeastZero`): the theorem below is what
shows they are never needed. What the code does in order inside one call stays
in order: an adopted id first moves `next`, a create at the cap returns before it takes an
id's slot, a terminal report releases exposure before the order is retired, and retiring
may evict.

**`OrderManager`** is the order manager alone: any sequence of calls, with any report of
any kind for any id, including ids never issued, and adoption at any time (`main` adopts
before it trades; the class does not require it). `StrictSnapshots` chooses whether the
snapshots adopted add up (`filled + leaves = quantity`) or are all those
`reconcile.cpp:289` lets through.

**`Ledger`** is the promise: orders open, lose quantity and close, and the exposure is
recomputed from the open orders. The refinement maps a working record to what it has left
and takes the *incremental* totals for the exposure, so it holds only if these are exact.

**`VenueSession`** puts the order manager against a venue that answers when it likes. No
live gateway exists in the repository: the venue and the two channels are external, built
from what `oms.cpp` says it must withstand. The venue accepts, rejects, executes in parts,
cancels on its own account or answers a cancel; any report on the wire may be delivered
before an earlier one (`overtaken` remembers that one was), and `MaxDuplicates` of them
twice.

**`Risk`** is the pre-trade gate as a record and operators: the checks in their order, the
projection of the position with what is in flight, the throttle's window, the kill switch.

**`PaperVenue`** is `apply_pnl()` as operators: the position, its cost at the average price,
the fee and what a fill realizes, with the cash that changed hands as history; and `equity()`.
`Risk` measures the drawdown with it. The code computes with doubles; the model's prices are
whole numbers no average or fee of which needs rounding.

**`TradingEngine`** composes `Oms`, `Risk` and `PaperVenue` with the engine's own loop, the
journal's failures and the shutdown in `main`. One consumer thread runs everything, so
`pc` says where it stands: `poll` (between messages), `land` (releasing held orders before
a message is acted on), `decide` (the strategy's turn), `idle` (the idle branch, releasing),
`drain` (after the loop), `ended`, `flatten`, `done`. A message, its usefulness, a signal, a
fill's size and price, the reference price, a failed append and a passing second are free
choices. `held` is the venue's position. `pending` is the wire; an entry's `wait` saturates at `VenueLatency`.

**`Journal`** holds the journal and its reader as operators. The file is a sequence of
*units*, `Units` to a record, so that a torn write leaves part of a record behind and
everything appended after it lies across the frames `recover_from_journal` reads; a frame
passes its checksum exactly if it is one whole record. A journal also knows how much of
the file the operating system has and how much the device. `recover_from_journal` replays
what it reads into an order manager with room for everything, of which only the orders are
read afterwards; so a recovered state keeps just those (`order`). `WithOrder` is a
`create_with_id` that is never short of a slot and `AfterReport` what `apply` makes of the
order a report is for; the theorem `ReplayFollowsTheOrderManager` says that they are in
step with `Oms`. `FramesRead` is the reader's loop, as a recursive function of the frames
read so far. The comparison with the venue (`reconcile.cpp`) is here too.

**`Restart`** makes sessions of it: `Start` is recovery, the refusal or the licence to go
on, the reopened file and the adoption, order by order, with the exit `main` takes when
one is not adopted; then `dispatch()` in two steps (the record is written,
the order leaves), `emit()`, a checkpoint for each instrument, one write after another, and
the end. A session may instead end by a crash
between two writes, the closing ones included, by one in the middle of a write, or by power
loss; each takes from the file what its cause can. The venue goes on executing and cancelling while no session is
up. Risk, the wire and timeouts are `TradingEngine`'s and are left out here: an order goes to
the venue directly after its record.

**`LevelBitmap`**, **`IdIndex`** and **`OrderBook`** are the order book as the code keeps it.
A bitmap word is the set of its one bits, with words of `WordBits` bits instead of 64; the
index has the code's probing, tombstones, load test and rehash, with any hash `Mix`, and its two
loops as recursive functions of their rounds; the
book is a record of the slab with its free list, the levels' heads, tails, counts and
totals, the bitmaps and the index, and each operation is an operator with the loops of
`match()` as recursions.

**`PriceTime`** is the promise: each side is one queue by priority, and what an incoming
order takes from each resting order is stated directly from the quantity ahead of it.
`ImplementsPriceTime` compares, in every reachable state and for every call, what the code
answers, which trades it reports and which queues it leaves.

**`SpscRing`** is `ring_buffer.hpp` with `try_push` and `try_pop` cut at every access to
what both threads touch. **`Channel`** is a bounded FIFO, which it implements.

**`FeedMonitor`** is `feed_health.cpp` as operators, with `require_sequence` on.
**`Pipeline`** composes ring and monitor into `run_threaded()`: the producer's loop, the
consumer's with its failed pop, its look at `producer_done`, its second look at the ring
and at the stop request, the idle branch's watchdog, the watcher's stop and the clock. The
feed may skip, repeat and reorder sequence numbers or send none. Of `process()` it keeps
what decides whether a message reaches the book and whether the engine may trade.

**`Logger`** is the log ring with the threads that really emit into it.

## 3. Runs

| Run | Shows |
|---|---|
| `orders` | Any sequence of calls on three ids, over two open orders and a history of one, so that eviction, refusal at the cap, and reuse of ids by `set_next_id` and `adopt` all happen. Both incremental exposure totals are exact, leaves agree with fills, finished orders never change; the open count, the ring and the pool agree, working orders are not forgotten, no id is issued twice; the order manager implements `Ledger`; under fair sweeping no order stays `PendingNew` for ever. |
| `session` | What can trade at the venue is covered here unless the order was given up; executions are booked or counted; at rest both sides agree or a break was counted; a repeated report is counted unless it is a fill that still fitted. |
| `engine_sync` | Inline, no latency, two instruments, one with a tighter limit: the position and gross limits hold, the gate's position book is the venue's, and over fills at any price, flips included, no gain is booked twice (`MoneyIsConserved`). |
| `engine_wire` | Threaded, latency and ack timeout equal, any append may fail: nothing on the wire is lost or sent twice; a fill of a given-up order is counted and has halted trading; an order the journal does not know of is out only with trading halted and a stop requested; nothing trades off a faulted feed; a requested stop ends the process, with nothing outstanding. |
| `restart` | Under each of the three sync policies, up to three sessions, each ended cleanly, by a crash between or within writes, or by power loss, and one append failing: what the venue can still execute is tracked by the session that is up; an id is reused only after damage that recovery reported; recovery never passes over a record in silence; what a crash can take is bounded as each policy's code bounds it, which for `interval` is not what `RUNBOOK.md` says (section 4). |
| `book` | Every sequence of calls on a book of five levels leaves lists, slab, bitmap and index telling one story, and every call does what price-time priority says. |
| `pipeline` | Every interleaving of producer, consumer, stop and clock: the ring is a channel, no message is left behind, what the monitor reports missing is exactly what never reached the book, trading happens only on a book without intolerable gaps, the run ends, silence halts. |
| `engine_netting`, `engine_expired`, `restart_torn`, `restart_interval`, `log_two_writers` | Expected to be violated: section 4. |

**Bounds.** All bounds are named constants of the modules; the rest are the program's own
settings at small values.

- *Order manager.* Two orders open at once let one order's delta be charged to another; two
  lots an order give partial fills; three ids with a pool of three give eviction, refusal
  and reuse. The tracked orders have three lots between them (`MaxLots`), so that an order of two stands beside
  one of one, and three of one beside each other. Of the kinds of break at most two are counted in one behaviour
  (`MaxBreaks`): nothing reads the counters, so the bound leaves out only which of them are seen together.
  One tick tells "sent now" from "overdue". One symbol with two sides: the
  theorems of section 5 hold for any.
- *Session.* Two orders, three reports under way, so that an ack, a fill and a cancel can
  all overtake one another.
- *Engine.* The wire uses a latency of two, where an order can be neither just sent nor due.
  Two orders there, three without latency, fill the wire, the cap and the throttle. Two
  orders average two prices, and one of two lots flips a position of one; prices that are
  multiples of 12 leave averages over up to three lots, and fees of a quarter, whole. To average
  two fills and then flip the result takes a larger order than the run has: there `MoneyIsKept`
  (section 5) is what covers `apply_pnl()`. The
  drawdown halt is reached in both runs, by losses in one and by fees in the other.
- *Restart.* Two units to a record is the least that can tear. Three sessions are the least in which
  one tears the file, the next appends to it and the third reads the result. Two orders, as
  many as the cap, so that no adoption is refused; `SyncInterval` 2 leaves a record unsynced, and three sessions
  of one unsynced record each are more than the interval.
  Orders are of one lot, so the run (1.8 million states) has no partial fills; the
  theorems of section 5 have them.
- *Book.* Words of two bits give the five levels three tiers of bitmap, with the last word not
  full. Five ids in a table of four slots, two of which share a home, make collisions,
  tombstones and growth happen; two resting orders are enough to queue at a level, to
  rest on two levels, and to be swept together. The band's minimum is off the tick grid;
  of the prices asked for, two are the lowest and the highest level, one is between ticks and one above the
  band. Ids alternate between one owner and nobody, so that self-match prevention applies to some. With
  two resting orders no order is taken from the *middle* of a level's list: three take TLC past any
  reasonable time, so of `unlink()` the run covers head, tail and only node. The bitmap of any
  size and the index are covered by the theorems of section 5.
- *Pipeline.* Three messages through a ring of two wrap it and fill it. Four sequence numbers give
  a tolerated gap, an intolerable one, duplicates and reordering.

**Fairness.** `orders`: the sweep and the clock. The loop sweeps every
`kSweepCheckTicks` messages when busy and on each idle pass, so an overdue order is
swept as long as the thread runs. `engine_wire`: the consumer thread keeps running its own
code, and once a stop was requested it leaves the loop if it can again and again. The second
assumption stands for what the module does not have, the producer: that thread ends
once it sees the stop, and then the consumer's failed pops lead out, which `RunEnds` of
`pipeline` shows with both threads in the model. `pipeline`: both threads run and time
passes; `feed.next()` is not assumed to return, and `RunEnds` says so in its premise.

Deadlock is checked in every run but `restart`, where sessions are bounded and the machine
really stops after the last, and `log_two_writers`, which ends when the logger has stopped.
Elsewhere the actions are the caller's, a call that returns early is a step that changes
nothing, and a finished run has a stuttering action (`Done`, `Ended`).

## 4. Where code and documents disagree

Each of these is a run that TLC must find violated; `findings` in `PROJECT.json` quotes the
line.

| Run | What happens |
|---|---|
| `engine_netting` | A sell in flight makes room for another buy; when only the buys fill, the position limit is passed. |
| `engine_expired` | The sweep expires an order still on the engine's own wire; it is dispatched all the same and its fill is not booked. |
| `restart_torn` | `open()` appends to a torn file without cutting it; the next recovery stops at the tear, and ids the venue was given are issued again. |
| `restart_interval` | Under `interval`, records wait in the stdio buffer until the next sync, so a crash of the process takes them; and `open()` starts the count of unsynced records over without a sync, so that sessions which are killed before they sync add up to more than `journal_sync_interval`. One state contradicts both cells of `RUNBOOK.md:253`. |
| `log_two_writers` | The engine's thread and the signal watcher emit into a single-producer ring; a record is lost and the drop count does not say so. |

The others met while modelling are not runs; a property above is stated so as to leave each out,
or says what does hold.

*Orders and risk.*

- An adopted snapshot whose `filled + leaves` is below its quantity is accepted
  (`reconcile.cpp:289`); its next fill computes `leaves` from the quantity (`oms.cpp:404`),
  so that they grow and the exposure does not follow. `StrictSnapshots` excludes it, and
  `ExposureExact` fails without.
- A partial fill delivered twice is booked twice, if the order has that much left, and no
  counter moves (`oms.cpp:372`, against `oms.hpp:27-29`). `SilentDuplicateIsAFill` says that
  this is the only report whose repetition passes in silence; the other properties of the
  session speak of sessions without one.
- A cancel that loses the race to the last fill leaves both views equal and `breaks()`
  non-zero (`oms.cpp:433`, against `oms.hpp:136-137`), and so does an ack that a fill
  overtook. The properties use `breaks` in one direction only: disagreement implies a count. They ask for the
  count of invalid reports (`Misfit`), since `breaks()` leaves the late ones out (`oms.hpp:138-140`).
- `PendingCancel` is not swept (`oms.cpp:477`): if the venue never answers a cancel, the order
  keeps its exposure. `UnansweredIsResolved` speaks of `PendingNew`.
- `risk_enabled = false` also disables the kill switch (`risk.cpp:70` returns before
  line 77), so a faulted feed stops nothing. `NoOrderOnFaultedFeed` is checked with limits
  enabled.
- The halt for the daily order limit is engaged inside `check()` (`risk.cpp:138-141`) and
  never journalled, unlike every other (`RUNBOOK.md:164`).
- The engine marks equity with `venue_.equity(p.order.symbol, p.reference)`
  (`engine.cpp:156`): what all instruments realized, and what one of them has gained unrealized,
  against "Equity is realized + unrealized PnL" (`risk.hpp:137`); the report adds the
  instruments up (`main.cpp:609`). With two instruments the peak may be one's and the trough the
  other's, so the drawdown halt can come without the loss or stay away in spite of it. The
  model computes what the code does, and no property relies on the halt.
- The throttle counts in fixed windows of a second (`risk.cpp:143`), so twice the limit can
  pass across a boundary.
- A failed write of `OrderSent` does not stop the submission it should precede
  (`engine.cpp:98`, against the comment above it). `UnjournaledStopsTheRun` says what is true:
  it is the last thing the run does.

*Journal and restart.*

- The checkpoint writes the positions of this session's fills (`main.cpp:513-517`), and
  recovery takes it for the position since the beginning (`journal.cpp:432-440`, against
  `journal.hpp:209`). A session that starts from a position and ends cleanly leaves the
  next one with a position that is not the venue's; the start is then refused if recovery
  needs attention, and else goes unnoticed.
- Sequence gaps are found and printed but do not make recovery need attention
  (`main.cpp:330`). A recovered halt is printed and not restored.
- An order the journal has open and the venue does not is never closed in the journal: with
  it every later start needs `--allow-unclean-start`.

*Feed and threads.*

- Staleness is measured from the time the producer stamped on the message
  (`feed_health.cpp:81`): a consumer that was busy for longer than the threshold finds a live
  feed stale at its next idle pass (`engine.cpp:533`).
- A feed that restarts its numbering, or one message with a bogus large number, makes
  every later message `Reordered` (`feed_health.cpp:57-61`): all are dropped, and the
  watchdog is satisfied because messages arrive.
- A feed that never sends is never stale: the watchdog waits for the first message.
- A stop request does not reach a producer blocked in `feed.next()`; the run then does not end.
- The drop count of the log is read before `log.stop()` drains the ring (`main.cpp:654-658`),
  and the early returns of `main` never report it.

## 5. Proofs

Every theorem is about a specification a run checks, for every value of its constants:
TLC shows the property on the small instance, the theorem for any number of symbols,
orders, lots, messages and steps. The order manager's constants are typed by
`OmsConstants` and its symbols are finite; the other modules name their assumptions
likewise. A theorem that needs more says so in its statement and below.

| Module | Theorem | Property |
|---|---|---|
| `OrderManagerProofs` | `AlwaysSound` | the inductive invariant `IInv` |
| | `TypeCorrect` | `TypeOK` |
| | `ExposureIsExact` | `ExposureExact` and `GrossExact` |
| | `LeavesAreExact` | `LeavesExact` |
| | `BooksAlwaysBalance` | `BooksBalance`, and `RoomForEveryOpenOrder`: under the cap there is a free slot |
| | `FinishedStayFinished` | `TerminalIsFinal` |
| | `IdsAreNeverIssuedTwice` | `IssuedIdsAreUnique` |
| | `WorkingOrdersAreRemembered` | `WorkingIsNeverForgotten` |
| | `OrderManagerImplementsLedger` | `ImplementsLedger` |
| `VenueSessionProofs` | `SessionInvariant` | the inductive invariant `SessionInv` |
| | `SessionTypeCorrect` | `TypeOK` |
| | `CoverHolds` | `LiveAtVenueIsCovered` |
| | `BookedHolds` | `ExecutionsAreBooked` |
| | `AgreementHolds` | `AgreeOrCounted` |
| | `TraceInvariant` | the inductive invariant `TraceInv` |
| | `RepeatsAreCountedOrFills` | `SilentDuplicateIsAFill` |
| `TradingEngineProofs` | `EngineInvariant` | the inductive invariant `EngineInv` |
| | `EngineTypeCorrect` | `TypeOK` |
| | `GateAlwaysKnows` | `GateKnowsThePosition` |
| | `WireIsAlwaysComplete` | `WireIsComplete` |
| | `NothingIsOutstanding` | `NothingOutstanding` |
| | `UnjournaledAlwaysStops` | `UnjournaledStopsTheRun` |
| | `FaultStopsOrders` | `NoOrderOnFaultedFeed` |
| | `LimitsHold` | `PositionWithinLimit` |
| | `DifferenceIsAlwaysExplained` | `DifferenceIsExplained` |
| | `MoneyIsKept` | `MoneyIsConserved` |
| `PipelineProofs` | `RingIsSound`, `RingImplementsChannel` | `RingInv`; `ImplementsChannel` of `RingSpec` |
| | `PipelineIsSound`, `PipelineImplementsChannel` | `PipelineInv`; `ImplementsChannel` of the composition |
| | `PipelineLeavesNothing` | `NothingIsLeftBehind` |
| | `SessionIsSound` | the inductive invariant `SessionInv` |
| | `PipelineTypeCorrect` | `TypeOK` |
| | `MissingIsAlwaysExact` | `MissingIsExact` |
| | `BookIsWholeWhileTrading` | `TradesOnAWholeBook` |
| `RestartProofs` | `RestartTypeCorrect` | `TypeOK` |
| | `EveryPolicyBoundsTheLoss` | `PoliciesBoundTheLoss` |
| | `RecoveryTellsWhatIsWrong` | `RecoveryIsHonest` |
| | `IdsAreReusedOnlyAfterDamage` | `ReuseFollowsDamage` |
| | `NothingLiveGoesUntracked` | `NothingLiveIsUntracked` |
| | `ReplayFollowsTheOrderManager` | the replay of recovery reads as `Oms` does |
| `BookStructureProofs` | `BestLevelIsFound`, `NextAboveIsFound`, `NextBelowIsFound` | the bitmap's scans give the extreme and the neighbouring marked levels |
| | `SetBitMarks`, `ClearBitUnmarks` | its updates keep the tiers in step and change one level |
| | `LookupIsTheMapping` | the index answers as the function from ids to slots it stands for |
| | `EraseRemovesOne`, `InsertAddsOne`, `GrowingLosesNothing` | its updates keep it sound and change one entry, or none |

**What is assumed.** The theorems of `OrderManagerProofs` assume `StrictSnapshots`, which is
needed: without it the step of `adopt` cannot be proved, and the first item of section 4
is a counterexample. `FaultStopsOrders` and `LimitsHold` assume `RiskEnabled`: with
`risk_enabled = false` the gate returns before it looks at anything (section 4). `LimitsHold`
also assumes `VenueLatency = 0`, the setting in which each order is filled before the next
one is checked; with orders in flight the limit does not hold, as `engine_netting` shows.
`NothingLiveGoesUntracked` assumes `~AllowUnclean`: with `--allow-unclean-start` the operator
may wave a start through that leaves orders behind, and that is what the option is for.
`DifferenceIsAlwaysExplained` assumes `HaltOnTimeout`, since the halt is part of what it
says, and speaks of states with no more orders than the history remembers (`FewOrders`): an
evicted record takes its fills with it, and what the remaining ones add up to is no position.
`MoneyIsKept` assumes of the run that no average price is rounded (`NothingIsRounded`): the
model divides whole numbers where the code divides doubles. The states of `engine_sync`
satisfy that, as its prices are multiples of twelve.
Nothing else is assumed.

**The order manager.** `ExposureExact` is not inductive. A step of `apply` subtracts what an
order had left, so `leaves` must agree with the fills (`Settled`); a clamp at zero would
lose the difference, so the total must be known to be at least that order's part, which
follows from exactness itself over *all* working orders; and an order evicted or
overwritten would take its part with it, so the ring must hold exactly the finished
orders, each once, and there must be a free slot at every create under the cap
(`Books`, `Flagged`). The inductive invariant `IInv` of `OmsProofs` is the conjunction
`Typed`, `Exact`, `Books`, `Flagged` and `Settled`. The chain `Init => IInv`,
`IInv /\ [Next]_oms => IInv'` has one lemma per operation of `Oms` (`CreateKeeps`,
`AdoptKeeps`, `ApplyKeeps`, `SweepKeeps`, ...), proved without reference to any state
machine, so that the session and the engine use the same lemmas.

Exposure is a *sum* over working orders, which would be a recursive definition. The proofs
avoid recursion by counting: `Lots` is the set of pairs of a working order and one of its
unit lots, and the exposure of a side is the cardinality of its lots. Taking up or giving
up quantity is adding or removing a block of pairs, which is a statement about
cardinalities of disjoint finite sets. `Counting` proves those facts for any such pile, and the ones
about sequences without repetition that the ring of finished orders needs. The sweep retires a set
of orders one by one in the order in which it walks the index; `Retire` takes that walk as a
sequence and gives the state after all of it, so that one lemma, `RetireKeeps`, covers the
single order of a report and the whole sweep, without induction.

*Refinement.* `Ledger` recomputes its totals from the open orders, and `IInv` says that the
incremental totals are the recomputed ones; what remains is that each call moves the open
orders as one ledger step: a create opens one, a fill takes lots off one, a terminal report
or a sweep closes some, and every refused call is a stutter. *Remembering:* an eviction takes
the head of the ring of finished orders, and `Books` says those are not working.

**The session.** Two books and a wire that reorders and repeats. `SessionInv` accounts for every executed
lot: it is booked, or a fill of it is on the wire (`InFlight`, counted as a pile of lots so that one
report more or less changes the count by its quantity; the lemmas are in `Counting`), or a report of it was counted as not
fitting; of an order that still works the last cannot be (`LotsAccounted`). That is what makes
`LiveIsWorking` inductive: an order leaves the working set by a fill only when all of it is
booked, and then all of it was executed there, so it is not live there. The other direction, `DeadIsReported`,
says that the report which ends an order dead at the venue is on the wire; it survives
delivery because a cancel is refused only by an order that was not yet acknowledged, which means
(`AnswersFirst`) that the cancel overtook the acknowledgement. The invariant also says
what makes a venue's reports sensible (`ReportsSound`); the venue's five actions are instances of one
operator, `Answers`, and the engine's sweep, tick and cancel of another, `Recalls`. `CoverHolds` needs
no order of delivery: it holds however reports overtake one another.

A report that came twice cannot be told from the first, so `TraceInv` says what it leaves behind while
nothing has been counted. A fill is booked twice, and more is booked or under way than was
executed (`Overstated`). An acknowledgement, a rejection or a cancel stays on the wire for an order that has
had it, and can only be counted (`Doomed`). The refusal of a cancel leaves one refusal too many for
an order that is dead at the venue (`OneTooMany`): the order may be asked to cancel again, and then takes the old
refusal for the new one, but the request it made comes back as another. Each trace stands until a report
of it is counted, and only the first can stand with nothing on the wire: that is `SilentDuplicateIsAFill`. Of
what the venue executed nothing may be missing meanwhile, which is the other half of the invariant.

**The engine.** `EngineInv` adds to `IInv` how the engine's other records follow the order manager.
`WireSound`: what works is on the wire, once, and not given up; ids are of the past, so that no
order is sent twice. `GateSound`: the gate's positions are the venue's and its gross total is their
sum, again as a pile. `JournalSound` and `HaltSound`: a missing record, or a faulted feed, has
halted trading. None of the properties is inductive alone: `NothingOutstanding`, for instance,
follows only because a flatten finds the wire empty, which `WireSound` carries through the
`drain`. `LimitsHold` is an argument about one message: without latency nothing is in
flight when an order is checked, so the projection the gate computes is the position that
the fill will make, and a fill of part of it lies between two positions within the limit.

`BookSound` is inductive relative to `EngineInv`, for `DifferenceIsExplained`: an order on the wire has
the symbol and the side it was booked with (`TermsMatch`), so what its answer adds to the records and to
the position is the same number of lots of the same sign; an order that was given up while on
the wire is no longer live, so its acknowledgement is refused and counted, its fill adds to the
position alone, and giving it up has halted trading. What the records add up to is again a
pile (`FilledLots`), and the lemma `AnsweredTallies` says by how much `dispatch()` moves it, through
up to three reports. A sweep gives up only orders still on the wire, which `WireSound` knows were not
submitted: that is why the difference cannot appear before the answer does.

*Money.* `apply_pnl()` has four ways to change a position. `GainCoversCost` goes through them: what is
earned less what is added to the cost is what came in, because the part that is closed has the sign
opposite to the fill, and after a flip the rest is carried at the price of the fill. It needs that the cost
has the sign of the position (`SignsAgree`), which is proved of every run, rounded or not. That a
fill changes one summand of `Outlay` is the lemma `OutlayMoves`, once for the long and once for the
short side.

**The ring.** Each side acts on a copy of the other's index, which may be old.
`CopiesLagBehind` says in which direction it is old, so that acting on it is safe;
`SlotsHoldTheQueue` says that the slots between the indices hold what was pushed and not
popped, and what a push or a pop in progress relies on. The only arithmetic is that two
positions less than a capacity apart have different slots (`DifferentSlots`). With the
invariant, `Publish` is the channel's `Enter`, `Release` its `Leave`, and every other step
a stutter.

**The threads and the feed.** A step of `Pipeline` is a step of the ring or leaves it alone
(`PipelineStepIsRingStep`), so the ring's invariant and its refinement carry over.
`PipelineInv` adds that the threads are inside a push or pop exactly when their loops say
so (`CallsMatch`), that every message the feed gave is in the ring's history or in the
producer's hand (`Accounted`), and that `producer_done` is set only when nothing is left
in it (`DoneMeansPublished`). The consumer's second look at the ring then sees all there
will ever be. `SessionInv` follows the messages on to the monitor: what the consumer
processes is what the feed gave (`InOrder`), the book's numbers only grow, and the monitor's
last number and its count of what is missing are those of the book (`Follows`). A number
accepted after a gap adds the gap's width to the count, and the set of numbers not in the
book grows by just those (`Skipping`).

**The restarts.** Recovery is a recursion over the file, so the first thing proved is what a
step does to its result. A file only ever grows at its end, by a whole record or by the part
of one that a torn write leaves, or is cut. As long as recovery calls nothing corrupt, a file
longer by a record is read as before with that one record replayed last, and a file longer by
part of one is read as before; a file that was torn is called corrupt as soon as a record
follows the tear. No theorem of the library could be used for the inductions over the frames, since
an operator would have to be its argument. They go through a set instead: the frames up to
which a statement fails have a least element (`Least` and `UpTo` of `Counting`, from the
well-foundedness of `<`), and at that one the recursion's own equation gives the contradiction.

Five invariants follow. `Shape` says what the journal, the order manager and the venue's book
look like; it includes `IInv`, for which the lemmas of `OmsProofs` are used once more, now with
adoption in a loop. `SyncInv` splits `PoliciesBoundTheLoss` by sessions: the present one is
behind by at most its own count of unsynced records, which is also all that its stdio buffer can
hold, each earlier one by the interval less one. `Numbered` says that a file recovery finds intact carries the numbers 1, 2, 3, ...;
`open()` goes on from the number of records read, which is the last number just if none
was passed over. `FreshIds` holds of what is on record, what is tracked and what was sent:
all ids are below the next one. None of the three could do without the file:
a session knows only what its start has read.

`TrackedInv` is the long one. `NothingLiveIsUntracked` is not inductive, because reports
are on their way: an order has at least as much left here as there only because what is
booked here and the fills on the wire together are no more than the venue has executed
(`Covers`, with the fills counted lot by lot as in the session), and it is not closed here by a
cancel because none is on the wire for an order that is live there (`OneEach`). Nor is that
enough across a crash, which takes the wire and the order manager away. So the invariant says it
twice, of the session's order manager (`CoveredHere`) and of what recovery would now read
from the file (`CoveredInFile`); the reports that crashes have dropped leave the file behind the
venue on the safe side, with more left than there is. A start that needs attention is let
go ahead only if the venue agrees with what was read; then the list handed on for adoption is all
that the venue rests, because no order of it is an orphan, and the process exits where one is not
adopted. A start that needs none has read no working order, and then nothing can rest at the
venue. The step of `dispatch()` is where the order of the two calls matters: the record goes
first, so that no order is at the venue and not in the file, and `~lost` is the hypothesis
that it really got there.

**The book's structures.** These theorems are about operators, not about a specification: they
hold of every bitmap and every index that is sound, and say that each operation leaves a sound one.
A bitmap stands for the set of its marked levels. Its tiers are one thing three times: numbers held
in words (`Held`), each tier holding the numbers of the words in use below it (`Layered`). The
greatest of a tier stands at the greatest position of its greatest word in use
(`ExtremesOfTier`), which used twice gives `find_highest()`; a bit more in a tier puts its word in
use and a bit less takes it out of use with its last bit (`TierWith`, `TierWithout`), which used
twice gives `set()` and `clear()`. All that is arithmetic is that a number is at one place
(`Placed`, `PlaceOf`).

An index stands for a function from ids to slots (`Mapping`). It is sound when every key is there
once, no empty slot lies between a key's home and the key, the two counters are exact and an
empty slot remains. The probe visits every slot once (`Rotation`), so it ends, and ends at the id
if the index holds it. Erasing to a tombstone keeps the chains that run over the slot;
that an empty slot remains is what the load test is for, and it needs the count of tombstones to be
exact too. Growth is an induction over the slots of the old table (`MovesOneMore`), through
the least slot at which it could fail, as for the restarts; the rounds of the doubling loop are
shown to be enough in the same way. `InsertAddsOne` assumes that the id is not held, which
`add_limit()` tests before it matches anything.

**Only model-checked.**

- *Liveness* (`UnansweredIsResolved`, `StopEndsTheRun`, `RunEnds`, `SilenceHalts`): fairness and ENABLED are
  outside the prover's reach.
- `OrderBook`: its matching loops and the walk along a level's list are RECURSIVE operators, so
  `TypeOK`, `StructureIsSound`, `DepthIsTheBook` and `ImplementsPriceTime` are TLC's. Of the four
  structures they are about, the bitmap and the index are proved, each by itself.
- `Logger`: its run shows a violation.

## 6. Not modelled

- *Values:* the rounding of the paper venue's doubles and its flat slippage without a book,
  the strategy's sums, the histogram: floating point or measurement. Reference-price bands of the gate.
- *Input and output:* configuration parsing, the text of the snapshot file, metrics, log
  formatting, the report, option parsing, the feed sources. The constants of the modules
  stand for the configuration, free choices for the feed.
- *Journal:* the header and its refusals, `Halt` and `Resume` records, fees.
- *No caller in the program:* `release_kill_switch`, `roll_day`, `resynchronise`,
  `FeedMonitor::reset`.
- *The order manager's own id index* is a function here; `IdIndex` has the same scheme as the
  order book implements it.
- *Outside the engine:* the Python prototype in `src/hft`, benchmarks, dashboards, notebooks.

Quantities and sequence numbers are unbounded integers: the code's are 64 bits wide and its
limits keep them far from that.

## 7. Plan

1. *Proofs about the book:* the slab and the levels' lists, with the matching loops as recursive
   functions of their rounds, which would carry the theorems about bitmap and index to the book.
2. *Model:* halt records and the restoring of a halt, the strategy's running sums.
