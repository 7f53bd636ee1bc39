# Verification of delta-trader in TLA+

delta-trader watches crypto options on Delta Exchange.  A FastAPI process (the
*backend*, one event loop) keeps a market feed, a paper-trading book and a live
section that can close real positions; a browser shows them.  This directory
holds TLA+ models of the parts where money, concurrency and failure meet, the TLC
configurations that check them, and TLAPS proofs of what matters most.

Contents: the [inventory](#inventory), the [modules](#modules-and-the-code), the
[runs](#runs-and-bounds), [fairness](#fairness), the [proofs](#proofs),
[divergences](#divergences) between documents and code, [what is not
modelled](#not-modelled), and the [plan](#plan).  Paths are relative to the
repository; `live/` stands for `backend/app/services/live/`, `paper/` for
`backend/app/services/paper/`; names of `.tsx`, `.ts` files are unique below
`frontend/src/`.

To run: `tlc -workers 2 -config sl_safety.cfg MCStopLoss.tla`, and `tlapm
StopLossProofs.tla`.

## Inventory

| Component | State | Operations | Interacts with | Hard part | Correct when |
|---|---|---|---|---|---|
| Stop-loss monitor, closer, requests (`live/sl_monitor.py`, `closer.py`, `mtm.py`, `api/live.py`) | Redis hash `live:sl:<id>` (state, thresholds, `breach_count`, `attempts`), set `live:sl:index`; the task's local variables | arm, disarm, tick (resume, evaluate, debounce), close in parallel, retry | reads the account copies, sends orders to the exchange, writes events to Postgres | several awaits between the read of a hash and the orders; restarts; lost answers | a real position only shrinks, only with permission and consent, only after the debounce; an armed stop is never forgotten, a close ends |
| Position sync (`live/position_sync.py`) | hashes `live:position:<symbol>` with a TTL, set `live:positions` | a round every ten seconds: fetch, write each row, index | exchange → Redis → stop-loss | rows are up to a round old; a failed round lets them expire | (input of the stop-loss) |
| Order sync (`live/order_sync.py`) | hash of open orders | poll | exchange → Redis → hub | — | nothing decides from it |
| Gate and bucket (`live/auth_gate.py`, `services/delta_rest.py`) | tokens, last refill, a lock; settings | `require_auth`, `acquire`, HTTP attempts with retries | every private call | a waiter sleeps holding the lock; an attempt whose answer is lost | no order without keys and the live switch; no stretch of time lets more calls through than the limit |
| Strategy grouping (`live/strategy_grouper.py`, `StrategyGrouper.tsx`) | tables `live_strategies`, tags; the form | create, list | stop-loss | a request whose answer is lost, a form mounted anew | a symbol is in one strategy |
| Paper engine (`paper/engine.py`, `executor.py`, `closer.py`, `api/paper.py`) | Postgres: position, legs, fills, events | preview, execute, close (full, partial) | order books, database | concurrent closes; a plan made before the transaction that applies it | every lot is open or closed once, the status is true, the realized PnL is the sum of its slices |
| Paper MTM worker (`paper/mtm_worker.py`) | copy of positions and legs, minute accumulators | reload, tick, publish, accumulate, flush, evict | paper book → Redis, `paper_mtm_minute` | a reload in several reads; a flush that fails before or after its commit | no lot counted twice in what is published; no sample of a minute lost to a failure |
| Minute bars (`workers/minute_buffer.py`, `minute_aggregator.py`) | bars by (symbol, minute) | add a tick, drain, write, put back | feed → Postgres | failed writes, late ticks | a bar is that of all the ticks of its minute, and reaches the table |
| Feed (`main.py`, `services/delta_ws.py`, `workers/tick_normalizer.py`, `spot_indexer.py`) | socket, `_subs`, the two handler tasks, `latest:*` with a TTL | start, connect, resubscribe, read, publish, handle, back off | exchange → Redis | every way a connection can end; tasks that end | what was subscribed arrives again |
| Hub (`api/stream.py`) and browser client (`lib/ws.ts`, `store/*.ts`, `hooks/use*.ts`) | per-connection subscriptions; `desiredSubs`, reference counts, the frame queue, snapshots | subscribe, unsubscribe, replay, push, flush per animation frame, sample per second | Redis → browser | mounts and unmounts crossing a reconnect; shared topics | shown topics are subscribed, and shown data is current again and again |
| Paper page (`StrategyPreviewModal.tsx`, `ClosePositionDialog.tsx`, `usePaperPositions.ts`) | phase of the modal and the dialog, requests under way, the list | preview, execute, close, poll, invalidate | paper engine | answers in any order, lost answers, overlapping previews, the page left and entered again | one position for a draft, the one that was shown; no closed position comes back |
| Strategy builder (`StrategyBuilder.tsx`, `lib/strategy-math.ts`) | legs, chosen expiry, chains | edit legs, footer, spec | preview | legs of several expiries; grid arithmetic | extremes bound the payoff, break-evens are its zeros, a spec is what was built |
| Live page (`LiveMonitorPage.tsx`, `LiveStrategyDetail.tsx`, `StopLossDialog.tsx`) | selection, dialog form, requests | select, arm, disarm, refetch | `api/live.py` | an answer to an earlier dialog, a list fetched under an open one | an arm request carries the consent for its own strategy |
| Charts (`SpotChart.tsx`, `IndicatorPanel.tsx`, `PnlChart`, `lib/indicators/*`) | bars, overlays, configuration, curves | seed, tick, configure, redraw | history over REST, ticks over the socket | history after ticks, clocks that differ, warm-up of indicators | bars and curves in order, overlays as configured, indicators aligned, in range and unchanged by appended bars |
| Page frame (`Section1Paper.tsx`, `useKeyboardShortcuts.ts`) | tab, pending chord, chosen expiry | keys, clicks | all pages | a chord interrupted | the page is left only on purpose |
| Startup (`main.py`, `services/bootstrap.py`) | tasks, product table | start, stop, degraded start | everything | a start without the exchange | (input of the feed and of every restart) |
| Pricing (`services/quant/*.py`, `paper/margin.py`) | — | walk of the book, impact, fees, greeks, margin | paper engine | boundaries | the best prices there are, refused only when the book is too small |
| Read-only API, migrations, markup | — | — | — | — | not modelled |

`PROJECT.json` lists the hazards at their lines, with the properties that would
catch each; a hazard without a property says why.

## Modules and the code

### The live section

`LiveAccount` — the exchange account, the ticker marks and the sync task.
`position` is what the exchange holds, `snap` the hash `live:position:<symbol>`
that the rest of the program reads instead, `latest` the mark in
`latest:<symbol>`.  `SyncFetch`, `SyncWrite`, `SyncDone` and `SyncFails` are the
steps of `PositionSync.sync_once` and of the handler in `run`; `Expire` is the TTL,
which may end only for a symbol the last round did not refresh (`missed`).
`Trade` and `PriceMoves` are the environment.

`StopLoss` extends it with the two requests of `api/live.py` (`Arm` … `ArmDone`,
`Disarm` … `DisarmDone`), the monitor (`TickStart` … `CountBreach`), `_do_close`
(`MarkClosing` … `RecordEvent`) and the closer inside it (`LoadLeg`, `Attempt`,
`RateLimited`, `PlaceDone`).  The program runs on one event loop, so an action is
what happens between two awaits, and everything a task holds across an await is
in `mon` (the monitor's locals) or `req`, which has the step of each of the `Calls` the API
is serving.  Neither the API nor `sl_monitor.py` takes a lock, so requests of one strategy
overlap in any order.  Redis (`hash`, `index`) survives
`Restart`; `mon`, `req` and the sync task do not, and the settings may change.

* A close of several legs is concurrent (`asyncio.gather`), so `Attempt` of
  different legs interleave; the attempts of a leg are at most twice
  `HttpAttempts`, because the retry of the closer encloses the retry of the HTTP
  client.
* An attempt may be executed by the exchange and still raise (a lost answer).
  `Executed` is the external part: a reduce-only, immediate-or-cancel order fills
  toward zero, possibly in part (`PartialFills`).
* `reply`, `last`, `streak` and `asked` are observers: whether the request that took effect
  last on a strategy was confirmed (`last` says which one it is: an arm takes effect with
  its HSET, a disarm with its DELETE, and the answer of a request that another one overtook
  says nothing of the strategy any more), the consecutive breaching evaluations, and what
  was last asked for.
* `_request` looks at the settings before each attempt as well (`services/delta_rest.py:99-102`).
  They are read when the process starts, so within a close they are what the gate saw, and
  `Attempt` does not look again.

`Exposure` is the abstract specification: positions, somebody else's trades, a
permission and the strategies somebody consented to.  `StopLoss!ExposureHeld` is
its `Spec` under the refinement `permitted <- OrdersPermitted`, `consent <-` the
strategies armed so far.

`StopLossLiveness` adds fairness and the liveness properties; `StopLossDocs` the
properties taken from documents that the code does not have; `StopLossProofs` the
proofs; `MCStopLoss` the values of the constants.

### The paper book

`PaperBook` — `PaperEngine.execute` and `PaperEngine.close` as requests of several
clients.  What Postgres does is modelled by what READ COMMITTED guarantees: the
writes of a transaction appear at its commit, `SELECT … FOR UPDATE` waits for the
row locks and then reads what is committed, a plain read takes no lock.  So a
close is: `ReadLegs` (the legs in a session of their own; the plan), `Market` (the
books; or `InsufficientDepth`, a 409), `Begin` (`session.get` of the position),
`Lock` (the legs), `Commit`, and `Event` (the audit row, a transaction of its own).
`Dies` ends a request at any point and rolls an open transaction back.
SQLAlchemy writes an attribute only when its value differs from the one read;
`Gained` and `Written` say so, and it matters: a status equal to the one read is
left as it is, whatever another commit has made of it.
Prices are any element of `Prices`: the walk of the book decides which.

`PaperDocs` has the property of the realized PnL that the code does not have,
`PaperBookProofs` the proofs, `MCPaperBook` the constants.

### The paper worker, the bucket, fills

`PaperMtm` — `PaperMtmWorker`: `ReadPositions`, `ReadLegs` and `Reloaded` are
`_reload` (one statement for the positions, one for the legs of each; a commit may
fall between any two), `TickStart`, `Visit` and `TickEnds` a second's `_tick`,
`FlushStart`, `Upsert` and `Evict` are `_flush` up to its connection, to its commit and to its
return.  `Raises` is an exception at any of them, also between the two writes of
`_publish`; the first `_reload` is outside every `try`, so there it ends the task.
A sample is abstracted to the lots it counts as open and as settled, because what a
lot earns is the same wherever it is counted.  The book it reads is `PaperBook`, here
reduced to the commit of a close, with the sum an overlapping close can leave
short.  `sampled` is an observer.

`TokenBucket` — one action for each way through `acquire` from the lock to its
release (`Granted`, `Refused`, `Sleeps`, `Wakes`) and `Cancelled` for a request that
goes away while it waits.  asyncio's lock is fair, so `lockQueue` is a queue.  Tokens
are counted in units of a step of the clock, so there are parts of a token and no
rounding.

`Slippage` — `walk_book`, `impact_fraction` and `compute_fill` as operators on every
small book that `LevelListed` can build, with fractions for quotients.  A side of the
book is a set; `Behind` is the key it is sorted by, and the loop over the sorted list is
the recursive function in `WalkBook`, whose last level is the worst one.  `Ways` is the
reference: every way at all to take a quantity from the book.

`WorkerProofs` holds the proofs of these three modules.

### The feed and the minute bars

`Feed` — what `lifespan` subscribes to (`BootstrapOk`, `StartsDegraded`), the loop of
`DeltaWSClient.run` (`Connects`, `Resubscribe`, `FrameArrives`, `BackoffEnds`, and the
ends of a connection: `ConnectionLost`, `GoesSilent` then `PingTimeout`,
`PublishRaises`), the Redis channel, the normalizer and the indexer (`Handle`,
`HandlerDies`), and the hashes with their TTL (`Expires`).  `wanted` is `_subs`, `heard`
what the exchange sends on this connection: nothing it was asked on an earlier one.
A handler is subscribed to its channel from the start of its task on.

`MinuteBars` — `buffer` is `MinuteBuffer._buckets`, `flush` the aggregator's task and
what it drained, `table` the rows of `ticks_minute`.  `Add` is `MinuteBuffer.add`,
with `Update` for `MinuteAccumulator.update`; `Drain`, `Write` and `Saved` are
`flush_once` up to the connection, to the commit and to its return; `FlushFails` is
its `except`, which puts everything back (`Readded`, `MergeOlder`), whether the
commit had happened or not.  Ticks arrive between any two of these, in order of
arrival, for a minute that is over, current, or not begun by this machine's clock.
`iv` stands for all the fields of which a bar keeps the last value, `mark_price`
included.  `Restart` empties memory: `lifespan` flushes nothing when it stops.
`seen`, `saved` and `torn` are observers: the ticks of a minute, the rows whose flush
returned, and the minutes of which a part was lost with the process or came after
the rest was saved.  For those the code promises nothing (`doc_rows_only_gain`
shows what becomes of them), so the properties exclude them by name.

`IsBarOf` is the reference: what the bar of a sequence of ticks is, said without
any accumulator.  `MinuteDocs` has the property the code does not have,
`MarketDataProofs` the proofs (those of `Feed` and `WsClient` as well), `MCMinuteBars` the
constants; `MCMarketData` puts the three side by side.

### The browser

A browser has one thread: an action is one event handler, one effect or what runs
between two awaits.

`WsClient` — the socket of `lib/ws.ts` (`SocketOpens` … `TimerFires`), its
`desiredSubs` and the counts of the stores (`Mount`, `Unmount`, `Subscribe`, `Released`),
the hub's session (`HubHears`, `HubTick`, `HubSends`, `PushRaises`), the frame queue and its flush per
animation frame (`Flush`, `Applied`), and the hooks that sample or refetch (`Sample`, `Refetch`).  A topic is a subscription key, a payload the version of its
data, so that stale data can be told from current.  `held` are the topics of which Redis has
something: of a chain, the candles or a paper position the hub sends nothing while the hash
is missing (`api/stream.py:126`, `:150`, `:163`); live topics are sent as absent.  A Redis error
ends the push task of a connection (`pusher`), and the connection stays.

`StrategyDesk` — the paper page: leaving it for another tab and entering it again
(`LeavePaper`, `EnterPaper`), the modal (`OpenPreview` … `ExecuteEnds`), the list with its polling and its invalidations (`Poll` … `FetchEnds`), the closing
dialog (`OpenClose` … `CloseEnds`).  A request is a record in `calls` with a stage, so
answers overtake one another; a refused, lost or failed one is `Refuses` or `Staged`.  The
query of the list is that of react-query: an invalidation cancels the fetch under way only
if there is data (`loaded`), refetches only while the page observes the query (`here`) and
else marks it (`marked`), and any answer clears the mark.  `missed` is no state of the program
but of the property: positions an answer already read lists although their close was answered
since, without the page.

`StrategyBuilder` and `StrategyMath` — the legs, the chosen expiry and the chains that
arrive; the footer's arithmetic, with spots in half units, so that grid midpoints
are whole, and break-evens as fractions.

`LiveDesk` — selection, stop-loss dialog and its requests.  The tick box and the
threshold hold, in place of TRUE and a number, the strategy they were given for.
`LiveGroups` — the grouping form and the transaction behind it.

`PnlCurve`, `SpotChart`, `Indicators` — the curve of the detail panels, the candles
with the series drawn on them, and the six indicators over every short window, which grows
with each new minute up to its cap (`MAX_BARS`, here `MaxTape`) and then slides; `gone` is
the bar that the last one pushed out.  Periods
typed into the panel are in halves, because the inputs accept 1.5, at which the
indicators throw; `dead` is then the chart that React has unmounted.

`Shell` — tabs, chords, help and the expiry selector of the page frame.

`StrategyDeskProofs` (of `StrategyDesk`, `StrategyBuilder` and `StrategyMath`),
`IndicatorProofs` (of `Indicators`) and `PageProofs` (of the other pages and of the run of
all parts) hold the proofs, `MCBuilder` and `MCParts` the constants.

## Runs and bounds

| Run | Instance | Shows |
|---|---|---|
| `sl_safety` | one leg, long or short by one lot, one trade by the owner, one arm and one disarm that may overlap, one restart that may turn live trading off, debounce 2, two HTTP attempts | `TypeOK`, `FiresOnlyAfterDebounce`, `ExposureHeld`, `DisarmedIsNotTakenUp` |
| `sl_recovery` | one long leg, a restart and a failing call, fair | `ConfirmedStopIsWatched`, `FinishedIsFinal`, `CloseEnds`, `LastingBreachFires` |
| `sl_close` | two legs, the percentage threshold, an exchange that fills in full, nobody else trades | `ClosedLegsAreFlat` |
| `paper_book` | a position of one leg of two lots and one short leg of one, two requests in flight, three closes, one failure, two prices | `TypeOK`, `LotsConserved`, `StatusIsTrue`, `RealizedIsSumAlone`, `AuditIsTrue` |
| `market_data` (`MCMarketData`) | one symbol, two minutes of two ticks each, two marks or none, two failed flushes, one restart; two channels with two faults; two views of one topic and one of a kept one, one lost connection or Redis error, a hash that lapses; fair | `MarketDataTypeOK`, `BarsAreWhole`, `SavedRowsAreWhole`, `BacklogDrains`, `TicksResume`, `SessionAsDesired`, `SharedWhileMounted`, `EventuallyFresh` |
| `parts` (`MCParts`) | the browser's other modules, `PaperMtm`, `TokenBucket`, `Slippage`, side by side | `PartsTypeOK`, `DraftOpensOnePosition`, `OpenedAsShown`, `ClosedIsDelisted`, `ExtremesBoundPayoff`, `BreakevensExact`, `ConsentIsForThisStrategy`, `SymbolInOneStrategy`, `CurveInOrder`, `GreenIffProfit`, `BarsOrdered`, `OverlaysMatchConfig`, `IndicatorsReadRight`, `LeavesOnlyOnPurpose`, `SlicesCountedOnce`, `HistoryKept`, `RateHeld`, `FillsArePriced` |
| `doc_no_order_after_disarm`, `doc_closed_means_flat`, `doc_rearmed_stop_is_watched`, `doc_realized_is_sum`, `doc_rows_only_gain`, `doc_leg_expiry` | the smallest that shows it | a sentence of the documents or comments that the code does not keep |

`MCParts` and `MCMarketData` are sums, not products: a behaviour chooses a part at its start
and steps it alone, the others stay in their initial states.  The parts of a sum
share no modelled state, so every behaviour of one part is there and nothing is
said of two parts together; each part is still explored in all its own
interleavings.

Why the bounds are enough.  One lot on each side is what the sign tests of the
closer distinguish; two lots are needed only for a partial fill that is neither
empty nor complete (`doc_closed_means_flat`).  A debounce of 2 is the least that
differs from no debounce.  One strategy suffices for the properties, which speak
of one strategy, because strategies share no leg and the monitor looks at one at
a time; the proofs have any number.  One restart and one failure may fall between
any two steps; a second restart meets a state the first one can already leave.
Two clients and three closes give every overlap of two closes followed or preceded
by one that stands alone, and a partial close needs a leg of two lots.
Two ticks of a minute are one in the drained part and one that arrives during the
flush, which is what merging has to get right; two marks order them either way;
two minutes are in one flush or in two, and two failed flushes put a minute back twice.
`Ivs` is empty there, because a field of which the last value is kept follows the
same rule as `close`; `doc_rows_only_gain` has one.
Two faults of the feed meet in every order: a failed attempt after a lost
connection, a publish that raises after a silence.  The candle channel is handled
like the spot channel and left out.
Two views of one topic and one of a kept one, one lost connection or one Redis error, a topic whose hash may lapse and one whose hash does not, a queue of one
frame and two controls on the wire are what a reconnect can cross; two previews
overlap, of which one request may fail; two strategies, two arms and one failure confuse a
dialog if anything can; two legs on two strikes and two expiries are a spread.
Windows of five bars go one bar past the longest warm-up of periods 1 and 2; they grow from
nothing and then slide through all windows of five.  A history of two
points around two samples, a minute of two units, a chord window of one unit are the
least that has a before and an after.  One position of two lots is torn by one close;
two samples of a minute and two minutes make a saved and an open bar.  Three callers,
one of which places orders, are a sleeper, one behind it and one refused; books of up
to three levels have a best one, a partly taken one and one never reached.
`LastMinute`, `MaxTicks`, `MaxTrades`, `MaxArms`, `MaxDisarms`, `MaxRestarts`,
`MaxFaults`, `MaxCloses` and the other `Max…` constants bound the environment or the
clock, never the program, with two exceptions: `MaxUp` and `MaxQueue` bound the
messages in flight between hub and browser.  `MaxBars` and `MaxTape` are the program's
own cap of 360 bars.  `CHECK_DEADLOCK FALSE` stands in every
configuration: the environment may use up its bounds, and the paper book and the
minute bars then have nothing left to do.

`FiresOnlyAfterDebounce` counts evaluations of a strategy, whatever is armed in
between: it does not say that the count starts again with an arm request (it does
not, see *Divergences*).  `ClosedLegsAreFlat` is stated for an exchange that fills
in full and an account nobody else trades on; `doc_closed_means_flat` shows what
happens otherwise.

Every property of a passing run has a mutant of the code in the modules (an
operator named for what the bug does, just before the definition it replaces)
that violates it.

## Fairness

`StopLossLiveness!FairSpec` assumes weak fairness of the monitor's own steps and of
the requests already accepted: asyncio runs a ready task eventually, the loops of
`SLMonitor.run` and `TokenBucket` end their sleeps, and every HTTP call has a
timeout and a bounded number of attempts.  Users, prices, trades, failures,
restarts and the sync task owe nothing.  `CloseEnds` and `LastingBreachFires` hold
under it although a restart or a failing call may hit once: the bound on failures
is what stands for "failures stop", without which a stop-loss need not ever fire.
No fairness is assumed among the strategies of one tick: the loop visits all it
copied.  `MinuteBars!FairSpec` assumes weak fairness of the aggregator's own steps, for the same
reasons: its loop sleeps five seconds and runs again, whatever the flush raised.  The
feed, the clock, failures and restarts owe nothing.
`FeedFairness`: the client's task runs on, its back-off and the library's pings end,
an attempt to connect is answered, the exchange sends what was subscribed on this
connection, and the handlers' tasks run; faults, restarts and the TTL owe nothing.
`WsFairness`: the browser's timers fire (the reconnect after a second, the sampling
interval), the frames of animation come — which they do in a visible tab — an attempt to open
a socket ends, the hub hears what was sent, and its push task goes on or raises.  Users and
data owe nothing: no hash need ever be there, and nothing restarts a push task that has
ended.  `EventuallyFresh` therefore says what is shown of a topic becomes current again and again
unless Redis lacks its data or the push task of an open connection is gone; it says so topic
by topic, so that a missing hash excuses only its own topic.  In the
sums, the fairness of a part has no effect on the behaviours of another, whose initial states
enable none of its actions.
The paper book states no liveness: a request that dies is not retried.

## Proofs

`Induction` — what the proofs about data rest on.  The theorems of the library that
have an induction hypothesis as a parameter cannot be used here, but induction can be
said with sets: a set of naturals with 0 and all successors is `Nat` (`NatInductionSet`,
from the well-foundedness of `<`), a set of subsets of a finite set that has every subset
whose smaller ones it has is the whole power set (`SubsetInduction`).  From them follow
that the fold `SumFunctionOnSet` of the community modules is defined by its recursion
(`SumsExist`, `SumIsFold`) and is linear (`SumAdds`, `SumLinear`), that finite sets of
integers have a greatest and a least element (`Extremes`), and that a recursive
function is defined (in `StrategyDeskProofs`, `WorkerProofs` and `IndicatorProofs`, each for
its own).

`StopLossProofs` (any symbols, strategies, requests, restarts, failures):

* `TypeCorrect`: `Spec => []TypeOK`.  `TypeOK` is inductive; one lemma per action.
* `FiringIsEarned`: `Spec => []FiresOnlyAfterDebounce`.  The property is not
  inductive: a state whose stored count is larger than the evaluations made could
  fire unearned.  `Earned` adds that the count in Redis, and the one in the copy
  the monitor holds while it evaluates, are never ahead of `streak`.
* `ImplementsExposure`: `Spec => ExposureHeld`, the refinement.  `Consented` says
  that whatever leads to an order was asked for (a hash with a state, the strategy
  taken up, the leg of an order) and that the settings permit orders from the gate
  to the last attempt; with it each step maps to a step of `Exposure` or a stutter.
* `WatchedButForTheGaps`: `Spec /\ [][NobodyArmsInTheGaps]_vars => []ConfirmedStopIsWatched`,
  by `WatchInv`: a strategy that is taken out of the index has a final state or none.
  That is false when an arm request falls between the two last writes of a close
  (`_do_close` writes the final state, then leaves the index), which is what
  `doc_rearmed_stop_is_watched` shows, or between the DELETE and the SREM of a disarm request
  that overlaps it; the theorem says that these two windows are the only ones.
  `ArmedOnceIsWatched`: with at most one arm request neither can be hit.
* `ReopenedByRequestOnly`: `Spec => [][OnlyRequestsReopen]_<<hash, req>>`: whatever
  restarts and fails, only a request takes a hash out of CLOSED or FAILED;
  `FinishedUntilArmed`: without disarm requests, `FinishedIsFinal`.  Both from
  `NotFinished`: the monitor works on no strategy whose close has ended.
* `DisarmedButForTheGaps`: `Spec /\ [][NoTickFailsInTheGap /\ NoLateListing]_vars =>
  DisarmedIsNotTakenUp`, by `RetiredInv`: a strategy whose hash was deleted has no live
  state, or is the one being closed, or is out of the index and of the monitor's copy of it.
  There are two windows.  `_do_close` writes its fields after the DELETE of a disarm request,
  so that there is a hash again, and fails before the disarm's SREM, so that the next tick finds
  strategy and hash in the index and resumes the close: TLC finds that behaviour as soon as
  one failure is allowed, and `sl_safety`, which allows restarts, allows none.  Or an arm
  request that the disarm overtook does its SADD after the disarm's SREM, while an older close
  of the strategy is not done: that takes a second arm.  `DisarmedOneAtATime`: without failures
  and with one request at a time there is neither.  `DisarmedOnceArmed`: without failures
  and with one arm request in all, whatever overlaps it, there is neither; that is what
  `sl_safety` has.
* `FlatIfAlone`: where the exchange fills in full, `Spec => [](trades = 0 =>
  ClosedLegsAreFlat)`, by `Flattening`: while nobody else trades, positions only shrink,
  so that every copy of a position, however stale, is an order that covers it.
  `FlatWithoutTrades` is the instance the run `sl_close` has.

`PaperBookProofs` (any positions, legs, clients):

* `LotsAreConserved`: `Spec => []LotsConserved`; `StatusesAreTrue`: `Spec =>
  []StatusIsTrue`.  Both are conjuncts of the inductive `BookInv`, which adds:
  between lock and commit the legs are as the transaction read them (`Locked`); a
  close in flight takes something (`Aimed`); a position being inserted is nobody
  else's (`Reserved`); what a transaction remembers of the status is still true of
  the legs, which only shrink (`Remembered`).  The last one is why deciding from a
  row read before the lock is harmless for the status, while it is not for the sum.
* `AuditTellsTheTruth`: `Spec => []AuditIsTrue`, from `AuditInv`: the rows written
  and those about to be written claim what is so.
* `BookTypeCorrect`: `Spec => []TypeOK`, the sums of money included, which are folds over the
  legs: what a close realizes, and the total it writes, are integers.
* `RealizedIsTheSum`: `Spec => []RealizedIsSumAlone`, by `Alone`: a position whose closes never
  overlapped has one transaction at a time, and the total that one has read is still
  the one in the row, which is the sum over the fills; `GainGrows` adds a slice to that sum.

`MarketDataProofs` (any symbols, minutes, marks, ticks, failures, restarts):

* `TypeCorrect`: `Spec => []TypeOK`.
* `BarsStayWhole`: `Spec => []BarsAreWhole`; `RowsAreWhole`: `Spec =>
  []SavedRowsAreWhole`.  `BarOfAppend` proves that `Update` turns the bar of some ticks
  into the bar of one tick more; `MergeThenUpdate` that updating and then merging the
  older part is merging first, so that a bar split between buffer and flush is as
  good as one in one piece.  `BarsInv` adds to the properties: a flush about to close
  its connection holds what is in the table (`FlushInv`); a row without anything in
  memory is confirmed or torn, and a confirmed one that is not torn has nothing in
  memory (`RowInv`), so a tick for it cannot be mistaken for its first.
* Of the feed (any channels, handlers, faults): `FeedTypeCorrect`, and `SubscriptionsSurvive`,
  `FeedSpec => []HeardAsWanted`: on a connection that is being read the exchange sends all that
  was ever subscribed to, and no frame waits for a task that has ended.  It is the safety on
  which `TicksResume` rests.
* Of the link (any topics, views, versions, faults): `WsTypeCorrect`; `AlwaysConnecting`: `WsSpec => []NeverStranded`, as long as
  something is subscribed there is a socket or a timer that will make one.
* `SubscribedWhileUsed`: `[]SharedWhileMounted`, by `RefsCountUsers`: a count is the number of
  mounted users, and a topic is desired when it is not zero.
* `HubFollowsTheClient`: `[]SessionAsDesired`, by `SessionNeedsSocket`: nothing of a
  session outlives its socket, so a replay onto a new one starts from nothing.
* `MarketDataTypeCorrect`: `MarketDataSpec => []MarketDataTypeOK`, from the type correctness of the
  three and `EachPartRunsAlone`.

`StrategyDeskProofs` (any previews, closes, faults):

* `DeskTypes`; `DraftsAreUsedOnce` proves the inductive `OneUse`, from which
  `OnePositionPerDraft` (`[]DraftOpensOnePosition`) and `ShownIsOpened`
  (`[]OpenedAsShown`) follow.  `FreshPreview` says that the draft on the screen while Execute
  can be clicked was never sent; `OneExecution` that two requests never execute one
  draft.  Both need that an answer is taken only by the request that is awaited.
* `ClosedStaysDelisted`: `[]ClosedIsDelisted`, by `Delisting`: once a close was answered and
  its query invalidated, nothing a fetch has read, and nothing the last good one left, has the
  position, except those missed; and on the page, with no fetch under way and the last one
  good, the query is not marked.  `ListedBeforeClosed` is why the invalidation of a close cancels the
  fetch whose answer may be older: what can be closed was listed, so the query has data.
* `Descend` and `ImageDescends` are how a step of `calls`, a set, is followed: each new
  request is an old one some steps later.

The footer of the builder (any legs, chains, quantities, edits), in the same module:

* `FooterBoundsPayoff`: `BuilderSpec => []ExtremesBoundPayoff`.  Between two neighbours of the
  grid no leg has its strike, so each leg's payoff there is on its chord (`LegChord`), the
  payoff, a fold over the legs, is on the chord of its ends (`ChordBound`), and a chord lies between
  its ends.  The grid is finite, and every spot of the range lies between two neighbours
  (`Enclosed`).
* `FooterFindsBreakevens`: `BuilderSpec => []BreakevensExact`.  By the same chords the
  crossing that is computed is a zero (`CrossingIsZero`); a change of sign between two spots is
  one between two neighbours of the grid (`FallsThroughZero`); and what is dropped as
  a duplicate has one reported within half a unit (`NearBy`).
* Both rest on `RowsAreTyped`: a leg's quantity was typed and its strike is one the chains
  offer.

`WorkerProofs` (any callers, rates and bursts; any positions, closes, samples, faults):

* `RateIsHeld`: `BucketSpec => []RateHeld`.  What is bounded are the calls let through; each
  makes up to three HTTP attempts with the one token it took (`services/delta_rest.py:70-75`).  The inductive `BucketInv` adds that the
  calls let through since any of them, with what is left, are what a full bucket and
  the time since add up to (`Accounted`), and that who sleeps will find its token
  (`Solvent`): that is why a caller that wakes may take one without looking.
* `LotsCountedOnce`: `MtmSpec => []SlicesCountedOnce`, by `LotsInv`: lots only close,
  so a sum that was read goes with any later legs.
* `HistoryIsKept`: `MtmSpec => []HistoryKept`, by `HistoryInv`: a bar in memory has
  every sample of its minute; one that is gone from it is in its row and its minute is
  behind the tick under way, so no later sample can open it again.
* `BucketTypeCorrect`, `MtmTypeCorrect`: the variables of both keep their types; a bucket is never in debt,
  never over its capacity.
* `FillsAreBest`: `SlippageSpec => []FillsArePriced`, for any order book.  `WalkIsGreedy`
  follows the walk level by level: there is a price, that of the last level touched,
  such that every level before it was taken in full and of those behind it nothing.
  So any other way of taking lots pays at least that price for each lot beyond the
  walk's, and saves at most that price for each lot less (`BeyondTheLast`).  With another way to
  take the same quantity this is that the walk is the best one (`WalkIsBest`); with the walk
  of another quantity, that a larger order pays the same or a worse average
  (`LargerIsDearer`).  `ImpactGrows` has the same for the impact, across its floor.  The
  book is refused exactly when it is too small, because a walk that runs out has taken every
  level (`FullIsMost`).  The guard against a negative sell price is never taken.

`IndicatorProofs` (any bars of integer prices, any cap of the window, any whole period):

* `IndicatorsAreRight`: `TapeSpec => []IndicatorsReadRight`.  What a tape is (`TapeTypeOK`) is
  inductive, and everything else is said of any window, in four parts: `LinesAligned`,
  `LinesInRange`, `LinesStay`, `LinesFade`.
* A fraction is what it was before it is put in lowest terms (`FractionValue`, `PlusValue`),
  because the gcd divides both of its arguments (`GcdDivides`).  The
  recursions of the indicators are recursive functions, of which the proofs need first that
  there is one (`GcdExists`, `RecursionExists`), then that it keeps its type
  (`RecursionType`), then that on fewer bars it is the same as far as it goes
  (`RecursionSame`), by induction on the bars.
* Range: the smoothing of `ema`, of the signal and of `adx` is one operator, `Blended`, whose
  step is a weighted mean, so what it gives stays within the bounds of what it is given, seed
  included (`MeanWithin`, `BlendWithin`, `BlendValue`); `WilderValue` says so of Wilder's smoothing.
  `rsi` is a part of a whole that is not negative.  The directional sums of `adx` are smoothed
  by the same steps as the true ranges, which no move exceeds (`TrueRangeBounds`, `StepOrder`,
  `MovesValue`), so +DI and -DI are at most 100; DX is at most 100 because neither of them is
  negative (`DxIs`), and ADX is a blend of DX.  A Bollinger band's variance
  is a sum of squared distances (`VarianceNotNegative`).
* Repainting: the prefix lemmas (`BlendPrefix`, `WilderPrefix`, `MovesPrefix`, `RawPrefix`)
  say that no line looks past the bar it is at, so an appended bar changes nothing
  (`LinesStay`).  A bar that pushes the oldest one out moves every seed.  The bands stay,
  being those of the same closes (`BandSlides`, `SumShifts`); of a recursion, the old and the new value of a
  bar each follow that of the bar before by the same step, so their difference is that of the
  bar before times the weight of the past (`FollowersFade`, `EmaFades`, `WilderFades`): (p - 1) /
  (p + 1) for EMA, (p - 1) / p for ATR and for the two averages of RSI (`LinesFade`).  What this makes of
  RSI, which divides the two, and of MACD and ADX, which combine several recursions, is not stated.

`PageProofs` (any strategies, symbols, requests; any points; any
bars, prices, configurations; any keys, panels, expiries):

* `LiveDeskTypeCorrect`; `ArmedByItsOwnDialog`: `[]ConsentIsForThisStrategy`, from
  `FormOfSelected`: what a form holds was given for the strategy selected;
  `BlockedWhileSending`: `[]BusyWhileAwaiting`, from `OneRequest`; `GroupsTypeCorrect`,
  `GroupsAreDisjoint`.
* `CurveStaysInOrder`, from `CurveUntilNow`: no point of a curve or a history lies ahead of
  the clock.  There is one clock: the points of a history carry the server's time and the live ones the
  browser's (`PaperPositionDetail.tsx:76`, `:87`), and nothing in the code makes the two agree.  `ColoursTellProfit`: `[]GreenIffProfit`, because the gradient and
  the zero on it are measured on the same extent where a curve crosses zero, and a curve on
  one side of zero has one colour.  The property
  had to be narrowed for it: the lowest value of a curve that is all in profit lies exactly on
  the last stop, where the red begins, and is not claimed to be green.
* `ChartTypeCorrect`, `BarsStayOrdered` (`[]BarsOrdered`), by `ChartInv`: the bars are in
  order, which the parsing of a history in any order, with one candle per time, establishes
  (`ParsedIsOrdered`); that the exchange sends no time twice is assumed, the code keeps duplicates
  (`SpotChart.tsx:111-116`).
  `ChartShowsItsConfig`: `[]OverlaysMatchConfig`, by `DrawnAsConfigured`: until the configuration or a bar
  changes, what is on the chart is what the configuration asks for.
* `ShellTypeCorrect`; `LeftOnPurpose`: `ShellSpec => LeavesOnlyOnPurpose`, by `ChordIsFresh`: a
  chord a letter would complete was begun by the last key heeded.
* `PartsTypeCorrect`: `PartsSpec => []PartsTypeOK`, the type correctness of the run of all parts, from
  that of each part and `EveryPartRunsAlone`: a behaviour of the run is one of each of the eleven
  specifications, in which the parts not chosen stutter.  So whatever is proved of a part
  holds of the run.

The assumptions are those of the modules, which TLC evaluates on the instances of the
runs.  Beyond bounds being natural numbers: marks are integers; strategies share no
symbol; positions share no leg and have finitely many, at least one; executed quantities
and prices are positive; topics and views are finite; the strikes of a chain are positive and
its marks integers or missing, typed quantities are integers or missing, and the first expiry is one of the
chains; prices and sizes of the order book are positive, the impact's coefficients are 1 over
positive numbers; the default configuration of an indicator has a parameter; the levels of a
bar are integers, and a missing value of an indicator is no fraction and no band.

Only model-checked: liveness (`CloseEnds`, `LastingBreachFires`, `BacklogDrains`,
`TicksResume`, `EventuallyFresh`), which needs fairness and ENABLED;
`ConfirmedStopIsWatched`, `FinishedIsFinal` and `DisarmedIsNotTakenUp` beyond the hypotheses
above.  Every other property of a passing run is a theorem.  `NeverStranded`, `BusyWhileAwaiting`,
`OnlyRequestsReopen` and `HeardAsWanted` are proved and appear in no run.

## Divergences

Checked by a run each, and listed under `findings`: orders after a confirmed disarm,
CLOSED with an open position, a re-armed stop-loss nobody watches, a realized PnL
without the slices of an overlapping close, a row of minute bars replaced by the bar
of one late tick, a leg previewed under an expiry it was not added for.

Met while modelling, and reproduced on the models with properties that are not
kept as runs:

* `disarm` tests the state and deletes the hash in two commands
  (`live/sl_monitor.py:78`, `:83`); a close can start in between, and its hash is then deleted.
* Requests of one strategy overlap: the DELETE of a disarm, a whole arm up to its
  confirmation, and then the SREM of that disarm (`live/sl_monitor.py:83-84`) leave a
  confirmed ARMED stop-loss out of the index.  TLC shows it for `RearmedStopIsWatched` with
  `MaxDisarms = 1` and two `Calls`, where the close has no part in it.
* A restart while CLOSING and after the orders runs the close again from the
  snapshot (`docs/DECISIONS/0004-live-monitor.md:283`); the orders are reduce-only, so
  positions still only shrink.
* The breach count is written from the value read before the legs were aggregated
  (`live/sl_monitor.py:141`): a re-arm in between gets the old count plus one.
* A failing first write of `_do_close` leaves TRIGGERED unwritten: the state is
  never stored, only announced (the module comment at `live/sl_monitor.py:3`).
* A leg is sent more often than the one retry of `live/closer.py:6`, because each of its two
  calls makes up to three HTTP attempts (`services/delta_rest.py:70-75`).
* HSET merges: re-arming with one threshold keeps the other one from before
  (ADR 0004, 254-255).
* `threshold_pct` is a fraction in ADR 0004 (255, 272) and a percentage in
  `live/sl_monitor.py:151`.
* `live:positions` only grows: a symbol no longer listed stays (`live/position_sync.py:35`).
* A partial close request closes the legs it does not name in full
  (`paper/engine.py:205`); ADR 0003 (209) speaks of "one or more legs".
* `paper:events` is published and nothing subscribes to it; a rejected entry writes no
  audit row, and `StrategySpec.atomic` is not read (ADR 0003, 122-125).
* One Redis error in `_process` or `listen()` ends the normalizer's or the indexer's task
  (`workers/tick_normalizer.py:141-149`, `spot_indexer.py:31-40`) and nothing starts it again; ADR
  0002 (214) says "ingest pauses publishing, retries connect".  `TicksResume` is
  therefore stated for channels whose task runs.
* One Redis error while the hub pushes ends the push task of that connection
  (`api/stream.py:112-115` catches only `WebSocketDisconnect` and `RuntimeError`), the socket
  stays open and the client, which connects again only after a close, shows old data under
  "connected" until then; ADR 0002 (214) says "frontend WS shows degraded".  `EventuallyFresh`
  excludes such a connection by name.
* Of a topic whose hash has expired the hub sends nothing (`api/stream.py:126`, `:150`,
  `:163`) and the page keeps the last frame; ADR 0002 (206-207) has the frontend render
  "stale/no data" rather than a frozen price.
* A failing first `_reload` ends the paper worker (`paper/mtm_worker.py:132`); ADR 0003 (371) has a
  supervisor with a heartbeat restart it.
* A leg without a mark counts as 0 in a position's PnL, with `mark_stale` set
  (`paper/mtm_worker.py:196-212`); ADR 0003 (368) has the last good mark instead.
* The back-off of the feed is reset as soon as a connection opens
  (`services/delta_ws.py:92`), by ADR 0002 (198) "on a clean 60 s connection".
* After a degraded start nothing is subscribed until the process restarts
  (`main.py:54-62`): no later step calls `subscribe`.
* The closer's orders are refused by an empty bucket (`services/delta_rest.py:104`);
  ADR 0004 (101) has the closer block.  Callers that do not wait for a token do wait
  for the lock of one that sleeps (`live/auth_gate.py:70-76`).
* A socket that a new subscription opened while the reconnect timer was pending, and that
  closes before the timer fires, leaves the status at "disconnected"
  (`lib/ws.ts:287-291`); the comment there wants "reconnecting" as long as the timer is
  pending.
* A snapshot of the socket hides a fresher REST answer (`useLiveData.ts:44`) until
  the next frame; a curve of the live detail gets a point only when the value
  changes.
* The paper table asks for positions that are `open` and so never lists a
  partially closed one.
* The invalidation after a close does nothing but mark the list's query while the page is
  left (`ClosePositionDialog.tsx:55`).  A fetch that was under way and read before the close
  then ends, lists the position and clears the mark, and a return within `staleTime`
  (`usePaperPositions.ts:11`) shows the closed position until the next poll.  `ClosedIsDelisted` excludes
  exactly these positions (`missed`); TLC shows the trace for the property without the exception.
* The close of the preview modal is scheduled 600 ms after an execution and never
  cancelled (`StrategyPreviewModal.tsx:69`): it closes the modal of the next preview.
* `breakevens` looks only at the left end of each piece of the grid, so a payoff that is zero at twice the
  highest strike is not reported (`strategy-math.ts:203-211`).
* `indicators/index.ts:17-21` has the window recomputed instead of the affected tail, as if
  the values were the same.  Once it is full, each new minute drops its first bar
  (`SpotChart.tsx:152`), all recursions start from another seed, and values already drawn change, most at the left
  end.  `IndicatorsReadRight` says by how little.
* A period with a fraction, which the inputs accept (`IndicatorPanel.tsx:73`),
  makes an indicator read a bar that is not there, and throw while the page renders.

## Not modelled

Implied and realized volatility and greeks, which are floating-point logarithms and
square roots; margin and the PnL of a leg, which are sums of products without a
state; order sync, from whose rows nothing is decided; the option-chain table, the volatility cone, the metrics strip and all
markup and formatting; the catalogue of products; parsing of exchange frames beyond
the mark they carry; logs and metrics; the read-only routes; the schema.  Decimal
arithmetic is integer or exact fractional arithmetic here.  Redis and Postgres are
taken to execute one command, or one transaction, atomically.  The lengths of
sleeps and timeouts are left out where only their order matters; so are the five minutes after
which react-query forgets a query nobody observes, and what it does to `StrategyDesk` then: a
page entered later loads the list anew.  In `Feed` the handler tasks listen from their start on: frames that
come before their first `SUBSCRIBE` are lost in the code too, but the feed sends
again.  In `PaperMtm` no new position is opened, because an opened position only
enters the next reload; realized volatility is a column nothing else reads.  In
`StrategyBuilder` the legs are left alone while a preview is open, although they can be edited
behind it, and the expiries are one answer of a query that may refresh
(`StrategyBuilder.tsx:84-86`).  In `SpotChart` a history has at most one candle of each
time: two of one time would both be kept (`SpotChart.tsx:111-116`).

## Plan

Done: the stop-loss with the account copies and its refinement of `Exposure`; the
paper book and its worker; the feed and the minute bars; the token bucket; fills;
the browser's socket with the hub, its paper and live pages, arithmetic, charts and
frame; proofs in eight modules.

Next, in this order:

1. Two strategies in `StopLoss`: one whose event insert always fails starves the
   others (hazard at `live/sl_monitor.py:124`).
2. `PaperBook` and `PaperMtm` as a product, with positions opened while a reload
   runs; `Feed` and `MinuteBars` as a product, the indexer's bars included.
3. `WsClient` as a refinement of an abstract subscription service whose state is the
   set of desired topics alone.
