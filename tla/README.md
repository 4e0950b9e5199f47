# A TLA+ verification of faraday

faraday is a daemon that runs beside an lnd node. It records what happens to
the node's channels, and answers questions about them (how well could this
pair of peers have forwarded? which channels should be closed? what did the
node earn and spend?). This directory models the parts of it whose
correctness depends on order, concurrency, failure or boundary values, checks
them with TLC on small instances, and proves some of the results with TLAPS.

`PROJECT.json` lists components, runs, mutants, findings, hazards and theorems,
and maps every definition to the lines it models.

## 1. Inventory

| Component | State | Operations | Interacts with | What makes it correct |
|---|---|---|---|---|
| events store (`chanevents/store.go`, `db/sqlc`) | tables peers, channels, channel_events; an id sequence | AddPeer, AddChannel, AddChannelEvent, PruneEvents; five reads | written by the monitor; read by the analyzer and the RPC server | ids and timestamps agree; prunes keep what they must; reads reconstruct the recorded history |
| monitor (`chanevents/monitor.go`) | started, quit, context, the loop's position, `synced` | Start, Stop, waitForReady, initialSync, subscribe, handleChannelEvent, pruneEvents | polls and follows lnd, writes the store | the store tracks lnd; retries get back to work; Stop returns |
| analyzer (`chanevents/analyzer.go`) | none between calls | EffectiveUptime: five reads, seeding, a walk per pair | reads store and lnd while both change | no channel or forward lost; uptime exact |
| ForwardingAbility call and codec (`frdrpcserver`, `frdrpc`) | none | validate, analyze, guard, encode; decode in the client | the analyzer; clients | what is decoded is what was found |
| GetChannelEvents call (`frdrpcserver/getchanevents.go`) | none; the client keeps a cursor | validate, look up, query | the store; clients that page | every row once, paging ends |
| daemon (`faraday.go`, `config.go`) | two atomic flags, the dependencies it holds | Start, StartAsSubserver, Stop | owns monitor, stores, servers, macaroon service, lnd connection | nothing outlives what it uses; nothing leaks; one life per instance |
| node audit (`frdrpcserver/node_audit.go`) | none | validate, find block heights, two reports, sort | lnd, accounting, fiat | no block of the window is left out |
| accounting (`accounting`) | none between calls | OnChainReport, OffChainReport: eight reads of lnd, filters, classification | lnd, chain client, fiat | channel transactions and self-payments are recognised; entries add up |
| fiat prices (`fiat`, `frdrpcserver/exchange_rate.go`) | none | validate, chunked queries with retries, GetPrice | price APIs | every time has a fresh price |
| revenue, insights, recommend, dataset | none | four lists of lnd, sums, quartiles, thresholds | lnd | forwards and fees counted once; confirmations and verdicts sound |
| close reports, fees, chain client (`resolutions`, `fees`, `chain`) | the client's cache of transactions, under a lock | CloseReport, CalculateFee, GetTxDetail | lnd, a bitcoin node; also used by accounting | fees charged once; only confirmed transactions cached |
| paginater, lndwrap | an offset | QueryPaginated over invoices, payments, forwards | lnd | each item once |
| frcli, generated code, logging, versions | - | - | - | thin |

What is hard here: lnd changes between any two calls; a stream that breaks
loses events; the loop can be told to stop in any of its waits; a crash keeps
the database only; two row orders (id and timestamp) are used as if they were
one; ids double as client cursors; counters are narrowed to 32 bits; a start
can fail at any of nine steps; a report is put together from lists that are
read one after the other, and whatever moves from one list to another in
between can be in both or in neither; block times are only roughly ordered;
differences of unsigned heights wrap. The "hazards" of `PROJECT.json` list these
at their lines, each with the properties that would catch it.

## 2. Modules

| Module | Models | Notes |
|---|---|---|
| `ChannelHistory` | the queries and `getInitialChannelState` | operators over a set of rows; no state |
| `ChanEventsStore` | the store | one action per SQL statement that writes; the abstract specification the monitor implements |
| `ChanEventsMonitor` | the monitor with lnd | one action per call it makes; `INSTANCE ChanEventsStore` as `Store` |
| `UptimeWalk` | `loadPeerEvents`, `mergeEventSlices`, `calculateBothDirectionsUptime` | one action per merged event |
| `AbilityCodec` | the encoder and the decoder | operators; no state |
| `ForwardingAbility` | the handler and `EffectiveUptime`'s reads, lnd and the monitor changing meanwhile, a client; or a library caller of the codec | EXTENDS `AbilityCodec` |
| `ChannelEventsRPC` | the GetChannelEvents handler and a paging client | EXTENDS `ChanEventsStore`: its writes and prunes interleave |
| `Lifecycle` | Start, StartAsSubserver, Stop, goroutines | one action per dependency or flag access |
| `BlockRange` | `resolveBlockHeightRange`, `findFirstBlockBeforeTimestamp` | one action per turn of the search; heights modulo `Wrap` |
| `Accounting` | package `accounting`: filters and entries | operators; no state |
| `Prices` | package `fiat` and the request's price part | operators for the queries, actions for the attempts |
| `NodeAudit` | the NodeAudit and ExchangeRate calls, lnd moving meanwhile | EXTENDS the three above; one action per read |
| `Recommendations` | packages `dataset` and `recommend` | operators over functions from channels to values |
| `Collections` | loops over slices, sorted keys, running sums | `InOrder`, `ItemsAt`, `AddUp`: operators, used wherever the code keeps an order or adds up |
| `ChannelReports` | RevenueReport, ChannelInsights and the two recommendation calls | EXTENDS `Recommendations`; one action per read |
| `CloseReports` | CloseReport calls sharing the chain client's cache, beside a call of `ChannelReports` | EXTENDS `ChannelReports` |
| `*Proofs` | theorems | section 5; `CommonProofs` holds what several of them need |
| `MC*` | TLC instances | constants only |

How state and actions correspond to the code:

- **Store.** A row is a record `[id, chan, type, ts, bal]`. The channel point
  stands for the surrogate channel id (channels are never deleted, the point is
  UNIQUE), `bal` for the two balances, which every writer sets together.
  `IsNextId` is the id allocation: `INTEGER PRIMARY KEY` without AUTOINCREMENT
  takes the largest id plus one (one again on an empty table), the Postgres
  column is a sequence. A failed statement changes nothing; the failures
  that matter are which statement of a sequence is skipped, so they are actions
  of the monitor. Times have one unit: the request's seconds and a row's
  timestamp are compared in it.
- **Monitor.** `pc` is the place in `monitorLoop`: `ready` (waitForReady),
  `sync`/`closed`/`listed` (initialSync before, between and after its two lists),
  `pruneSize`/`pruneAge`, `subscribe`, `stream` (the select), `retry`. The rest
  of the current list is `queue`, the rest of the current channel or event is
  `todo`, a sequence of writes. The reads before a write are taken together
  with it, because the monitor is the only writer. `lost` is a history variable:
  it says that a channel's last change cannot have reached the store (made
  before the stream was up and after the lists, dropped with a stream, or
  given up because a call failed).
- **Uptime.** Ids are positions in the log, so the log is in id order and, by
  `ChronologicalIds`, in timestamp order. A peer's slice is the set of its
  positions, and `pos` how far it is read.
- **ForwardingAbility.** `stage` is the call under way. Reads of lnd and of
  the store are separate steps. The uptime of a pair is any duration of the
  instance within the window: `UptimeWalk` is about its value. Durations are
  in parts of a second and amounts in parts of a satoshi, so both conversions
  (to whole seconds, to whole satoshis, per forward) are real. Thresholds are
  exact fractions; see section 6.
- **BlockRange.** `low`, `high` and `search` are the binary search under way.
  The chain is fixed in advance and `tip` says how much of it is mined. A block
  above `tip`, which a wrapped bound asks for, makes the lookup fail, and
  `NewOnChainConfig` then reads all of the history.
- **Accounting.** An entry is a record of its time, amount, sign, type, txid
  and category, and of the time of the price its fiat value is computed from.
  `filtered` is what `filterOnChain` makes of a transaction, the subtraction of
  the fee included. A category's regular expression is the set of labels it
  matches.
- **Prices.** A price point is its time. `Queries` turns a window into the
  ranges each backend is asked for, `Answer` is what the API returns (external:
  candles without gaps), `tries` counts the attempts of one query.
- **NodeAudit.** `stage` is the call under way, in the order of the code:
  heights, prices, transactions, pending, open and closed channels, sweeps,
  prices again, invoices, payments, forwards. lnd has one channel with its
  funding, closing and sweep transactions, and one payment to ourselves that is
  dispatched, gets an htlc, settles its invoice and succeeds. An open channel closes
  cooperatively (`coop` until lnd is done with it) or by a commitment (`closing`
  until that confirms, `forced` until its outputs are resolved): of a channel
  waiting to close, only the commitments are candidates for the closing
  transaction. lnd moves from the
  first read of its lists on: a move before that is the same as another
  initial state, and the initial states are all of them. `seen` is a history
  variable.
- **ChannelReports.** The same for the revenue pipeline: open channels, closed
  channels, pages of forwards, height, open channels again. `known` is the map
  of short channel ids. Revenue events are the positions of the forwards that
  `getRevenueEvents` keeps. lnd's log is chronological, so that the forwards of a
  window are a stretch of it (`InWindow`). The height of a channel is the one in
  its short channel id, which for a channel used before it confirmed is an alias
  far above the tip. The comment at `revenue.go:10` says that `ListChannels` returns
  our public channels, but `revenue_report.go:36` passes `publicOnly = false`, and
  the model lists private ones too. The values of a recommendation are computed as
  fractions of `Unit`, and `rpcResponse` converts each to a nearest member of
  `Float32s` before it sorts: any set of integers in the proofs, one with three
  significant bits in the run, so that different values meet.
- **CloseReports.** A lookup is three steps, as in `GetTxDetail`: read the
  cache under the lock, ask the node without it, store under it. Callers run
  concurrently.
- **Lifecycle.** `held` are the resources that are open, `fields` the non-nil
  fields that Stop tests. The two flags are accessed in separate steps, as in
  the code.

lnd, the clock, process exit and the paging client's decision to call again are
external and marked so in the map.

## 3. Runs

Passing runs, with what they show:

| Run | Properties | Bounds |
|---|---|---|
| `monitor` | `StatusTracksLnd`, `BalanceTracksLnd` | 2 channels in any initial state, 2 changes of lnd, 1 fault, size limit 3 |
| `monitor_live` | `ImplementsStore`, `CatchesUp`, `StopTerminates` | 1 channel, 1 change, 1 fault, both prunes |
| `uptime` | `UptimeExact` | 2 channels as two peers and as one peer with itself, logs of up to 3 events in 3 seconds, floors 0 and 2 |
| `forwarding` | `ForwardsFetchedOnce`, `NoChannelMissed`, `RoundTrip`, `VolumeReachesClient`, `SomeSignal` | 2 channels of 2 peers, 2 forwards, pages of 1, 1 change meanwhile; codec: any map of 1 or 2 pairs over 6 spellings of 4 peers, indices of 4 values |
| `rpc` | of the store: `ChronologicalIds`, `SeedMatchesReplay`, `PruneOnlyForgets`, `SizePruneExact`; of paging: `NothingSkipped`, `CompleteWhenDone`, `PagingEnds` | 2 channels, 2 balances, 3 row ids, 3 clock values, size limits 0, 2 and one above MaxInt32 (3), 4 requests, server limit 2; Postgres ids |
| `lifecycle` | `UsersBeforeStores`, `ReleasedWhenOver`, `CallsReturn` | 1 caller, 4 calls, any step failing |
| `audit` | `RangeCovers`, `PricesFresh`, `ChannelTxsRecognised`, `BalanceKept`, `SelfPaymentsRecognised` | 4 blocks with 4 different times out of order by up to 3 (buffer 4), heights modulo 16, 2 moves of lnd, pages of 1, 3 attempts per query |
| `reports` | `ForwardsCounted`, `FeesEarnedOnce`, `RecommendationsSound` | 3 channels in every phase or 5 open ones, one with an alias for its height, 4 forwards in pages of 2, 2 moves of lnd, heights modulo 16, 2 callers |

Each also checks its type invariant. That of `rpc` says that a page's ids ascend,
that of `audit` bounds the attempts of a query, that of `reports` says that
only confirmed transactions are in the cache.

Why the bounds are enough for the cases of interest: `rpc` reaches an empty
table after rows were pruned, equal timestamps, an overflowing residual and a
size limit that does not fit the OFFSET, and has windows with fewer rows than a
page, as many and more (SQLite's ids are used
by the monitor's runs and `rpc_sqlite`, and the theorems about the store hold for
both); `monitor` reaches every position of a change relative to the
two lists and the subscription, for two channels in either list order, with a
fault at any call; `forwarding` reaches pages that are full, short and empty, a
cursor that does not move, a channel that closes between the two lists and a
channel recorded after the index was read, more peers than the indices
address, colliding spellings and a mask that ends within a byte.

`audit` and `reports` start from families of worlds, one for each question,
instead of one product of everything: the parts of a call do not share state
but for the window. In `audit`, a minute is 1, an hour 2 and a day 4, so a
window of a few units spans several chunks, seams and both of coingecko's
granularities; the families are all chains with each window and tip (so that
searches wrap, land in the disorder, and end in a range whose end is below its
start), all price backends with each granularity and window, a channel in each
phase with wallets in which an amount is negative, zero, positive and nothing
but its fee, and the payment to ourselves in each state, among payments with
and without destination and with duplicate hashes. Two moves are enough for a
channel to leave one list and enter another between any two reads, which is
how one can be missed. In `reports` the families are channels in every
combination of phases with a log of one more than a page, five open channels
that differ in age, uptime and volume for each metric and multiplier (five
values have a middle one and two halves with middles of their own), and two
callers for each shape of a funding transaction.

The deadlock check is off only where the system may stop (a stopped monitor, an
instance nobody calls, a finished walk).

Runs that TLC must find violated, where the code departs from what a comment
or the API documentation says:

| Run | Property | What TLC shows |
|---|---|---|
| `baseline` | `BaselineCaptured` | a channel that is inactive when the sync runs gets an offline and then an update row, and the analyzer takes an update to imply online |
| `rpc_sqlite` | `NothingSkipped` | on SQLite ids restart after a prune emptied the table, and a client's cursor is then ahead of the new rows |
| `lifecycle_leak` | `NothingStarted` | a subserver start that fails in NewStores leaves the macaroon service running |
| `confirmations` | `ConfirmationsSound` | a channel that confirms after the height was read has zero confirmations, or with one block more nearly 2^32 |

Where the models and properties meet a limit of the code, it is named in the
property rather than hidden in the model:

- Monitor: the sync is done once (`synced` survives the loop's iterations), so
  a change made while the stream is down is not picked up on reconnecting,
  although the comment of `monitorLoop` says that it "retries from the
  beginning". `lost` marks such a channel.
- Life cycle: the instance has one caller, as in `main.go` and in a parent
  process. With two, a Start that has loaded `stopped` and not yet swapped
  `started` can be overtaken by the other's failing Start, or by its Stop, and then
  starts an instance that is marked as stopped; the fields behind the flags are
  not synchronised either.
- `ChannelTxsRecognised`: a channel that leaves the open list after the pending
  one was read, and has not reached the closed list when that is read, is in
  none of the three (`Slipped`), and its funding is reported as a payment. Of a
  channel waiting to close, `getOnChainInfo` adds "all potential close txids", but
  these are the three commitments: the transaction of a cooperative close is
  reported as a receipt until the channel is in the closed list (`CoopWaiting`).
  Without either exception TLC refutes the property.
- `BalanceKept`: a transaction that spends nothing but its fee to an output
  that is not ours has no entry at all (`FeeOnlyToOthers`). A sweep whose fee
  cannot be looked up is reported without it.
- `SelfPaymentsRecognised`: `getCircularPayments` makes allowance for a payment
  in flight, but `ListPayments` does not ask lnd for incomplete payments, so
  one that had not succeeded when payments were read is not recognised. Two
  payments of one hash, one to ourselves and one not, are refused in one order
  only; in the other, the one in the window is circular (two in the window are
  refused as duplicates). A payment whose request is not to us is circular too
  when its first route ends at us.
- `filterOnChain` says unconfirmed transactions are excluded; it gives them the
  current time instead, so they are in every window that reaches the present.
- `PricesFresh`: a single time on the edge of a candle is an empty range to
  Coinbase and Bitfinex, which then ask nothing, and the call fails. An unset
  granularity on Bitfinex becomes the finest one for the window, which that
  backend refuses for short windows. Coinbase has no value in the API.
- `ForwardsCounted`: a forward over a channel that opened after the open list
  was read, or was closing then and not closed yet when the closed list was
  read, is dropped (`Missed`), where the comment of `getRevenueEvents` says
  "Return an error".
- A channel that opened after the height was read (run `confirmations`) or whose
  height is an alias has zero or nearly 2^32 confirmations; in the first case a
  value without volume is 0/0, which no comparison recommends for closing. The
  reports' passing properties hold with such channels in the list.
- `RecommendationsSound`: a negative multiplier is accepted, and the bound on
  the number of outliers does not hold for it. `rpcResponse` sorts with `<`, to
  which NaN is equal to everything: with one such value the others need not be
  in order, so the model allows any order then, and the property asks for one
  only where no value is NaN. Verdicts are reached on the float64 values and
  the answer shows them as float32: two channels with equal values in the answer
  may have different verdicts, and the property orders verdicts only where the
  answered values differ.
- Close reports: a funding transaction of two channels without change has two
  outputs and is not recognised as a batch, so both channels report its whole
  fee. `resolutions.go:84` says that fee calculations do not account for batches;
  no property is about the sum.

## 4. Fairness

- Monitor: `WF(Loop)`: the goroutine keeps running and lnd's and the database's
  calls return. `SF` on the cases of the select of `subscribe` and on the quit
  case of the wait before a retry: Go's select picks at random among the ready
  cases, so a case that is ready again and again is taken in the end, although
  the prune ticker and the events compete with it. Faults are bounded, lnd need
  not change and the clock need not tick.
- Lifecycle: callers inside a call take their next step, and a goroutine
  that was told to end does.
- RPC: a client that was told there is more, or whose call failed, calls again.
  `SF` on the two halves of the handler: a call may fail any number of times but
  not for ever. The monitor's writes are not assumed.

The report calls (`audit`, `reports`) are checked for safety only: a call is a
finite sequence of reads whose number is bounded by the data, and whether it
ends depends on lnd and the price APIs alone.

No fairness is assumed of lnd, of the clock, or of callers outside a call.

## 5. Proofs

Assumptions are the named ASSUMEs of the modules (`HistoryAssumption`,
`StoreAssumption`, `MonitorAssumption`, `WalkAssumption`, `BlockAssumption`,
`PriceAssumption`, `AuditAssumption`, `ReportAssumption` and so on): shapes of
the constants, nothing about behaviour. Some carry a fact of the code or of its
environment: the window does not end before it starts (`WalkAssumption`; the
handler refuses it); block times are out of order by less than
`blockTimeRangeBuffer` (`BlockAssumption`; the consensus rules allow about two
hours, the buffer is a day); a granularity is positive, and an hour is no
longer than a day (`PriceAssumption`); no call lives to see the block height
reach 2^32, and lnd's log is chronological and names only channels that have been
open, with no forward paying out more than it took in (`ReportAssumption`; lnd's
fee is never negative), a channel's height is at most the tip or an alias that the
tip does not reach during the call, and a threshold is a float32, as the request's
field is; the values a float32 can have are some of the integers
(`Float32Assumption`); a transaction pays out no more than it spends
(`CloseAssumption`). TLC evaluates them in the runs.

### The store (`ChannelEventsRPCProofs`)

For any set of peers, channels, balances and limits and for both backends:

- `ScidRoundTrip`: a short channel id survives its storage as a signed integer.
- `TypeCorrect`, `IdsAreChronological`: `Spec => []TypeOK`, `[]ChronologicalIds`.
- `PruningOnlyForgets`, `SizePruningIsExact`: `Spec => PruneOnlyForgets`,
  `SizePruneExact`.
- `SeedsAreExact`: `Spec => []SeedMatchesReplay`.

`ChronologicalIds` is not inductive: a new row must get an id above every
other row and a timestamp at or after every other row's. The inductive
invariant `IInv` is therefore `TypeOK /\ UniqueIds /\ StampedInPast /\
SequenceAhead /\ ChronologicalIds`. `StampedInPast` (no row is later than the
clock) gives the timestamp, `SequenceAhead` (the Postgres sequence is at or
above every id) or SQLite's choice of the largest id gives the id (lemma
`FreshId`). For `PruningOnlyForgets`, both prunes remove a set of rows that is
closed downwards in the common order of ids and timestamps: if the seed
survives, so does everything after it, so the state is unchanged; if not, no
update before it survives either, and the channel has no seed.
`SizePruningIsExact` counts: the number of rows newer than a row falls by one
from each row to the next older one, so exactly the limit of them stay.
`SeedsAreExact` uses that the query's order (timestamp, then id) and the
residual's (id) are the same order, so the residual rows are those after the
seed and its last row decides.

### The monitor (`ChanEventsMonitorProofs`)

`MonitorImplementsStore`, `Spec => ImplementsStore`: every step of the monitor,
of lnd, of the process and of the clock is a step of `ChanEventsStore` or leaves
its variables alone. The invariant `WorkOK` it needs says that the pending work
(`todo`, `queue`, `buffer`) only holds steps and events of known shape, so that a
write of the monitor is a write the store allows. `MonitorTypeCorrect` adds the
control state (`ScalarsOK`) and the store's own invariant, carried over by the
refinement (`StoreInv`).

`StatusFollowsLnd`, `BalanceFollowsLnd`: `Spec => []StatusTracksLnd`,
`[]BalanceTracksLnd`. Both speak of a monitor with nothing left to do; the
inductive `Follows` says what holds in between. For every channel whose last
change was not lost, the last thing still to come about it, wherever that is (an
event in `buffer`, else a task in `queue`, else a step in `todo`, else the
newest row), agrees with lnd, separately for its status and its balance
(`Facets`); a row is only written for a channel that is registered, or whose
registration is still ahead in the same task (`AddedFirst`). The proof has one
lemma per kind of step: lnd's changes append to the buffer, `Receive` and
`NextChannel` move work forward without reordering it, a write turns the last
step into the newest row (ids are chronological), the prunes only forget, and
everything that drops work marks the channels in it as lost.

### The walk (`UptimeWalkProofs`)

`UptimeIsExact`, `Spec => []UptimeExact`, and `WalkTypeCorrect`. A self pair goes
through every event twice, and between the two the copies of a state may be
behind (an earlier event of the same second is applied again), so "the states
are right" is not invariant. The inductive `WalkInv` says instead: when all
sides that have a channel have been through the same events of it, the last one
is what its state shows, and the same for updates and balances
(`OnlineFollows`, `BalanceFollows`); what was gone through is no later, and what
is left no earlier, than `last` (`Merged`); the sums are those of the states; and
the uptime counts the good seconds before `last` (`Counted`). Time is only
added when the next event is later than `last`; then all events up to `last`
have been gone through on both sides, so states and sums are those of the
reference until the next event (`SumsRight`). The sums are `MapThenSumSet`'s:
`SumTakeOut` shows that the order in which it takes a set apart does not
matter, and `SumOfMoved` that taking a channel out of a running sum and putting
it back is exact.

### The calls on channel events

`ForwardingAbilityProofs`, for any page size and any number of channels, peers and
forwards: `ForwardsGatheredOnce` (`Spec => []ForwardsFetchedOnce`; the inductive
`Gathering` says that what was fetched is the beginning of lnd's forwards, which
are only ever appended to, and that while pages are read the cursor is at its end)
and `EveryChannelConsidered` (`Spec => []NoChannelMissed`; by `Listing`, a channel of
the open list that is not yet considered is closed when the closed ones are
about to be listed).

The rest of the call is one inductive invariant, `CallOK`. `WorldOK` and `WindowOK`
say that the channels known to the call stay in the store and that an accepted
window is not reversed; `MapOK` that both channels of every fetched forward over
known channels are considered, so that the map has a pair for it (`PairsOver`), and
that the satoshis of each pair are those of its forwards; `AnswerOK` that the answer
is the encoding of that map. The codec is proved on its own: `EncodeIs` gives the
indices the encoder used, an entry or a bit for each kept pair and no two kept pairs
of the same peers; `DecodeIs` that a decoder finds each pair again, because a packed
index or a bit position determines its two parts (`TwoInOne`). Together they are
`CodecRoundTrips` (`RoundTrip`). `VolumeAlwaysReachesClient` (`VolumeReachesClient`)
follows a forward from lnd to the client, `AnswerHasSignal` (`SomeSignal`) the pair
that passed the node-down guard, with `MinIs` for the rounded threshold, and
`AbilityTypes` is the type invariant. `AbilityAssumption` has three facts of the
program: the default threshold is a fraction, channels are finitely many, and the
store and lnd spell a peer's key in one way (both print the bytes in lower case). A
library caller may spell keys as it likes: `RoundTrip` covers it.

`ChannelEventsRPCProofs` again, for any limits and requests, with the store's writes
and prunes in between: `RPCTypeCorrect`, `NothingIsSkipped` and
`CompleteOnlyWhenDone`. The last two assume `~Sqlite`: on SQLite an id can be used
again after a prune, and run `rpc_sqlite` shows the row that is then skipped. The
inductive `SentInv` adds to `NothingSkipped` that no new row gets an id at or below
the client's cursor, which is what the Postgres sequence guarantees. The rows
of an answer are in id order by the query; the model says so by `InIdOrder`
(the page is a sequence of the selected rows with ascending ids), not by sorting.

### The life cycle (`LifecycleProofs`)

`LifeTypeCorrect`, `UsersStopBeforeStores` and `EverythingReleased`, for an
instance that one caller (`Callers = {p}`) starts and stops, in either mode, with
any number of calls and any failing step. That is how `main.go` and a parent
process use it. The inductive `LifeInv` says which resources are held and which
fields set at every step of Start and Stop.

### The audit (`NodeAuditProofs`)

For any chain, window, request and world:

- `SearchCoversWindow`: `RangeSpec => []RangeCovers`, and `AuditCoversWindow`:
  `Spec => []RangeCovers` for the whole call. `RangeCovers` speaks of a finished
  search only; the inductive `RangeInv` adds what a search under way
  guarantees. `Bracketed`: the block just below `low` is before the target and
  the block just above `high` after it. `Wrapped`: `high` went below zero, `low` is
  still zero, and the next block asked for does not exist, so that only a
  failure, which widens the range to everything, can follow. `StartFound`: the
  block at the start height is a whole buffer before the window. As blocks are
  out of order by less than the buffer, a block of the window is on the
  right side of both bounds. The audit's other steps leave the search's
  variables alone (`StepIsRangeStep`), so the invariant carries over.
- `FeesCountedOnce`: the entries of any transaction that is neither a close nor
  a sweep add up to the wallet's amount.
- `PricesAreFresh`: `Spec => []PricesFresh`. The inductive `PricesCovered` says that
  the points fetched so far and the answers to the queries still to be made
  together are the answers to all queries of the window; `Accepted` that the
  request passed validation. Then the theorem is about `Queries` alone: the
  chunks of a window leave no gap (`ChunksCover`), each backend's answer to a
  range has a point within the granularity before each of its times, also
  across coingecko's change of granularity, and `GetPrice` takes the latest. The
  proof found a case the property had to name: a single time exactly at
  coingecko's breakpoint asks for nothing, as `apiRanges` returns no range,
  and the call fails rather than give a wrong price.
- `ChannelsAreRecognised`: `Spec => []ChannelTxsRecognised`. The property speaks
  of the finished answer; `AuditInv` says what each list leaves behind for the next.
  `TxnsInv`: each transaction in `txns` is what filterOnChain makes of one of
  the wallet's, once. `TrackInv`: a funding transaction in `txns` is in `opened`,
  or the channel is in one of the phases that a list still to be read shows (or
  `Slipped`), and the same for a closing one (or `CoopWaiting`). `ReportInv`: the report is the on chain
  report of `txns`, `opened` and `closings`, and the answer is that followed by
  off chain entries, sorted by rpcReportResponse. Since `opened` and `closings` stay
  as they are after the last list, it remains to find which entries of the answer
  are a given transaction's: `Placed` gives each entry a place of its own through
  the concatenation (`FlattenIs`) and the sort (`ResponseIs`, which only says that it
  is a reordering), and `EntriesAre` says of which types they can be.
- `BalanceIsKept`: `Spec => []BalanceKept`, from the same invariant. The sum over
  the answer's entries of a transaction (`MapThenSumSet`) is that of its at most two
  entries (`SumOfFew`, `ReportedIs`), which is `FeesCountedOnce` for everything but a
  close or a sweep and `EntriesAre` for those.
- `SelfPaymentsAreRecognised`: `Spec => []SelfPaymentsRecognised`. `SelfInv`
  extends `AuditInv` by what paging has gathered. `InvoicesInv`: the pages read so
  far are lnd's invoices up to the offset, in their order, so that the filtered
  list has every settled invoice of the window, and once; an invoice that our
  payment settles between two pages keeps its place and its hash. `PaymentsInv`:
  everything listed is a payment lnd has, the newest is among it once the offset is
  past the older ones (a page leaves out what has not succeeded, so the offset is a
  position in lnd's list and not a count), and the hashes that
  `getCircularPayments` returns are those of payments to ourselves. `OffInv`: the
  answer ends in the off chain report of the two lists. `Laid` then finds each
  invoice's entry in the sorted answer, and says that every other off chain entry
  is of a payment or a forward. The proof found that the property said too much:
  it had every payment with a foreign payment request reported as not circular,
  which fails when its first route ends at us, or another payment of its hash does.
  The property now says that nothing is circular but for such a payment
  (`ToOurselves`).
- `AuditTypes`: `Spec => []TypeOK`. Heights fit their width, also where the search
  wraps (`HeightsFit`, from `RangeInv`); a page's cursor stays within its list, also
  while the payment to ourselves joins it (`Longest`); an amount is
  never negative in any entry of the answer (`Amounts`).

`AuditAssumption` says what these need of lnd: the wallet lists each
transaction once, an amount of 0 comes without a fee, and a funding transaction
of ours moves more than its fee (a channel has a capacity); without the last one
channelOpenEntries' sign test takes our own channel for one opened to us. There is
one invoice for a payment hash, the key lnd stores it under, and the hash is not
empty; without that an invoice could be reported twice.

### The reports (`CloseReportsProofs`)

For any channels, callers, transactions and requests:

- `CacheOnlyConfirmed`: `Spec => [](cache \subseteq confirmed)`. Not inductive
  alone, as the answer of the node is kept between the two locks: `CacheInv` adds
  that a caller about to store a transaction it was told is confirmed
  (`AnswersHold`) is still right, because confirmations are never taken back.
- `EveryForwardCounted`: `Spec => []ForwardsCounted`. The report is made from
  two lists and pages of a log, all read at different times. `CountInv` relates
  them to lnd's state now: what was read is the beginning of the log's window up to
  the cursor, also while forwards are added to the log (`Gathered`; new ones only
  go to the window's end, as the log is chronological); a channel that did not exist or
  was closed when the open list was read stays so (`Listed`), hence a forward is over
  a known channel or over one that `Missed` names; and the answer is the report
  of the events read (`Reported`).
- `RecommendationsAlwaysSound`: `Spec => []RecommendationsSound`. The inductive
  `JudgeInv` says that the answer is made of the insights, one of each channel,
  and they of the report of the events read. What is left is about
  `Recommendations` alone: the sorted values are given by rank, so that a value
  below the lower quartile is one of the first quarter of them (`QuartilesIs`,
  `FewOutliers`: for a multiplier that is not negative the outlier bound is at most
  the lower quartile); both verdicts close everything below some bound
  (`OutliersBelow`); and the answer has every channel once (`VerdictsIs`,
  `ArrangedIs`). The answered values are conversions of those the verdicts were
  reached on (`NarrowedIs`). A conversion to a nearest member of a set is monotone
  and leaves the set's own members alone (`NearestIs`, `NarrowIs`), hence a smaller
  answered value is of a smaller value, and one below or above a threshold, itself
  a float32, is of a value below or above it.
- `FeesNeverEarnedTwice`: `Spec => []FeesEarnedOnce`, a sum over insights of
  sums over pairs of halved sums over forwards. Over one channel, twice the fees
  earned differ from the fees in and out by at most one for each pair
  (`FeesEarnedIs`), as the pairs take the channel's forwards apart
  (`PairsTakeApart`). Over all channels, the fees in are those of different
  forwards, and so are the fees out (`FeesAcross`), and each pair of channels is
  met at most twice (`PairsCountedTwice`).
- `ReportsTypeCorrect`: `Spec => []TypeOK`, from `CacheInv`, `CountInv` and two more:
  `AgeInv`, that heights fit their width, also while blocks are mined and channels
  confirm, and `ChargeInv`, that a call has an opening fee only after it found us to
  be the initiator of a transaction of at most two outputs, and that it is the
  transaction's.

### Facts in common (`CommonProofs`)

Division and remainders, lists given by positions (`InOrderIs`, `ItemsAtIs`), and
sums. `AddUp` is `MapThenSumSet`, which takes a set apart in the order of CHOOSE:
`SumExists` and `SumTakeOut` show that the order does not matter, by
`SubsetInduction`, and the `Over` lemmas that sums are added, compared, split into
parts and renamed as expected. Facts that need induction are proved from the
well-foundedness of the naturals, by a least counterexample (`LeastNatural`), since
the library's induction rules take an operator.

### What is only model-checked

Everything about liveness (`CallsReturn`, `PagingEnds`, the monitor's `CatchesUp`
and `StopTerminates`), which needs fairness and ENABLED. Every invariant of every
passing run has a theorem.

## 6. What is not modelled

- The rounding of float64 in `threshold * window`. The thresholds and windows
  of the instance are such that the rounded product has the exact ceiling.
- `liquidity_floor_sat` in the handler: its default, and its narrowing from uint64
  to int64 (`forwarding_ability.go:100`), by which a floor of 2^63 or more becomes
  negative. The walk takes any integer for a floor. Also `is_sync`, log lines and
  the wording of errors.
- Prunes between the analyzer's reads: seeding, walk and reads are checked
  each on their own, not composed.
- RPC handlers still running when Stop closes the stores.
- In accounting: notes and references of entries, the decimal conversion of an
  amount (`MsatToFiat`), the spelling of txids. In fiat: HTTP and JSON. In fees:
  `btcutil.NewAmount`'s rounding of a float amount.
- In `recommend`: float64 is exact. In the conversion to float32 a value in the
  middle of two may become either, where Go takes the even one.
- Upper outliers and thresholds from above in `recommend` and `dataset`: no
  caller asks for them.
- Connecting to lnd and to the bitcoin node, configuration parsing and
  validation, TLS, CORS, macaroons, REST, frcli (but for decoding), logging and
  version strings, generated code (`frdrpc/*.pb.go`, `db/sqlc`), integration
  tests: input and output, or no behaviour of their own.

## 7. Order of the work, and what could follow

Done, the most important behaviour first: the store with its seeding, the
monitor over it, the walk, the daemon, the paging client, the
ForwardingAbility call with its codec; then the audit (block heights, prices,
accounting, the call over all three) and the reports (recommendations, revenue
and insights, close reports with the chain client).

What could follow: the analyzer's reads composed with a store that prunes.
