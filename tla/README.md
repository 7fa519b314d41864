# A TLA+ verification of dex-aggregator

dex-aggregator is a Go service that reads liquidity pools of several exchanges
from an Ethereum node, keeps them as a graph in memory, and answers quotes over
HTTP: the best route between two tokens, and the closed loops that gain. This
directory models the parts of it that carry protocol or algorithm, checks them
with TLC on small instances, and proves the central properties with TLAPS for
every value of the constants.

## 1. Inventory

How the parts hang together: `main` builds a JSON-RPC **transport**, wraps it
into a worker **pool** (semaphore, **rate limiter**, **circuit breaker**, retry
loop), hands the pool to the **on-chain readers** (through **multicall**), and
the readers, as sources, to the **indexer**. The indexer polls all sources
concurrently, builds an immutable **snapshot**, publishes it in the **holder**
and saves the pools to the **store** (Redis, or memory), from which a restarted
process warm-starts. **HTTP handlers** read the holder and run the **router** or
the **arbitrage finder** over the snapshot; the **websocket hub** computes
prices from it on a ticker and pushes them to clients; the **web client** polls,
quotes and streams.

| Part | Source | State | Operations | What is hard |
|---|---|---|---|---|
| Worker pool | `internal/rpc/pool.go` | semaphore, in-flight, four counters | `Do` | many ways out of a loop that holds a slot; the breaker is asked long before the call goes out |
| Circuit breaker | `internal/rpc/breaker.go` | state, failures, openedAt, probe flag | `Allow`, `Success`, `Failure` | reports do not say whose call they are; a probe may never report |
| Rate limiter | `internal/rpc/limiter.go` | tokens, last | `Wait`, `reserve` | lazy accrual by concurrent callers, truncated delays, deadlines |
| Indexer | `internal/indexer/indexer.go`, `internal/cache/holder.go` | published snapshot, status, last error | `WarmStart`, `RefreshOnce`, `Run` | partial failure, death between steps, which age the data has |
| Store, start-up | `internal/cache/store.go`, `cmd/aggregator/main.go` | one key with a TTL | `SavePools`, `LoadPools` | shared by siblings, last writer wins |
| Snapshot | `internal/graph/snapshot.go` | immutable | `BuildSnapshot` | the order of tokens and edges decides ties |
| Router | `internal/graph/router.go` | a table per request | `FindBestRoute` | dynamic programming with a rule against revisits |
| Arbitrage finder | `internal/graph/arbitrage.go` | as the router | `FindArbitrage` | map order, deduplication, loops through loops |
| AMM mathematics | `internal/amm`, `internal/dex/pool.go` | none | `SwapV2Into`, `SwapV3Into`, `AmountOut` | rounding, crossing ticks, the end of the tick window |
| Pool simulator | `internal/dex/sim` | a seeded generator | `Pools` | makes tick windows the swap loop must be able to walk |
| Websocket hub | `internal/api/ws.go` | client map, a buffer per client | add, remove, broadcast, closeAll, two loops per client | slow clients, shutdown |
| HTTP API | `internal/api/handlers.go`, `quote.go` | none of its own | quote, health, status | staleness rule, snapshots replaced during a request, demo data |
| On-chain readers | `internal/dex/onchain`, `internal/rpc/multicall.go`, `abi.go` | none between refreshes | batches, two passes | the chain moves between the reads; calls fail one by one |
| Web hooks | `web/src/hooks` | React state | `useQuote`, `useStatus`, `usePriceStream` | answers out of order, aborts, reconnection, disposal |

Transport, configuration, metrics, CORS, CREATE2/keccak and the React components
hold no protocol of their own and are not modelled; see section 7. The hazards,
each at its line and with the property that would catch it, are in
`PROJECT.json`.

What makes each part correct, in a sentence: the pool gives back every slot and
counts every call once, and its breaker shields a provider that is down and
never shuts out one that is up; the limiter never grants more than burst plus
accrual and never makes anyone wait or fail without need; a reader returns what
was on the chain, in the pool it was read from, and one dead pool costs no other;
the indexer never serves older data than it says, nor replaces good data by
none; a swap uses exactly its input, at the liquidity in force, and every
rounding favours the pool; a route or cycle can be executed at the amounts
quoted, and nothing better is overlooked; the hub is held up by nobody; the page
shows answers to what it asks now, never passes demo data for live data, and
recovers from a restart of the service.

## 2. The modules

| Module | Models | State and actions |
|---|---|---|
| `Breaker` | `breaker.go` | The struct's fields, `openedAt` as the ticks of cooldown left. `Allow` is three action formulas (`AllowPass`, `AllowProbe`, `AllowReject`); with `Success` and `Failure` they are atomic, since the code holds one mutex for each body. |
| `Pool` | `pool.go`, extends `Breaker` | One goroutine per caller with a program point. A step is what runs between two points where another goroutine can be observed: the semaphore, the atomic counter, `Allow`, the limiter, the transport's answer with its report, the backoff, and the two deferred functions. |
| `Limiter` | `limiter.go` | Bucket in units (`Unit` to a token, `Rate` per tick), timers and deadlines as ticks left. One turn of `Wait`'s loop is a step. |
| `TokenBucket` | what the limiter promises | A bucket that accrues at every tick; `Limiter` implements it with `level <- Level`. |
| `Indexer` | `indexer.go`, `holder.go`, `store.go`, start-up in `main.go` | A process that boots, warm-starts, polls, publishes, records, saves and waits, and can die anywhere; siblings write the store. The pools of a source are one unit, with the age of their reading. |
| `AmmV2` | `amm/v2.go`, orientation in `dex/pool.go` | Pure operators. |
| `Snapshot` | `graph/snapshot.go` | `BuildSnapshot` as an operator: filter, numbering of tokens, order of edges. |
| `Router` | `router.go`, `arbitrage.go` | One search at a time over one snapshot, one edge per step. What a pool pays is the constant operator `AmountOut`. |
| `Hub` | `ws.go` | The hub's goroutine and two goroutines per connection. One access of the client map, one offer of a tick, one write is a step; a price is known by the version of the snapshot it was computed from. Names of connections are used again when nothing refers to them. |
| `TickMath` | `amm/tickmath.go` | `GetSqrtRatioAtTick`: factors by the bits of the tick, truncated shifts, inversion, rounding up. Width and factors are parameters. |
| `SwapV3` | `amm/v3.go` | One swap at a time; a turn of the loop is a step (`Cross`: to the next tick and over it; `Quoted`: the input ends within a range; `GiveUp`: the window is exhausted). `AskBack` is not code: it offers the output of a quote to the pool it leaves behind, so that round trips can be spoken about. |
| `SimPools` | `sim/source.go`, `PrepareTicks` of `dex/pool.go` | The V3 pools the simulator makes from the tick of a price on; the pools of the `swapv3` run. |
| `Multicall` | `rpc/multicall.go`, `rpc/abi.go` | A batch as a sequence of words: offsets, lengths, success flags, padding; words are numbers below `WordMod`. |
| `Reader` | `onchain/uniswapv3.go`, `sushiswap.go`, extends `Multicall` | A chain of blocks that move on between batches. A step is one batch (`Aggregate`), which sees one block, or the code between two passes; calls run out of gas, requests die, answers come short. |
| `Service` | `main.go`, `store.go`, `quote.go` | An instance that starts, warm-starts from a store shared by live and simulated instances, publishes snapshots and dies; pools as they are encoded in the store; `HandleQuote` over the snapshot it took when it began. |
| `UseQuote` | `useQuote.ts`, extends `Service` | Runs of the effect with debounce timer, abort and one fetch per hop limit; an answer can be late, lost, or die with the instance. |
| `Web` | `useStatus.ts`, `usePriceStream.ts`, `handleStatus` | Polls that overlap, the socket, the retry timer and the series of a pair; a run of the effects is numbered and can be disposed of at any point. |
| `MC...` | | Instances for TLC. `Pool` and `Limiter` are run as they are; `MCPage` runs `UseQuote` and `Web`. |
| `PoolProofs`, `LimiterProofs`, `IndexerProofs`, `HubProofs`, `RouterProofs`, `SwapV3Proofs`, `ReaderProofs`, `ClientProofs` | | Theorems and proofs; `ClientProofs` is about both `Web` and `UseQuote`, whose specification is `QuoteSpec`. |

Definitions whose comment begins with "Mutant" are deliberately wrong variants
of the definition after them; no specification uses them. `PROJECT.json` pairs
each property with the variant that violates it, which shows that the property
speaks about that code.

Variables marked *bookkeeping* do not exist in the code and guard nothing: they
record what a property is about (who took the probe, how many calls began since
the breaker opened, the debt of the bucket, how long the refresh took, the block
of each batch, what the first half of a round trip cost).

How the modules fit together: `Router` takes what a pool pays as the constant
operator `AmountOut`, for which `AmmV2` and `SwapV3` are the two implementations;
`UseQuote` is composed with `Service`, which takes the router as the constant
operator `Route`. `Indexer` and `Service` look at the same process from two
sides: times and failing sources in the one, which pools a snapshot holds in the
other. `Pool` treats the limiter as a
wait that ends or gives up, which `Limiter` justifies; `Reader` treats the pool
as a request that answers or fails.

## 3. The runs

**pool** (`MCPool.cfg`): three callers, two workers, one retry, threshold two,
one caller whose context can end, three calls of `Do`. Two workers and three
callers make a caller wait for a slot; threshold two with one retry lets two
calls, or one call and its retry, open the breaker, and leaves a third to arrive
in the open and half-open states; late reports of either kind occur. Three calls
are at most six reports, enough for closed - open - half-open - open - half-open
- closed. Checks the slot and call accounting in every state
(`SlotsAccounted`, `CallsAccounted`), the breaker (`OpenEpisodeBounded`,
`HalfOpenHasProbe`, `OneProbePerEpisode`), and that calls return
(`EveryCallReturns`). Types and the shape of the breaker are proved
(section 5). Deadlock is not checked: when the calls are used up, the model
stops.

**limiter** (`MCLimiter.cfg`): two callers, a token of 7 units at 2 per tick, so
that delays are truncated, a burst of two, deadlines on either side of the
truncated delay. Checks the refinement of `TokenBucket`, `RateBound`,
`NoTokenWhileTimerRuns`, `RefusedOnlyIfHopeless`, `WaitersProgress`.

**indexer** (`MCIndexer.cfg`): two sources, ages up to 2 with staleness after 1,
TTL 3, siblings that save up to one tick late. Two sources give every
combination of answer, empty answer and failure. Checks that the age of a live
snapshot is honest, that the status describes it, that data never goes back and
survives an outage, and that refreshing never stops.

**router** (`MCRouter.cfg`): 32 snapshots of up to five pools over four tokens
(parallel pools, a triangle, a dead end, empty pools), every pair of tokens,
sizes 0, 3 and 12, up to three hops, and three probe sets for arbitrage. Fees
are in twentieths instead of ten-thousandths, so that small numbers show
rounding. Checks that every table entry is executable in every state of the
search, that answers are, that no path of one or two hops is better, that
reported cycles gain, and that they use no pool twice and no two of them the same
pools.

**hub** (`MCHub.cfg`): two clients, one pair, a buffer of one, two snapshots
that may or may not quote the pair. A buffer of one is full after one tick, so
that lagging takes one slow write; two clients let one leave, lag or be closed
while the other is served. Checks that map and loops agree (`InMapOrTold`), that
whoever lags, leaves or is closed ends with both loops gone (`NoLoopLeaks`), that
a broadcast always ends, and that a connected client comes to see the latest
price although older ticks may follow newer ones at the start (`ShowsLatest`).

**swapv3** (`MCSwapV3.cfg`): 80 pools at a scale where TLC can count:
`Q` is 64 instead of 2^96, a tick is a factor of about 1.11 of the square root
of the price, and `TickMath` computes it with three factors of 15 bits. Pools are
those the simulator makes and pools as a chain has them: the price on a tick,
between two or just come down to one, windows with a gap, on one side, or empty,
fees from none to all. Nineteen inputs in each direction are quoted and the
output is offered back. At this scale every rounding is a visible part of the
amount, which it is not in the 256-bit integers of the code, so that a rounding
in the wrong direction shows. Checks that no step runs past a tick, that input is neither lost nor invented,
that liquidity is the one in force after any number of crossings, that trades
are refused only where the window ends, and that a round trip loses. Deadlock is
not checked: a quote is an end.

**reader** (`MCReader.cfg`): two chains of three blocks with V3 and V2 pools over
three tokens that are deployed, traded, filled and emptied, two fee tiers,
batches of four calls (so that the calls of a pool straddle batches), a window
of one tick on either side, one pool at the edge of the tick range, up to two
calls failing in a batch, of one contract or of two. Checks that results line up
with calls through encoding and decoding (`ResultsLineUp`), that everything returned was on the
chain during the read, in that pool and at that tick (`PoolsWereRead`), and that
a pool that could quote throughout is returned (`LivePoolsAreReturned`).

**page** (`MCPage.cfg`): the hooks of the page. The panel (`UseQuote`) and the status
and stream (`Web`) share no variable and no step of one reads the other, so a
behaviour moves one of the two, in full, while the other stands still; which one
is chosen at the start. Fairness is that of both specifications: the part that
stands still has no step that it would demand.

The panel: from its opening on, one edit to any of
five inputs (invalid, another hop limit, decimals, equal tokens), three
snapshots, one crash, live and simulated instances over one store. One edit
gives two runs of the effect with four fetches in flight, each of which can be
admitted before or after a refresh, answered, lost, or outlive its instance.
Checks that the answers on display belong to the inputs on display
(`ShownMatchesInputs`), that pools of the simulator are labelled as such to the
end, also after a warm start (`DemoDataIsLabelled`), and that the panel stops
loading (`QuoteSettles`). Deadlock is not checked: the panel may be at rest.

Status and stream: two polls in flight, three versions of the status, two runs
of the effects, reconnect attempts counted up to two, points at three times, four kept and
two seeded. Two polls can overtake each other; two runs let the events of a disposed
stream arrive in the life of its successor; times may repeat and go back. Checks
`OneLifeline`, `SeriesAdvances`, and that stream and status recover once the
service stays up (`StreamReconnects`, `StatusSettles`).

Four runs are expected to fail. Each checks one statement of the repository,
and TLC's trace shows how the code departs from it (`findings` in
`PROJECT.json`):

| Run | Statement | What happens |
|---|---|---|
| pool_probe_lost | `breaker.go:87` "A probe is already out." | The probe's context ends in the limiter; `Do` returns without a report, and the breaker rejects everyone for ever. |
| pool_sleeper_slot | `pool.go:123` "a retrying call does not hold a slot while it sleeps" | The slot is taken before the retry loop and given back when `Do` returns; a call sleeps out its backoff with it, and other calls wait for slots that do no work. `SlotsAccounted` counts sleepers accordingly. |
| indexer_stale_ok | `handlers.go:240` on staleness | A warm start stamps old pools with the present time, and health says ok. |
| reader_tick_sign | `onchain_test.go:210` on negative net liquidity | `decodeTick` (`uniswapv3.go:288`) takes the sign-extended word without masking it to 128 bits; a tick that removes liquidity comes out as one that adds a huge amount. |

Smaller departures that the models exhibit, without a run of their own: a late
failure of an older call reopens the breaker while the probe is out
(`breaker.go:125`); sources that answer with nothing count as healthy, and an empty graph
is published (`indexer.go:162`); the best route of three hops can be lost, since
the table keeps one path per token and the rule against revisits discards it
(`router.go:73`); from four hops on, a cycle may use a pool twice
(`router.go:192`).

## 4. Fairness

Safety runs and proofs use `Spec`, with no fairness. `FairSpec` adds only what
the runtime gives. *Pool*: a goroutine inside `Do` goes on (weak fairness of
`Step`): the transport has a timeout, timers fire, and the limiter's wait ends,
for which see the limiter's own `WaitersProgress`; the assumption that each
single caller is served is stronger than that, since waiters are not queued.
Senders blocked on a channel are served first come, first served, which
justifies strong fairness of `Acquire`. *Limiter*: time passes, goroutines run.
*Indexer*: polls end (each has a timeout and a retry limit) and the ticker
fires. *Hub*: goroutines run and writes end by their deadline; the writer's
select picks each ready case sooner or later (Go chooses at random), hence a
fairness condition of its own for seeing `done`; a reader whose connection was
closed gets an error. Nothing forces a client to connect or a peer to leave.
*UseQuote*: timers fire, handlers only compute, and the browser gives up on a dead
connection; it is one weak fairness condition for the panel's whole flow, enough
because every step of the flow brings some request nearer its end. *Web*: the
interval goes on, and the browser ends fetches and handshakes, fires timers and
reports closed connections; nothing is assumed of the service, and the two
liveness properties say what follows if it stays up. *SwapV3*, *Reader* and
*Router* have safety properties only.
Nothing forces a caller to call, a context to end, a process to start or
die, or a sibling to write.

## 5. Proofs

Assumptions on the constants are named in the modules that declare them
(`BreakerAssumption`, `PoolAssumption`, `LimiterAssumption`,
`IndexerAssumption`, `RouterAssumption`, `HubAssumption`, `SwapAssumption`,
`RatioAssumption`, `WebAssumption`), as weak as the constructors make them; TLC
evaluates them in every run. `RatioAssumption` says that the price of a tick grows
with the tick, over the ticks of a window; in the run it is `TickMath` that has
to satisfy it. `AddressAssumption` says that an address belongs to a live pool or to a
simulated one, never to both, `RouteAssumption` that a route goes over pools of the
snapshot it was found in. For the readers, `ReaderAssumption` gives the tokens and the
batch size their types, `FeeAssumption` says that no fee tier is listed twice
(`addresses.go:40`), `WordAssumption` that the signed types fit a word (true of
int24, int128 and 256 bits) and `ChainAssumption` that the contracts keep values of
their declared types; nothing is assumed of which contracts are deployed, how blocks
differ, how many ticks a window has or how long its strides are.

Two theorems about the router have a hypothesis about what pools pay, which is not
an assumption of the module because not every pool meets it: `PaysMoreForMore` and
`RoundTripsLose`. `ConstantProductPoolsPay` proves both for constant product pools,
with the truncation of the code, for all reserves and fees; TLC evaluates both on the
pools of the router run (`PoolAssumption` of `MCRouter`). A V3 pool that runs out of
its window answers nothing to an input that is too large, and so does not pay more
for more; that a round trip through it does not gain is `RoundTripsNeverGain`.

*PoolProofs.* `SlotsAccounted` and `CallsAccounted` equate a counter with the
cardinality of a set of callers, so the lemmas at the start say what a change of
one program point does to such a set. The probe needs two facts at once: the
four fields of the breaker fit together (`BreakerShape`), and the recorded
prober is at the limiter or in its call. `OpenEpisodeBounded` is not inductive:
the bound holds because a call that begins while the breaker is open was admitted
before it opened, and the caller whose failure opened it is not among these.
The invariant therefore adds that `lateStarts` plus the callers still between
`Allow` and the transport are fewer than the slots.

*LimiterProofs.* `RateBound` follows from `debt + Level <= Capacity`, preserved
because a grant moves `Unit` from one to the other and a tick moves at most
`Rate` back. `NoTokenWhileTimerRuns` needs to know how much is missing when a
timer has n ticks to run: with n at least the millisecond the caller sleeps at
the least, `Level + Rate * n` is no more than a token. The refinement is proved step by step: a
look at the bucket does not change `Level`, a grant is `Take`, a tick is
`Accrue`.

*IndexerProofs.* Honest ages need the invariant that a reading of the refresh
under way is no older than the refresh. `DataNeverRegresses` is proved from it
and from what is known of the age of the published data while a refresh runs:
whatever was published before it began is at least as old as the refresh.

*HubProofs.* `InMapOrTold` is nearly inductive; it needs in addition that a
connection name is free for both loops or for none. Ticks do not enter into it. The
queues have an invariant of their own (`QueueInv`). That a queue is in the order of the
snapshots needs that the ticks of one broadcast are of one snapshot and that nothing
queued is of a later one (`OneSnapshot`, `QueuedBefore`); that the tick to offer exists,
that no more is left for a target than the broadcast has (`LeftOfTicks`), also for a
target that leaves in the meantime. The prices come from a recursive function; as in the
other modules its values are reached from the least number at which they could fail.
`SlowClientsAreCut` is the safety behind `NoLoopLeaks`: a client that misses a tick is
closed in that step; until its writer notices, it may be sent later ticks.
TLC has gone through `QueueInv` with two clients, two
pairs, a buffer of two and two snapshots (1.7 million states).

*RouterProofs.* But for the two hypotheses above, nothing is assumed of a pool but
that it pays an amount, so the results hold for constant product and concentrated liquidity alike. That an entry
of the table is never overwritten once another has been computed from it needs
that the rows of later rounds are empty. That a route is a simple path rests on
an invariant about walking back (`GoodPaths`): from every entry there is a path
to the source, every entry on it is there, and, in the mode that wants it, no
token comes twice; an edge that is taken extends a path of the row before by a
token that `MayVisit` has excluded from it. `bestRoundFor` needs that a set of
rounds that is not empty has a best one, which comes from the well-foundedness
of the natural numbers. What `FindArbitrage` reports is what it found, in another
order, so `CyclesGain` follows from the same fact about the cycles found, and
`ReportedOnce` from the invariant that no two cycles found have the same key, since the
key of a cycle determines its pools. `BestOfTwoHops` says more than the table does at any
one moment: the invariant (`BestSoFar`) speaks of the edges a round has gone through,
that each was offered the entry of the round before and left no less in its place;
the best first hop into a token is followed by the best second one only because more
in gives more out, which is where `PaysMoreForMore` comes in. A loop of up to three
hops that uses a pool twice uses it there and back, with at most one token in
between, so that `RoundTripsLose` and the requirement that a cycle gains exclude it;
with four hops this no longer follows, and it is false.

*SwapV3Proofs.* For every scale of prices, every fee and every pool that fits
together. The roundings enter through lemmas about floor and ceiling of a
quotient: a price that is rounded up on the way down, or down on the way up, still
lies between the old price and the target, because the input of the step is less than
what reaching the target would take. From this `NeverOvershoots` follows once it
is known that the tick chosen is the nearest in the direction of the trade.
`RefusedOnlyAtWindowEnd` needs the invariant that the ticks crossed and the
ticks still ahead are no more than the window has, so the loop's bound is reached
only when none is ahead. `LiquidityIsInForce` compares the liquidity the loop has
kept with the sum over the window up to the current tick. The sum is a recursive
function; that it exists, and that it grows by the net of one tick when the swap
crosses one, is proved by taking the least counterexample. It needs the ticks of a window to be
strictly increasing, as `windowTicks` and the simulator make them: of two entries at
one tick the loop would count one.

`RoundTripLoses` compares what two swaps add up over any number of ranges, with every
amount and price rounded. It is proved range by range, in integers. The invariant
(`TripInv`) says that there is a trail of the way out: for every range it went through,
the price and the liquidity it came in with, and what it took and paid there. On the way
back, the swap enters each range where the way out left it, with the same liquidity;
what is still to be sold is no more than the way out had paid up to here, and what has
been bought back no more than it took from here on. Returning through a whole range takes at least what that
range paid, because the way out rounds its output down and the way back its input up
(`BackTakesMore`), and pays no more than the range took (`BackPaysLess`). An input no
larger than what was paid in the first range cannot bring the price past where the trip
began (`BackStopsAtStart`, `BackStopsBeforeStart`), so the trail is never used up before
the input is. The fee only takes away from what is spent. TLC has checked `TripInv`, with
the trail as a history variable, on trips that cross two ticks and more each way.

*ReaderProofs.* The longest argument. Its first half is the codec: a batch is one flat
list of words with offsets into itself, so both directions rest on what `FlattenSeq`
makes of a list of lists, where each part begins and that the parts are found there
again. `FlattenSeq` is recursive; its equations come from the least length at which they
could fail. From them, the contract finds the calls that were encoded (`CallsUndo`), and
an answer that decodes at all, cut short or not, decodes to what the contract encoded
(`DecodeUndoes`); the length checks of the decoder are what makes the second true of a
cut answer. A batch therefore appends the answers to its own calls, and
`ResultsLineUp` follows for every cut into batches. The second half is the read.
`PoolsWereRead` relates the results of two passes made at different blocks, and is not
inductive: `ReadInv` adds that the blocks of the results go up (`InOrder`), that the
calls of a pass are those its index arithmetic presumes (`PassesAsk`: three to a
candidate, or a window to a pool), and what the first pass knew of the pools it found
(`FoundWereRead`, `AllFound`): their price and tick of one block, their liquidity of
that block or a later one, no pool missing that could quote all along. That the running
cursor of the second pass points at a pool's own ticks is a lemma about the lengths of
the windows before it; that a tick is asked for and given back at its own index, that
`encodeInt24` and `decodeInt24` are inverse on every int24 (`TickTravels`). Pools,
candidates and ticks are lists in ascending order, and `AscendingFacts` says what such a
list contains. `LivePoolsAreReturned` speaks of the candidates that are probed;
`EveryPairIsSearched` adds that they are all there are, since `pairsOf` lists every pair
(`PairsListed`) and `candidates` every fee tier with it. `NoPoolTwice` needs the
converse, that no place of the list repeats another: each place belongs to one place of
one row (`PlacesCover`), and rows differ because tokens and fee tiers do.

*ClientProofs, the panel.* `ShownMatchesInputs` is not inductive: what is shown may have come
from any run of the effect, and an answer from any time. `PanelInv` adds that a run
that may still show something is the newest one and was begun with the inputs on
display, and that a fetch holds, if anything, an answer to its own run's inputs at its
own hop limit.
`DemoDataIsLabelled` needs the same of the flags: every answer on its way, from
whatever snapshot and instance, is labelled if a simulated pool is on its route. That
the flag survives the store, and an instance that warm-starts from pools of another
kind, is a lemma about `DecodePool(EncodePool(p))`.

*ClientProofs, the chart.* `OneLifeline` is inductive together with the types of the stream
(`StreamInv`); it speaks of every run, begun or not, and of the status, because
an event of a disposed run must change nothing. `SeriesAdvances` comes from
lemmas about taking in a point: replace the last, drop, or append and trim.

Proved by TLAPS are the listed theorems, for any number of callers, sources,
workers, clients, edits and runs, any rate, burst, threshold and time limits, any graph
and hop limit (three where it is said), any scale of prices, any tokens, batch size and
history of the chain. They include every invariant and every action property of the
passing runs and the refinement of the limiter; the temporal properties under fairness
are only model-checked (fairness and ENABLED are outside the prover).
The sign of a tick that takes liquidity away is what `reader_tick_sign`
refutes, so `PoolsWereRead` and its proof leave that number open.

## 6. Bounds

`MaxCalls` bounds the calls in one behaviour of the pool; `MaxAge` stops ages
where the model no longer tells them apart (every comparison is with
`StaleAfter < MaxAge`, or between ages that grow together); `SaveLag` bounds how
late a sibling saves; `elapsed` of the limiter stops where the bucket is full;
`MaxVersion` bounds the snapshots the hub sees;
`MaxAmount`, `MaxHops`, `Sizes`, `ProbeSets` bound the router's inputs; `Inputs`
and `Pools` those of the V3 swap; `Chains` is the histories the readers may meet
and `MaxFailed` the calls that fail in one batch, with the contracts that lost calls to
earlier ones (any number in the proofs); `MaxGen` and
`MaxCrashes` bound the snapshots and deaths of the service, `MaxEdits` the edits
of the panel, `Amounts` the numbers in stored pools (with two edits over three of
the inputs the properties of the panel hold as well, in three times the
states); `Slots` is the polls in flight, `Times` the clock of the service,
`MaxRuns` the runs of the effects, `AttemptCap` where the count of attempts stops
mattering.

## 7. Not modelled, and why

Transport: one HTTP request, modelled as a call that answers or fails.
Configuration, metrics, routing and CORS: no protocol state. Keccak and CREATE2:
bit-level functions with test vectors; an address is the tuple it is derived
from. The simulator up to the tick of a price: floating point demonstration
data. React components and formatting: rendering; an edit of the panel, the
render and the effect that follows are one step. Of the checks of `handleQuote`
(`quote.go:73`), those that the panel cannot fail. The endpoints that list pools,
tokens and opportunities, and the slippage of a quote: they render what other
parts computed. Of `parseAmount`, the branch for base units: the panel always
sends a decimal point. `big.Float` precision: an amount is truncated to the
token's decimals. The lengths of backoffs, debounces and intervals: a timer takes
any time. `TickMath` at its own width: 256-bit integers are beyond TLC; the
proofs about swaps do not depend on the width. A window tick beyond
the far end of the range, for which `encodeInt24` would fail the refresh
(`uniswapv3.go:321`): around a tick of the range there is none. `warming` in the status:
`handleStatus` never answers 503, so the page does not meet it.

Limits seen while modelling that no property states: the stride of `windowTicks`
can step over initialised ticks (`uniswapv3.go:248`); the requests for the four hop
limits may be answered from different snapshots (`useQuote.ts:118`); the status
says "live" while a warm-started instance serves simulated pools
(`handlers.go:222`); a client added after the hub's shutdown is not closed by it
(`ws.go:120`); waiters of the limiter are not queued (`limiter.go:69`).

## 8. Plan

Modelled are all parts that section 1 lists, the simulator and the HTTP API in part.
Every invariant and action property of the passing runs is proved. What could follow: a
model of the limiter's waiters as the queue they are not, to say how unfair waiting
may be (`limiter.go:69`); that a V3 pool pays more for more as long as its window lasts,
which would let `BestOfTwoHops` hold for graphs with such pools up to that size.
