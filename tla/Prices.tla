------------------------------- MODULE Prices -------------------------------
(***************************************************************************)
(* Fiat prices (fiat, frdrpcserver/exchange_rate.go): the request's        *)
(* backend and granularity are validated, the window is turned into the    *)
(* queries of that backend, each is tried up to maxRetries times, and a    *)
(* time gets the latest price point not after it.  A price point is known  *)
(* by its time.                                                            *)
(***************************************************************************)
EXTENDS Integers, Sequences, SequencesExt, FiniteSetsExt

CONSTANTS
  Now,            \* time.Now()
  Day,            \* 24 hours
  Granularities,  \* ascendingGranularity: a sequence of [agg, max]
  HourIdx,        \* GranularityHour in it
  DayIdx,         \* GranularityDay in it
  CandleCap,      \* coinbaseCandleCap and bitfinexCandleCap
  GeckoDays,      \* coingecko's hourly prices reach this far back, and a day
  MaxRetries,     \* maxRetries
  Unset           \* no granularity

ASSUME PriceAssumption ==
  /\ {Now, Day, GeckoDays, CandleCap, MaxRetries} \subseteq Nat \ {0}
  /\ Granularities \in Seq([agg : Nat \ {0}, max : Nat \ {0}])
  /\ {HourIdx, DayIdx} \subseteq DOMAIN Granularities
  /\ Granularities[HourIdx].agg <= Day

VARIABLES
  cfg,     \* the price source: [backend, gran, points]
  span,    \* the window prices are fetched for
  todo,    \* queries to make
  tries,   \* failed attempts of the next one
  points   \* the price points fetched

priceVars == <<cfg, span, todo, tries, points>>

Hour == Granularities[HourIdx].agg

-----------------------------------------------------------------------------
(* The request. *)

\* The backends an rpc request can name; Coinbase has no rpc value.
RpcBackends == {"unknown", "coincap", "coindesk", "custom", "coingecko", "bitfinex"}

\* The indices BestGranularity can choose from.
LongEnough(duration) == {i \in DOMAIN Granularities : duration <= Granularities[i].max}

\* granularityFromRPC: what is asked for, or the finest for one query.
granularityFromRPC(g, duration) == IF g # Unset THEN g ELSE Min(LongEnough(duration))

UsesGranularity(backend) == backend \in {"coincap", "coinbase", "bitfinex"}

\* priceCfgFromRPC fails.
BadPriceRequest(backend, g, custom, w) ==
  \/ backend \notin RpcBackends
  \/ custom # {} /\ backend # "custom"
  \/ UsesGranularity(backend) /\ g \notin DOMAIN Granularities \cup {Unset}
  \/ UsesGranularity(backend) /\ g = Unset /\ LongEnough(w.end - w.start) = {}
  \/ backend = "custom" /\ \A p \in custom : p >= w.start

priceCfgFromRPC(backend, g, custom, w) ==
  [backend |-> backend,
   gran    |-> IF UsesGranularity(backend) THEN granularityFromRPC(g, w.end - w.start) ELSE Unset,
   points  |-> custom]

\* validatePriceSourceConfig, called by NewPriceSource.  What the other backends
\* require of the granularity is what priceCfgFromRPC gives them.
ValidConfig(c) ==
  /\ c.backend = "custom" => c.points # {}
  /\ c.backend = "coincap" => c.gran # Unset
  /\ c.backend \in {"coinbase", "bitfinex"} => c.gran \in {HourIdx, DayIdx}
  /\ c.backend \in {"unknown", "coingecko"} => c.gran = Unset
  /\ c.backend = "coindesk" => c.gran \in {Unset, DayIdx}

\* GetPrices: ValidateTimeRange with DisallowFutureRange.
ValidRange(w) == w.start <= w.end /\ w.end <= Now

-----------------------------------------------------------------------------
(* The queries of each backend. *)

Truncate(t, unit) == t - (t % unit)

\* Consecutive ranges of length max that cover [from, end].
Chunks(from, end, max) ==
  [i \in 1..((end - from + max - 1) \div max) |->
     [from |-> from + ((i - 1) * max), to |-> from + (i * max)]]

CutAt(ranges, end) == [i \in DOMAIN ranges |-> [ranges[i] EXCEPT !.to = Min({@, end})]]

\* Mutant of CoinCapQueries: a query starts one granularity after the last one.
CoinCapQueriesGap(w, g) ==
  LET chunks == Chunks(w.start - g.agg, w.end, g.max + g.agg)
  IN  [i \in DOMAIN chunks |-> [chunks[i] EXCEPT !.to = @ - g.agg]]

\* From one granularity before the start; the first query is not cut at the end.
CoinCapQueries(w, g) ==
  LET chunks == Chunks(w.start - g.agg, w.end, g.max)
  IN  SubSeq(chunks, 1, 1) \o CutAt(Tail(chunks), w.end)

CandleQueries(w, g) ==
  CutAt(Chunks(Truncate(w.start, g.agg), w.end, g.agg * CandleCap), w.end)

\* The granularity breakpoint of apiRanges.
Breakpoint == Now - (GeckoDays * Day)

apiRanges(w) ==
  (IF w.start < Breakpoint THEN <<[from |-> w.start, to |-> Min({Breakpoint, w.end})]>> ELSE <<>>)
  \o
  (IF w.end > Breakpoint THEN <<[from |-> Max({Breakpoint, w.start}), to |-> w.end]>> ELSE <<>>)

\* One query, from a day earlier on: today's price is not there yet.
CoinDeskQueries(w) == <<[from |-> w.start - Day, to |-> w.end]>>

Queries(c, w) ==
  CASE c.backend = "coincap"                    -> CoinCapQueries(w, Granularities[c.gran])
    [] c.backend \in {"coinbase", "bitfinex"}   -> CandleQueries(w, Granularities[c.gran])
    [] c.backend = "coingecko"                  -> apiRanges(w)
    [] c.backend = "custom"                     -> <<>>
    [] OTHER                                    -> CoinDeskQueries(w)

\* Points at the multiples of unit in a range, both ends included.
Multiples(unit, from, to) == {t \in (from..to) : t % unit = 0}

\* queryRange: the days to ask coingecko for.
Lag(from) == ((Now - from) \div Day) + 1

\* What the backend answers to a query (external): candles without gaps;
\* coindesk by the day and not today's; coingecko from the candle under way Lag
\* days ago, hourly when that is not too long ago, then cut by queryRange.
Answer(c, q) ==
  CASE UsesGranularity(c.backend) -> Multiples(Granularities[c.gran].agg, q.from, q.to)
    [] c.backend = "coingecko" ->
         LET unit == IF Lag(q.from) <= GeckoDays + 1 THEN Hour ELSE Day
         IN  {t \in Multiples(unit, Truncate(Now - (Lag(q.from) * Day), unit), Now) : t <= q.to}
    [] OTHER -> Multiples(Day, Truncate(q.from, Day), Min({q.to, Truncate(Now, Day) - 1}))

-----------------------------------------------------------------------------
(* GetPrices. *)

InitPrices == /\ cfg = [backend |-> "unknown", gran |-> Unset, points |-> {}]
              /\ span = [start |-> 0, end |-> 0]
              /\ todo = <<>> /\ tries = 0 /\ points = {}

\* rawPriceData begins.
BeginPrices(c, w) ==
  /\ cfg' = c /\ span' = w
  /\ todo' = Queries(c, w)
  /\ tries' = 0
  /\ points' = c.points

\* retryQuery: the attempt succeeds,
QueryOk ==
  /\ points' = points \cup Answer(cfg, Head(todo))
  /\ todo' = Tail(todo)
  /\ tries' = 0
  /\ UNCHANGED <<cfg, span>>

\* Mutant of QueryRetry: as often as it takes.
QueryRetryForever ==
  /\ tries' = tries + 1
  /\ UNCHANGED <<cfg, span, todo, points>>

\* or fails, and is repeated.
QueryRetry ==
  /\ tries + 1 < MaxRetries
  /\ tries' = tries + 1
  /\ UNCHANGED <<cfg, span, todo, points>>

\* Whether GetPrice has an answer, and which.
HasPrice(ps, ts) == \E p \in ps : p <= ts
GetPrice(ps, ts) == Max({p \in ps : p <= ts})

-----------------------------------------------------------------------------
(* Correctness. *)

\* How old the price of a time may be, at the granularity in use.
Age(c, ts) == CASE UsesGranularity(c.backend) -> Granularities[c.gran].agg
                [] c.backend = "coingecko"    -> IF ts > Breakpoint THEN Hour ELSE Day
                [] OTHER                      -> 2 * Day

\* Every time of the window has a price, never a later one, and no older than
\* the backend's granularity; a custom price is the latest not after the time.
\* One time on the edge of a candle is no range for the candle backends, nor is
\* one at coingecko's breakpoint: they ask nothing, and that request fails.
WindowPriced ==
  \/ /\ span.start = span.end /\ points = {}
     /\ \/ cfg.backend \in {"coinbase", "bitfinex"}
        \/ cfg.backend = "coingecko" /\ span.start = Breakpoint
  \/ \A ts \in span.start..span.end :
       /\ HasPrice(points, ts)
       /\ GetPrice(points, ts) <= ts
       /\ IF cfg.backend = "custom"
          THEN \A p \in cfg.points : p <= ts => p <= GetPrice(points, ts)
          ELSE ts - GetPrice(points, ts) < Age(cfg, ts)
=============================================================================
