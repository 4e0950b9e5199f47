--------------------------- MODULE ChannelReports ---------------------------
(***************************************************************************)
(* RevenueReport, ChannelInsights, OutlierRecommendations and              *)
(* ThresholdRecommendations (frdrpcserver/rpcserver.go): one pipeline that *)
(* reads lnd's open channels, closed channels and forwards, adds up the    *)
(* forwards (revenue), then reads the height and the open channels again   *)
(* (insights) and judges the channels (recommend).  Between any two of     *)
(* these reads blocks arrive, channels open and close, and payments are    *)
(* forwarded.                                                              *)
(***************************************************************************)
EXTENDS Recommendations

CONSTANTS
  Channels,    \* channels
  Now,         \* time.Now(), in the request's units
  Page,        \* maxForwardQueries
  Wrap,        \* 2^32, the range of a block height
  Worlds,      \* lnd's initial states, each with the requests it meets
  MaxMoves     \* bound: steps of lnd during a call

\* The life of a channel; "closing" until its closing transaction confirms.
Phases == {"none", "pending", "open", "closing", "closed"}
Kinds  == {"none", "revenue", "insights", "outlier", "threshold"}

\* What lnd's channel list says of a channel.
ChannelInfo == [phase : Phases, height : Nat, private : BOOLEAN, monitored : Nat, uptime : Nat]

\* What lnd's log says of a forward, which never pays out more than came in (the
\* code takes the difference unsigned).
LogEntry == {f \in [in : Channels, out : Channels, amtIn : Nat, amtOut : Nat, time : Nat] :
               f.amtOut <= f.amtIn}

\* The height in a channel's id is that of a block, or, for a zero-conf channel, an
\* alias that no block has; heights fit their type.  A request's threshold is a
\* float32.  Forwards are logged in the order of time, and only over channels that
\* have been open.
ASSUME ReportAssumption ==
  /\ Page \in Nat \ {0} /\ Wrap \in Nat \ {0} /\ MaxMoves \in Nat /\ Now \in Nat
  /\ IsFiniteSet(Channels)
  /\ \A s \in Worlds : /\ s.chan \in [Channels -> ChannelInfo]
                       /\ \A c \in Channels : \/ s.chan[c].height <= s.tip
                                             \/ s.chan[c].height \in (s.tip + MaxMoves + 2)..(Wrap - 1)
                       /\ s.tip \in Nat /\ s.moves \in 0..MaxMoves
                       /\ s.tip + MaxMoves < Wrap - 1
                       /\ s.req.kind \in Kinds /\ {s.req.start, s.req.end} \subseteq Nat
                       /\ {s.req.mult, s.req.min} \subseteq Int /\ s.req.threshold \in Float32s
                       /\ s.forwards \in Seq(LogEntry)
                       /\ \A i, j \in DOMAIN s.forwards :
                            i < j => s.forwards[i].time <= s.forwards[j].time
                       /\ \A i \in DOMAIN s.forwards : \A c \in {s.forwards[i].in, s.forwards[i].out} :
                            s.forwards[i].time <= Now /\ s.chan[c].phase \notin {"none", "pending"}

VARIABLES
  chan,       \* lnd: its channels, [phase, height, private, monitored, uptime]
  tip,        \*      the best block
  forwards,   \*      the forwarding log, oldest first
  moves,      \* spent bound; a world may begin with some of it spent
  req,        \* the request
  stage,      \* where the call is
  known,      \* channelIDs: the channels found in the lists
  offset,     \* QueryPaginated's offset
  events,     \* the forwards read
  report,     \* the revenue report
  height,     \* the height insights were computed from
  insights,   \* the channel insights
  answer,     \* the response
  seen        \* history: phases when the lists were read, the tip at the last

lndVars    == <<chan, tip, forwards, moves>>
reportVars == <<req, stage, known, offset, events, report, height, insights, answer, seen>>

-----------------------------------------------------------------------------
(* lnd (external).  What happens before the first read is covered by the     *)
(* choice of the initial state.                                              *)

InPhase(p) == {c \in Channels : chan[c].phase = p}

\* A step of lnd, while some call reads.
Moving(reading) == reading /\ moves < MaxMoves /\ moves' = moves + 1

\* A block arrives, and confirms the opening of some channels.
BlockArrives(reading) ==
  /\ Moving(reading)
  /\ tip' = tip + 1
  /\ \E S \in SUBSET InPhase("pending") :
       chan' = [c \in Channels |-> IF c \in S
                THEN [chan[c] EXCEPT !.phase = "open", !.height = tip + 1] ELSE chan[c]]
  /\ UNCHANGED forwards

ChannelCloses(reading) ==
  /\ Moving(reading)
  /\ \E c \in Channels :
       \/ chan[c].phase = "open" /\ chan' = [chan EXCEPT ![c].phase = "closing"]
       \/ chan[c].phase = "closing" /\ chan' = [chan EXCEPT ![c].phase = "closed"]
  /\ UNCHANGED <<tip, forwards>>

\* A payment is forwarded; the log has one second resolution.
Forwarded(reading) ==
  /\ Moving(reading)
  /\ \E in, out \in InPhase("open") :
       forwards' = Append(forwards, [in |-> in, out |-> out, amtIn |-> 5, amtOut |-> 2,
                                     time |-> Now])
  /\ UNCHANGED <<chan, tip>>

-----------------------------------------------------------------------------
(* revenue. *)

Reading == stage \in {"open", "closed", "forwards", "height", "insights"}

\* parseRevenueRequest; channelInsights asks for everything so far.
Start == IF req.kind = "revenue" THEN req.start ELSE 0
End   == IF req.kind = "revenue" /\ req.end # 0 THEN req.end ELSE Now

\* What the request is refused for: recommendations without their common part
\* or with a zero minimum time (errZeroMinMonitored).
Refused == req.kind \in {"outlier", "threshold"} /\ (~req.rec \/ req.min = 0)

CallBegins ==
  /\ stage = "idle" /\ req.kind # "none"
  /\ stage' = IF Refused THEN "failed" ELSE "open"
  /\ UNCHANGED <<lndVars, req, known, offset, events, report, height, insights, answer, seen>>

\* Mutant of ListChannels: public channels only.
ListChannelsPublic ==
  /\ stage = "open"
  /\ known' = {c \in InPhase("open") : ~chan[c].private}
  /\ seen' = [seen EXCEPT !.open = chan]
  /\ stage' = "closed"
  /\ UNCHANGED <<lndVars, req, offset, events, report, height, insights, answer>>

ListChannels ==
  /\ stage = "open"
  /\ known' = InPhase("open")
  /\ seen' = [seen EXCEPT !.open = chan]
  /\ stage' = "closed"
  /\ UNCHANGED <<lndVars, req, offset, events, report, height, insights, answer>>

ClosedChannels ==
  /\ stage = "closed"
  /\ known' = known \cup InPhase("closed")
  /\ seen' = [seen EXCEPT !.closed = chan]
  /\ stage' = "forwards"
  /\ UNCHANGED <<lndVars, req, offset, events, report, height, insights, answer>>

\* getRevenueEvents: the positions of the forwards over known channels; the
\* others are left out.
getRevenueEvents(channelIDs, fwds) ==
  {i \in DOMAIN fwds : {fwds[i].in, fwds[i].out} \subseteq channelIDs}

Fee(f) == f.amtIn - f.amtOut

\* Sums over some of the forwards.
Total(fwds, S, field) == AddUp([i \in S |-> fwds[i][field]])
TotalFees(fwds, S)    == AddUp([i \in S |-> Fee(fwds[i])])

\* Those among evs that came in over one channel and left over another.
Between(fwds, evs, in, out) == {i \in evs : fwds[i].in = in /\ fwds[i].out = out}

\* The record of target with pair, after all addIncoming and addOutgoing.
Revenue(fwds, evs, target, pair) ==
  LET incoming == Between(fwds, evs, target, pair)
      outgoing == Between(fwds, evs, pair, target)
  IN  [amtIn   |-> Total(fwds, incoming, "amtIn"),
       feesIn  |-> TotalFees(fwds, incoming),
       amtOut  |-> Total(fwds, outgoing, "amtOut"),
       feesOut |-> TotalFees(fwds, outgoing)]

\* The channels a channel has forwarded with.
PairsWith(fwds, evs, t) ==
  {p \in Channels : Between(fwds, evs, t, p) \cup Between(fwds, evs, p, t) # {}}

\* getReport: ChannelPairs, target -> pair -> revenue.
getReport(fwds, evs) ==
  [t \in {c \in Channels : PairsWith(fwds, evs, c) # {}} |->
     [p \in PairsWith(fwds, evs, t) |-> Revenue(fwds, evs, t, p)]]

NoPairs == [p \in {} |-> 0]

\* rpcRevenueResponse: the channels asked for, or all that have revenue.
rpcRevenueResponse(targets, r) ==
  [t \in (IF targets = {} THEN DOMAIN r ELSE targets) |->
     IF t \in DOMAIN r THEN r[t] ELSE NoPairs]

\* ForwardingHistory from the offset on, and QueryPaginated over it.
LoggedBefore(time) == Cardinality({i \in DOMAIN forwards : forwards[i].time < time})

InWindow == SubSeq(forwards, LoggedBefore(Start) + 1, LoggedBefore(End + 1))

NextPage == SubSeq(InWindow, offset + 1, Min({offset + Page, Len(InWindow)}))

ForwardingHistory ==
  /\ stage = "forwards"
  /\ events' = events \o NextPage
  /\ IF Len(NextPage) < Page
     THEN LET r == getReport(events', getRevenueEvents(known, events'))
          IN  /\ report' = r
              /\ stage' = IF req.kind = "revenue" THEN "done" ELSE "height"
              /\ answer' = IF req.kind = "revenue" THEN rpcRevenueResponse(req.targets, r)
                           ELSE answer
     ELSE UNCHANGED <<report, stage, answer>>
  /\ offset' = offset + Len(NextPage)
  /\ UNCHANGED <<lndVars, req, known, height, insights, seen>>

-----------------------------------------------------------------------------
(* insights, and what recommend makes of them. *)

CurrentHeight ==
  /\ stage = "height"
  /\ height' = tip
  /\ stage' = "insights"
  /\ UNCHANGED <<lndVars, req, known, offset, events, report, insights, answer, seen>>

\* The channel's pairs, over which its revenue is added up; none without revenue.
PairsOf(r, c) == IF c \in DOMAIN r THEN DOMAIN r[c] ELSE {}

VolumeIncoming(r, c) == AddUp([p \in PairsOf(r, c) |-> r[c][p].amtIn])
VolumeOutgoing(r, c) == AddUp([p \in PairsOf(r, c) |-> r[c][p].amtOut])

\* Mutant of FeesEarned: both channels get the whole fee.
FeesEarnedTwice(r, c) ==
  AddUp([p \in PairsOf(r, c) |-> r[c][p].feesOut + r[c][p].feesIn])

\* Fees are split between the channels of a pair, and rounded down for each pair.
FeesEarned(r, c) ==
  AddUp([p \in PairsOf(r, c) |-> (r[c][p].feesOut + r[c][p].feesIn) \div 2])

\* confirmations: unsigned.
confirmations(h, channelHeight) == (h + 1 - channelHeight) % Wrap

channelInsight(c, h, r) ==
  [chan |-> c, monitored |-> chan[c].monitored, uptime |-> chan[c].uptime,
   conf |-> confirmations(h, chan[c].height), private |-> chan[c].private,
   volIn |-> VolumeIncoming(r, c), volOut |-> VolumeOutgoing(r, c), fees |-> FeesEarned(r, c)]

\* The dataset closeRecommendations judges, and its verdicts.
Data(ins) == DatasetOf(filterChannels(ins, req.min), req.metric)

Multiplier == IF req.mult = 0 THEN DefaultOutlierMultiplier ELSE req.mult

Recs(ins) == IF req.kind = "outlier" THEN OutlierRecs(Data(ins), Multiplier)
             ELSE ThresholdRecs(Data(ins), req.threshold)

\* GetChannels and the answer.  An unknown metric is noticed only now (ErrNoMetric).
OpenChannels ==
  /\ stage = "insights"
  /\ insights' = {channelInsight(c, height, report) : c \in InPhase("open")}
  /\ seen' = [seen EXCEPT !.listed = chan, !.tip = tip]
  /\ IF req.kind # "insights" /\ req.metric \notin Metrics
     THEN stage' = "failed" /\ UNCHANGED answer
     ELSE /\ stage' = "done"
          /\ answer' \in IF req.kind = "insights" THEN {insights'} ELSE rpcResponse(Recs(insights'))
  /\ UNCHANGED <<lndVars, req, known, offset, events, report, height>>

\* A call to lnd fails, or the caller is gone.
CallFails ==
  /\ Reading
  /\ stage' = "failed"
  /\ UNCHANGED <<lndVars, req, known, offset, events, report, height, insights, answer, seen>>

InitReports(s) ==
  /\ chan = s.chan /\ tip = s.tip /\ forwards = s.forwards /\ moves = s.moves
  /\ req = s.req /\ stage = IF s.req.kind = "none" THEN "done" ELSE "idle"
  /\ known = {} /\ offset = 0 /\ events = <<>> /\ report = [t \in {} |-> NoPairs]
  /\ height = 0 /\ insights = {} /\ answer = <<>>
  /\ seen = [open |-> s.chan, closed |-> s.chan, listed |-> s.chan, tip |-> s.tip]

ReportsNext ==
  \/ CallBegins \/ ListChannels \/ ClosedChannels \/ ForwardingHistory
  \/ CurrentHeight \/ OpenChannels \/ CallFails

-----------------------------------------------------------------------------
(* Correctness. *)

Answered(kinds) == stage = "done" /\ req.kind \in kinds

\* A channel in neither list: it opened after the open channels were read, or
\* was closing when they were, and was not closed when the closed ones were.
Missed(c) == /\ seen.open[c].phase \in {"pending", "closing"}
             /\ seen.closed[c].phase # "closed"

\* ForwardsCounted: whatever is forwarded, opened and closed between the pages
\* and the lists, every forward that was read is counted once, for both of its
\* channels, with its whole volume, and one is left out only if one of its
\* channels was Missed (getRevenueEvents "expect[s] all known short channel ids
\* to be provided" and speaks of an error); none is read twice.
ForwardsCounted ==
  Answered({"revenue"}) =>
    \A t \in DOMAIN answer, p \in Channels :
      LET both == {i \in DOMAIN events : ~Missed(events[i].in) /\ ~Missed(events[i].out)}
          in   == Between(events, both, t, p)
          out  == Between(events, both, p, t)
      IN  /\ \A i \in DOMAIN events : events[i] = InWindow[i]
          /\ IF p \in DOMAIN answer[t]
             THEN /\ answer[t][p].amtIn = Total(events, in, "amtIn")
                  /\ answer[t][p].amtOut = Total(events, out, "amtOut")
             ELSE in \cup out = {}

\* FeesEarnedOnce: the fees of all insights never add up to more than the fees
\* of the forwards, and fall short by no more than one for each pair of channels
\* when all their channels are still open (GetChannels splits fees "so that we
\* do not double count").
FeesEarnedOnce ==
  Answered({"insights"}) =>
    LET earned == AddUp([i \in answer |-> i.fees])
        total  == TotalFees(events, DOMAIN events)
        pairs  == {{f.in, f.out} : f \in ToSet(events)}
    IN  /\ earned <= total
        /\ (UNION pairs \subseteq known \cap {i.chan : i \in answer})
             => earned >= total - Cardinality(pairs)

\* ConfirmationsSound: an insight's confirmations are at least one and never more
\* than the channel had when it was listed, so that a value per confirmation is
\* neither undefined nor too small.  GetChannels sees no "need to check whether
\* channel height >= current height", and getConfirmationScaledDataset says that
\* "Channels cannot have zero confirmations"; but the height is read before the
\* channels are.
ConfirmationsSound ==
  \A i \in insights :
    1 <= i.conf /\ i.conf <= seen.tip + 1 - seen.listed[i.chan].height

\* RecommendationsSound: outliers are at most a quarter of the channels that were
\* considered, for every multiplier that is not negative; who is answered with less
\* than a channel that is to be closed is to be closed too; a threshold is met as
\* far as the answer tells, who is answered with less is to be closed and who is
\* answered with more is not; and the answer is in the order of value, unless some
\* value is undefined.  Of two channels answered with the same value one may be to
\* be closed and the other not: they were judged before their values were narrowed.
RecommendationsSound ==
  Answered({"outlier", "threshold"}) =>
    LET closing == {i \in DOMAIN answer : answer[i].close}
    IN  /\ (req.kind = "outlier" /\ Multiplier >= 0) => 4 * Cardinality(closing) <= Len(answer)
        /\ \A i \in closing, j \in DOMAIN answer :
             Less(answer[j].value, answer[i].value) => j \in closing
        /\ req.kind = "threshold" =>
             \A i \in DOMAIN answer :
               /\ i \in closing => AtMost(answer[i].value, req.threshold)
               /\ Less(answer[i].value, req.threshold) => i \in closing
        /\ (\A i \in DOMAIN answer : answer[i].value # NaN) => InValueOrder(answer)
=============================================================================
