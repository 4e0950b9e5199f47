------------------------- MODULE CloseReportsProofs -------------------------
(***************************************************************************)
(* What the reports promise, for every number of channels, callers, blocks *)
(* and logged forwards: the state keeps its type, the shared cache of      *)
(* transactions only ever holds confirmed ones, a revenue report counts    *)
(* every forward of its window once, outliers are few and closing one      *)
(* closes all that are answered with less, and the insights claim every    *)
(* fee once.                                                               *)
(*                                                                         *)
(* Five inductive invariants: AgeInv (heights fit), CacheInv (the calls    *)
(* and the cache), CountInv (lists, log and cursor of a revenue report;    *)
(* its steps need AgeInv), ChargeInv (what a call may charge) and          *)
(* JudgeInv (the answers are made from the insights, and those from the    *)
(* report; its steps need AgeInv).                                         *)
(***************************************************************************)
EXTENDS CloseReports, CommonProofs

\* A block height fits its type for as long as lnd moves.
HeightsFit ==
  /\ moves \in 0..MaxMoves /\ tip \in Nat
  /\ tip + MaxMoves - moves < Wrap - 1
  /\ chan \in [Channels -> ChannelInfo]
  /\ \A c \in Channels : chan[c].height < Wrap
  /\ height \in 0..tip

SeenTyped ==
  seen \in [open : [Channels -> ChannelInfo], closed : [Channels -> ChannelInfo],
            listed : [Channels -> ChannelInfo], tip : Nat]

AgeInv == HeightsFit /\ SeenTyped

\* lnd's heights fit at first.
LEMMA AgeInvInit == Init => AgeInv
<1> SUFFICES ASSUME Init PROVE AgeInv
  OBVIOUS
<1>1. PICK s \in Worlds : InitReports(s)
  BY DEF Init
<1>2. /\ chan = s.chan /\ tip = s.tip /\ moves = s.moves /\ height = 0
      /\ seen = [open |-> s.chan, closed |-> s.chan, listed |-> s.chan, tip |-> s.tip]
  BY <1>1 DEF InitReports
<1>3. s \in Worlds /\ s.chan \in [Channels -> ChannelInfo] /\ s.tip \in Nat
      /\ s.moves \in 0..MaxMoves /\ s.tip + MaxMoves < Wrap - 1
      /\ MaxMoves \in Nat /\ Wrap \in Nat
  BY ReportAssumption
<1>4. ASSUME NEW c \in Channels PROVE s.chan[c].height < Wrap
  <2>1. \/ s.chan[c].height <= s.tip
        \/ s.chan[c].height \in (s.tip + MaxMoves + 2)..(Wrap - 1)
    BY ReportAssumption
  <2>2. s.chan[c].height \in Nat
    BY <1>3 DEF ChannelInfo
  <2> QED BY <1>3, <2>1, <2>2
<1>5. HeightsFit
  BY <1>2, <1>3, <1>4 DEF HeightsFit
<1>6. SeenTyped
  BY <1>2, <1>3 DEF SeenTyped
<1> QED
  BY <1>5, <1>6 DEF AgeInv

\* lnd moves: heights grow with the tip, and the bound leaves room for them.
LEMMA LndMovesFit ==
  ASSUME AgeInv, LndMoves
  PROVE  HeightsFit'
<1>1. HeightsFit /\ UNCHANGED height
  BY DEF AgeInv, LndMoves, reportVars
<1>2. CASE BlockArrives(Reading)
  <2>1. /\ moves < MaxMoves /\ moves' = moves + 1 /\ tip' = tip + 1
    BY <1>2 DEF BlockArrives, Moving
  <2>2. PICK S \in SUBSET InPhase("pending") :
          chan' = [c \in Channels |-> IF c \in S
                   THEN [chan[c] EXCEPT !.phase = "open", !.height = tip + 1] ELSE chan[c]]
    BY <1>2 DEF BlockArrives
  <2>3. ASSUME NEW c \in Channels
        PROVE  chan'[c] \in ChannelInfo /\ chan'[c].height < Wrap
    <3>1. /\ chan[c] \in ChannelInfo /\ chan[c].height \in Nat /\ chan[c].height < Wrap
          /\ tip \in Nat /\ tip + 1 < Wrap
      BY <1>1, <2>1, ReportAssumption DEF HeightsFit, ChannelInfo
    <3>2. CASE c \in S
      <4>1. chan'[c] = [chan[c] EXCEPT !.phase = "open", !.height = tip + 1]
        BY <2>2, <3>2
      <4>2. chan'[c] = [phase |-> "open", height |-> tip + 1, private |-> chan[c].private,
                        monitored |-> chan[c].monitored, uptime |-> chan[c].uptime]
        BY <3>1, <4>1 DEF ChannelInfo
      <4>3. /\ "open" \in Phases /\ tip + 1 \in Nat /\ chan[c].private \in BOOLEAN
            /\ chan[c].monitored \in Nat /\ chan[c].uptime \in Nat
        BY <3>1 DEF ChannelInfo, Phases
      <4>4. chan'[c] \in ChannelInfo
        BY <4>2, <4>3 DEF ChannelInfo
      <4> QED
        BY <3>1, <4>2, <4>4
    <3>3. CASE c \notin S
      <4>1. chan'[c] = chan[c]
        BY <2>2, <3>3
      <4> QED
        BY <3>1, <4>1
    <3> QED
      BY <3>2, <3>3
  <2>4. chan' \in [Channels -> ChannelInfo]
    BY <2>2, <2>3
  <2> QED
    BY <1>1, <2>1, <2>3, <2>4, ReportAssumption DEF HeightsFit
<1>3. CASE Forwarded(LogUnread)
  BY <1>1, <1>3, ReportAssumption DEF Forwarded, Moving, HeightsFit
<1>4. CASE ChannelCloses(SomeoneReads)
  <2>1. /\ moves < MaxMoves /\ moves' = moves + 1 /\ tip' = tip
    BY <1>4 DEF ChannelCloses, Moving
  <2>2. PICK c \in Channels : \E p \in Phases : chan' = [chan EXCEPT ![c].phase = p]
    BY <1>4 DEF ChannelCloses, Phases
  <2>3. chan' \in [Channels -> ChannelInfo] /\ \A d \in Channels : chan'[d].height < Wrap
    BY <1>1, <2>2 DEF HeightsFit, ChannelInfo
  <2> QED
    BY <1>1, <2>1, <2>3, ReportAssumption DEF HeightsFit
<1> QED
  BY <1>2, <1>3, <1>4 DEF LndMoves

\* A step that changes none of what the properties read.
LEMMA AgeInvFrame ==
  ASSUME AgeInv, UNCHANGED <<chan, tip, moves, height, seen>>
  PROVE  AgeInv'
BY DEF AgeInv, HeightsFit, SeenTyped

\* The steps of a report call read heights, and remember what they saw.
LEMMA ReportStepsSound ==
  ASSUME AgeInv, ReportsNext
  PROVE  AgeInv'
<1>1. HeightsFit /\ SeenTyped
  BY DEF AgeInv
<1>2. UNCHANGED <<chan, tip, moves>> /\ height' \in {height, tip}
  BY DEF ReportsNext, CallBegins, ListChannels, ClosedChannels, ForwardingHistory,
     CurrentHeight, OpenChannels, CallFails, lndVars
<1>3. \/ UNCHANGED seen
      \/ seen' = [seen EXCEPT !.open = chan]
      \/ seen' = [seen EXCEPT !.closed = chan]
      \/ seen' = [seen EXCEPT !.listed = chan, !.tip = tip]
  BY DEF ReportsNext, CallBegins, ListChannels, ClosedChannels, ForwardingHistory,
     CurrentHeight, OpenChannels, CallFails
<1>4. HeightsFit'
  BY <1>1, <1>2 DEF HeightsFit
<1>5. SeenTyped'
  BY <1>1, <1>3 DEF HeightsFit, SeenTyped
<1> QED BY <1>4, <1>5 DEF AgeInv

\* Every step keeps the heights within their type.
LEMMA AgeInvNext == AgeInv /\ [Next]_vars => AgeInv'
<1> SUFFICES ASSUME AgeInv, [Next]_vars PROVE AgeInv'
  OBVIOUS
<1>1. CASE LndMoves
  <2>1. HeightsFit'
    BY <1>1, LndMovesFit
  <2>2. UNCHANGED seen
    BY <1>1 DEF LndMoves, reportVars
  <2> QED
    BY <2>1, <2>2 DEF AgeInv, SeenTyped
<1>2. CASE ReportsNext
  BY <1>2, ReportStepsSound
<1>3. CASE UNCHANGED <<lndVars, reportVars>>
  BY <1>3, AgeInvFrame DEF lndVars, reportVars
<1>4. ASSUME NEW k \in Callers, CloseReport(k) PROVE UNCHANGED <<lndVars, reportVars>>
  BY <1>4 DEF CloseReport, FindClosed, NotClosed, CacheHit, CacheMiss, NodeAnswers, Store,
     LookupFails, FundingRead, WalletFails, NextLookup, FeesKnown, Goto
<1>5. Confirms \/ Finished \/ UNCHANGED vars => UNCHANGED <<lndVars, reportVars>>
  BY DEF Confirms, Finished, vars
<1> QED
  BY <1>1, <1>2, <1>3, <1>4, <1>5 DEF Next

-----------------------------------------------------------------------------
(* The cache.  Between a node's answer and the moment it is stored other      *)
(* callers read and store, and transactions confirm; an answer that says      *)
(* confirmed stays true.                                                      *)

Fields == {"chan", "stage", "lookups", "tx", "result"}

CallsTyped == /\ call = [k \in Callers |-> call[k]]
              /\ \A k \in Callers : DOMAIN call[k] = Fields

\* An answer about to be stored is about a confirmed transaction.
AnswersHold ==
  \A k \in Callers : (call[k].stage = "store" /\ call[k].tx = TRUE)
                       => Head(call[k].lookups) \in confirmed

CacheInv == CallsTyped /\ AnswersHold /\ cache \subseteq confirmed

\* A caller that moves, and not to "store", changes nothing for the others.
LEMMA OneCallerMoves ==
  ASSUME CacheInv, NEW k \in Callers, NEW r,
         call' = [call EXCEPT ![k] = r], DOMAIN r = Fields,
         r.stage = "store" /\ r.tx = TRUE => Head(r.lookups) \in confirmed',
         confirmed \subseteq confirmed', cache' \subseteq confirmed'
  PROVE  CacheInv'
<1>1. CallsTyped /\ AnswersHold
  BY DEF CacheInv
<1>2. \A j \in Callers : call'[j] = IF j = k THEN r ELSE call[j]
  BY <1>1 DEF CallsTyped
<1>3. CallsTyped'
  <2>1. call' = [j \in Callers |-> call'[j]]
    BY <1>1 DEF CallsTyped
  <2> QED
    BY <1>1, <1>2, <2>1 DEF CallsTyped
<1>4. AnswersHold'
  BY <1>1, <1>2 DEF AnswersHold
<1> QED
  BY <1>3, <1>4 DEF CacheInv

\* In particular one that only changes some of its fields.
LEMMA CallerNotStoring ==
  ASSUME CacheInv, NEW k \in Callers, NEW r,
         call' = [call EXCEPT ![k] = r], DOMAIN r = Fields, r.stage # "store",
         UNCHANGED <<confirmed, cache>>
  PROVE  CacheInv'
BY OneCallerMoves DEF CacheInv

\* Every step of GetTxDetail keeps the cache confirmed.
LEMMA CacheInvCall ==
  ASSUME CacheInv, NEW k \in Callers, CloseReport(k)
  PROVE  CacheInv'
<1>1. DOMAIN call[k] = Fields /\ cache \subseteq confirmed
  BY DEF CacheInv, CallsTyped
<1>2. ASSUME NEW st, Goto(k, st), st # "store" PROVE CacheInv'
  <2>1. /\ call' = [call EXCEPT ![k] = [call[k] EXCEPT !.stage = st]]
        /\ UNCHANGED <<confirmed, cache>>
    BY <1>2 DEF Goto, chainVars
  <2>2. /\ DOMAIN [call[k] EXCEPT !.stage = st] = Fields
        /\ [call[k] EXCEPT !.stage = st].stage = st
    BY <1>1 DEF Fields
  <2> QED
    BY <1>2, <2>1, <2>2, CallerNotStoring
<1>3. CASE NotClosed(k) \/ CacheMiss(k) \/ LookupFails(k) \/ WalletFails(k)
  BY <1>2, <1>3 DEF NotClosed, CacheMiss, LookupFails, WalletFails
<1>4. CASE CacheHit(k)
  BY <1>2, <1>4 DEF CacheHit, Goto
<1>5. CASE FindClosed(k)
  <2> DEFINE r == [call[k] EXCEPT !.stage = "lookup", !.lookups = <<ChannelOf(k).txid>>]
  <2>1. call' = [call EXCEPT ![k] = r] /\ UNCHANGED <<confirmed, cache>>
    BY <1>5 DEF FindClosed, chainVars
  <2>2. DOMAIN r = Fields /\ r.stage = "lookup"
    BY <1>1 DEF Fields
  <2> QED
    BY <2>1, <2>2, CallerNotStoring
<1>6. CASE NodeAnswers(k)
  <2> DEFINE r == [call[k] EXCEPT !.stage = "store", !.tx = Wanted(k) \in confirmed]
  <2>1. call' = [call EXCEPT ![k] = r] /\ UNCHANGED <<confirmed, cache>>
    BY <1>6 DEF NodeAnswers, chainVars
  <2>2. DOMAIN r = Fields /\ r.lookups = call[k].lookups /\ r.tx = (Wanted(k) \in confirmed)
    BY <1>1 DEF Fields
  <2>3. r.tx = TRUE => Head(r.lookups) \in confirmed
    BY <2>2 DEF Wanted
  <2> QED
    BY <1>1, <2>1, <2>2, <2>3, OneCallerMoves
<1>7. CASE Store(k)
  <2> DEFINE r == [call[k] EXCEPT !.stage = "got"]
  <2>1. call' = [call EXCEPT ![k] = r] /\ UNCHANGED confirmed
    BY <1>7 DEF Store, chainVars
  <2>2. DOMAIN r = Fields /\ r.stage = "got"
    BY <1>1 DEF Fields
  <2>3. cache' \subseteq confirmed
    <3>1. call[k].stage = "store" /\ cache' = IF call[k].tx THEN cache \cup {Wanted(k)} ELSE cache
      BY <1>7 DEF Store, Called
    <3>2. CASE call[k].tx = TRUE
      <4>1. Wanted(k) \in confirmed
        BY <3>1, <3>2 DEF CacheInv, AnswersHold, Wanted
      <4> QED
        BY <1>1, <3>1, <3>2, <4>1
    <3>3. CASE call[k].tx = FALSE
      BY <1>1, <3>1, <3>3
    <3> QED
      BY <3>2, <3>3, <1>1, <3>1
  <2> QED
    BY <2>1, <2>2, <2>3, OneCallerMoves
<1>8. CASE FundingRead(k)
  <2>1. UNCHANGED <<confirmed, cache>>
    BY <1>8 DEF FundingRead, chainVars
  <2>3. CASE \E s \in {"failed", "done"} : call' = [call EXCEPT ![k].stage = s]
    <3>1. PICK s \in {"failed", "done"} : call' = [call EXCEPT ![k] = [call[k] EXCEPT !.stage = s]]
      BY <2>3
    <3>2. DOMAIN [call[k] EXCEPT !.stage = s] = Fields /\ [call[k] EXCEPT !.stage = s].stage = s
      BY <1>1 DEF Fields
    <3> QED
      BY <2>1, <3>1, <3>2, CallerNotStoring
  <2>4. CASE \E l : call' = [call EXCEPT ![k].stage = "lookup", ![k].result.initiator = TRUE,
                                        ![k].lookups = l]
    <3>1. PICK l : call' = [call EXCEPT ![k] = [call[k] EXCEPT !.stage = "lookup",
                              !.result.initiator = TRUE, !.lookups = l]]
      BY <2>4
    <3> DEFINE r == [call[k] EXCEPT !.stage = "lookup", !.result.initiator = TRUE, !.lookups = l]
    <3>2. DOMAIN r = Fields /\ r.stage = "lookup"
      BY <1>1 DEF Fields
    <3> QED
      BY <2>1, <3>1, <3>2, CallerNotStoring
  <2> QED
    BY <1>8, <2>3, <2>4 DEF FundingRead
<1>9. CASE NextLookup(k)
  <2> DEFINE r == [call[k] EXCEPT !.stage = "lookup", !.lookups = Tail(call[k].lookups)]
  <2>1. call' = [call EXCEPT ![k] = r] /\ UNCHANGED <<confirmed, cache>>
    BY <1>9 DEF NextLookup, chainVars
  <2>2. DOMAIN r = Fields /\ r.stage = "lookup"
    BY <1>1 DEF Fields
  <2> QED
    BY <2>1, <2>2, CallerNotStoring
<1>10. CASE FeesKnown(k)
  <2>1. PICK v : call' = [call EXCEPT ![k].stage = "done", ![k].result = v]
    BY <1>10 DEF FeesKnown
  <2> DEFINE r == [call[k] EXCEPT !.stage = "done", !.result = v]
  <2>2. call' = [call EXCEPT ![k] = r] /\ UNCHANGED <<confirmed, cache>>
    BY <1>10, <2>1 DEF FeesKnown, chainVars
  <2>3. DOMAIN r = Fields /\ r.stage = "done"
    BY <1>1 DEF Fields
  <2> QED
    BY <2>2, <2>3, CallerNotStoring
<1> QED
  BY <1>3, <1>4, <1>5, <1>6, <1>7, <1>8, <1>9, <1>10 DEF CloseReport

\* Steps of others: transactions only ever confirm.
LEMMA CacheInvFrame ==
  ASSUME CacheInv, UNCHANGED <<cache, call>>, confirmed \subseteq confirmed'
  PROVE  CacheInv'
BY DEF CacheInv, CallsTyped, AnswersHold

\* The cache starts empty.
LEMMA CacheInvInit == Init => CacheInv
BY DEF Init, CacheInv, CallsTyped, AnswersHold, Fields

\* Every step keeps the cache confirmed.
LEMMA CacheInvNext == CacheInv /\ [Next]_vars => CacheInv'
<1> SUFFICES ASSUME CacheInv, [Next]_vars PROVE CacheInv'
  OBVIOUS
<1>1. ASSUME NEW k \in Callers, CloseReport(k) PROVE CacheInv'
  BY <1>1, CacheInvCall
<1>2. CASE LndMoves \/ UNCHANGED closeVars \/ Confirms
  BY <1>2, CacheInvFrame DEF LndMoves, closeVars, chainVars, Confirms
<1>3. Finished \/ UNCHANGED vars => UNCHANGED closeVars
  BY DEF Finished, vars
<1> QED
  BY <1>1, <1>2, <1>3 DEF Next

\* Whatever any number of callers look up at the same time, and whenever the
\* transactions confirm, the cache of the bitcoin client only holds confirmed
\* transactions (GetTxDetail: "Do not cache the transaction if it has not
\* confirmed yet").
THEOREM CacheOnlyConfirmed == Spec => [](cache \subseteq confirmed)
<1>1. CacheInv => cache \subseteq confirmed
  BY DEF CacheInv
<1> QED
  BY <1>1, CacheInvInit, CacheInvNext, PTL DEF Spec

-----------------------------------------------------------------------------
(* The forwards a revenue report counts. *)

\* s is the beginning of t.
Begins(s, t) == Len(s) <= Len(t) /\ \A i \in 1..Len(s) : s[i] = t[i]

\* Forwards are logged by now, over channels that have been open.
LogTyped ==
  /\ forwards \in Seq(LogEntry)
  /\ \A i \in DOMAIN forwards : forwards[i].time <= Now
  /\ \A i \in DOMAIN forwards : \A c \in {forwards[i].in, forwards[i].out} :
       chan[c].phase \notin {"none", "pending"}
  /\ {req.start, req.end} \subseteq Nat

\* What was read is the beginning of the log's window, up to the cursor.
Gathered == /\ events \in Seq(LogEntry) /\ offset = Len(events)
            /\ Begins(events, InWindow)

OpenWhenListed   == {c \in Channels : seen.open[c].phase = "open"}
ClosedWhenListed == {c \in Channels : seen.closed[c].phase = "closed"}

\* The lists: a channel that does not exist does not open, and a closed one
\* stays closed.
Listed ==
  /\ \A c \in Channels : seen.open[c].phase \in {"none", "closed"}
                           => chan[c].phase = seen.open[c].phase
  /\ stage = "closed" => known = OpenWhenListed
  /\ stage \in {"forwards", "height", "insights", "done"} /\ req.kind # "none"
       => /\ known = OpenWhenListed \cup ClosedWhenListed
          /\ \A c \in Channels : seen.open[c].phase = "closed" => seen.closed[c].phase = "closed"

\* The answer is the report of the events that were read.
Reported ==
  stage = "done" /\ req.kind = "revenue" =>
    answer = rpcRevenueResponse(req.targets, getReport(events, getRevenueEvents(known, events)))

\* A revenue report ends with the log.
CountInv == /\ LogTyped /\ Gathered /\ Listed /\ Reported /\ known \subseteq Channels
            /\ stage \in {"height", "insights"} => req.kind # "revenue"

\* What appending, cutting and joining sequences makes.
LEMMA AppendIs ==
  ASSUME NEW S, NEW s \in Seq(S), NEW x \in S
  PROVE  /\ Append(s, x) \in Seq(S) /\ Len(s) \in Nat /\ Len(Append(s, x)) = Len(s) + 1
         /\ DOMAIN s = 1..Len(s) /\ DOMAIN Append(s, x) = 1..(Len(s) + 1)
         /\ \A i \in 1..Len(s) : Append(s, x)[i] = s[i]
         /\ Append(s, x)[Len(s) + 1] = x
OBVIOUS

\* A part of a sequence.
LEMMA SubSeqIs ==
  ASSUME NEW S, NEW s \in Seq(S), NEW m \in Nat, NEW n \in Nat, m <= n, n <= Len(s)
  PROVE  /\ SubSeq(s, m + 1, n) \in Seq(S) /\ Len(SubSeq(s, m + 1, n)) = n - m
         /\ \A i \in 1..(n - m) : SubSeq(s, m + 1, n)[i] = s[m + i]
OBVIOUS

\* Two sequences, one behind the other.
LEMMA JoinIs ==
  ASSUME NEW S, NEW s \in Seq(S), NEW t \in Seq(S)
  PROVE  /\ s \o t \in Seq(S) /\ Len(s) \in Nat /\ Len(t) \in Nat
         /\ Len(s \o t) = Len(s) + Len(t)
         /\ \A i \in 1..(Len(s) + Len(t)) :
              (s \o t)[i] = IF i <= Len(s) THEN s[i] ELSE t[i - Len(s)]
OBVIOUS

\* How many forwards are logged before a time, and what one more changes.
LEMMA LoggedBeforeIs ==
  ASSUME forwards \in Seq(LogEntry), NEW t
  PROVE  LoggedBefore(t) \in Nat /\ LoggedBefore(t) <= Len(forwards)
<1> DEFINE B == {i \in DOMAIN forwards : forwards[i].time < t}
<1>1. Len(forwards) \in Nat /\ DOMAIN forwards = 1..Len(forwards)
  OBVIOUS
<1>2. IsFiniteSet(1..Len(forwards)) /\ Cardinality(1..Len(forwards)) = Len(forwards)
  <2>1. PICK n \in Nat : n = Len(forwards)
    BY <1>1
  <2>2. IsFiniteSet(1..n) /\ Cardinality(1..n) = n
    BY ONLY n \in Nat, FS_Interval
  <2> QED BY <2>1, <2>2
<1>3. B \in SUBSET (1..Len(forwards))
  BY <1>1
<1>4. IsFiniteSet(B) /\ Cardinality(B) <= Len(forwards)
  BY <1>2, <1>3, FS_Subset
<1>5. Cardinality(B) \in Nat
  BY <1>4, FS_CardinalityType
<1> QED BY <1>4, <1>5 DEF LoggedBefore

\* A forward that is logged now counts before a later time only, when all do.
LEMMA LoggedBeforeAppend ==
  ASSUME LogTyped, NEW f \in LogEntry, f.time = Now, forwards' = Append(forwards, f),
         NEW t \in Nat
  PROVE  IF t <= Now THEN LoggedBefore(t)' = LoggedBefore(t)
         ELSE LoggedBefore(t) = Len(forwards) /\ LoggedBefore(t)' = Len(forwards) + 1
<1>0. forwards \in Seq(LogEntry) /\ Now \in Nat
  BY ReportAssumption DEF LogTyped
<1>a. /\ Len(forwards) \in Nat /\ DOMAIN forwards = 1..Len(forwards)
      /\ DOMAIN forwards' = 1..(Len(forwards) + 1)
      /\ \A i \in 1..Len(forwards) : forwards'[i] = forwards[i]
      /\ forwards'[Len(forwards) + 1] = f
  BY <1>0, AppendIs
<1>b. \A i \in 1..Len(forwards) : forwards[i].time <= Now /\ forwards[i].time \in Nat
  <2>1. ASSUME NEW i \in 1..Len(forwards)
        PROVE  forwards[i].time <= Now /\ forwards[i].time \in Nat
    <3>1. forwards[i] \in LogEntry
      BY <1>0, <1>a
    <3>2. forwards[i].time <= Now
      BY <1>a DEF LogTyped
    <3> QED BY <3>1, <3>2 DEF LogEntry
  <2> QED BY <2>1
<1>1. /\ Len(forwards) \in Nat /\ Now \in Nat
      /\ DOMAIN forwards = 1..Len(forwards) /\ DOMAIN forwards' = 1..(Len(forwards) + 1)
      /\ \A i \in 1..Len(forwards) : /\ forwards'[i] = forwards[i]
                                     /\ forwards[i].time <= Now /\ forwards[i].time \in Nat
      /\ forwards'[Len(forwards) + 1] = f
  BY <1>0, <1>a, <1>b
<1>2. CASE t <= Now
  <2>1. {i \in DOMAIN forwards' : forwards'[i].time < t} = {i \in DOMAIN forwards : forwards[i].time < t}
    BY <1>1, <1>2
  <2> QED BY <1>2, <2>1 DEF LoggedBefore
<1>3. CASE ~(t <= Now)
  <2>1. {i \in DOMAIN forwards : forwards[i].time < t} = 1..Len(forwards)
    BY <1>1, <1>3
  <2>2. {i \in DOMAIN forwards' : forwards'[i].time < t} = 1..(Len(forwards) + 1)
    BY <1>1, <1>3
  <2>3. /\ Cardinality(1..Len(forwards)) = Len(forwards)
        /\ Cardinality(1..(Len(forwards) + 1)) = Len(forwards) + 1
    <3>1. 1 \in Int /\ Len(forwards) \in Int /\ Len(forwards) + 1 \in Int
      BY <1>1
    <3>2. Cardinality(1..Len(forwards)) = IF 1 > Len(forwards) THEN 0 ELSE Len(forwards) - 1 + 1
      BY <3>1, FS_Interval
    <3>3. Cardinality(1..(Len(forwards) + 1))
            = IF 1 > Len(forwards) + 1 THEN 0 ELSE (Len(forwards) + 1) - 1 + 1
      BY <3>1, FS_Interval
    <3> QED BY <1>1, <3>2, <3>3
  <2>4. LoggedBefore(t) = Len(forwards) /\ LoggedBefore(t)' = Len(forwards) + 1
    BY <2>1, <2>2, <2>3 DEF LoggedBefore
  <2> QED BY <1>3, <2>4
<1> QED BY <1>2, <1>3

\* The window is a part of the log.
LEMMA InWindowIs ==
  ASSUME forwards \in Seq(LogEntry)
  PROVE  /\ InWindow \in Seq(LogEntry) /\ Len(InWindow) <= Len(forwards)
         /\ Len(InWindow) = IF LoggedBefore(Start) < LoggedBefore(End + 1)
                            THEN LoggedBefore(End + 1) - LoggedBefore(Start) ELSE 0
         /\ \A i \in 1..Len(InWindow) : /\ LoggedBefore(Start) + i \in DOMAIN forwards
                                        /\ InWindow[i] = forwards[LoggedBefore(Start) + i]
<1> DEFINE a == LoggedBefore(Start)
           b == LoggedBefore(End + 1)
<1>1. /\ a \in Nat /\ b \in Nat /\ a <= Len(forwards) /\ b <= Len(forwards)
      /\ Len(forwards) \in Nat /\ DOMAIN forwards = 1..Len(forwards)
  BY LoggedBeforeIs
<1>2. InWindow = SubSeq(forwards, a + 1, b)
  BY DEF InWindow
<1> HIDE DEF a, b
<1>3. CASE a < b
  <2>1. /\ InWindow \in Seq(LogEntry) /\ Len(InWindow) = b - a
        /\ \A i \in 1..Len(InWindow) : InWindow[i] = forwards[a + i]
    BY <1>1, <1>2, <1>3
  <2> QED BY <1>1, <1>3, <2>1 DEF a, b
<1>4. CASE ~(a < b)
  <2>1. InWindow = <<>>
    BY <1>1, <1>2, <1>4
  <2> QED BY <1>1, <1>4, <2>1 DEF a, b
<1> QED BY <1>3, <1>4

\* The request's window.
LEMMA WindowTimes == LogTyped => Start \in Nat /\ End \in Nat
BY ReportAssumption DEF LogTyped, Start, End

\* A forward that is logged now is added to the window's end, or not to it.
LEMMA InWindowGrows ==
  ASSUME LogTyped, NEW f \in LogEntry, f.time = Now, forwards' = Append(forwards, f),
         UNCHANGED req
  PROVE  Begins(InWindow, InWindow')
<1>1. /\ Start \in Nat /\ End \in Nat /\ Now \in Nat /\ Start' = Start /\ End' = End
      /\ End + 1 \in Nat
  BY WindowTimes, ReportAssumption DEF Start, End
<1>2. /\ forwards \in Seq(LogEntry) /\ forwards' \in Seq(LogEntry) /\ Len(forwards) \in Nat
      /\ DOMAIN forwards = 1..Len(forwards) /\ Len(forwards') = Len(forwards) + 1
      /\ \A i \in DOMAIN forwards : forwards'[i] = forwards[i]
  <2>1. forwards \in Seq(LogEntry)
    BY DEF LogTyped
  <2> QED BY <2>1, AppendIs
<1> DEFINE a == LoggedBefore(Start)
           b == LoggedBefore(End + 1)
<1>3. PICK c : c = LoggedBefore(Start)'
  OBVIOUS
<1>4. PICK d : d = LoggedBefore(End + 1)'
  OBVIOUS
<1>5. /\ a \in Nat /\ b \in Nat /\ a <= Len(forwards) /\ b <= Len(forwards)
  BY <1>2, LoggedBeforeIs
<1>6. IF Start <= Now THEN c = a ELSE a = Len(forwards) /\ c = Len(forwards) + 1
  BY <1>1, <1>3, LoggedBeforeAppend
<1>7. IF End + 1 <= Now THEN d = b ELSE b = Len(forwards) /\ d = Len(forwards) + 1
  BY <1>1, <1>4, LoggedBeforeAppend
<1>8. /\ Len(InWindow) = IF a < b THEN b - a ELSE 0
      /\ \A i \in 1..Len(InWindow) : a + i \in DOMAIN forwards /\ InWindow[i] = forwards[a + i]
  BY <1>2, InWindowIs
<1>9. PICK w : w = InWindow'
  OBVIOUS
<1>10. w = SubSeq(forwards', c + 1, d)
  BY <1>1, <1>3, <1>4, <1>9 DEF InWindow
<1> HIDE DEF a, b
<1>11. c \in Nat /\ d \in Nat /\ d <= Len(forwards')
  <2>1. c \in {a, Len(forwards) + 1}
    BY <1>6
  <2>2. d \in {b, Len(forwards) + 1}
    BY <1>7
  <2> QED BY <1>2, <1>5, <2>1, <2>2
<1>12. CASE a < b
  <2>1. c = a /\ b <= d
    BY <1>5, <1>6, <1>7, <1>12
  <2>2. Len(w) = d - a /\ \A i \in 1..(d - a) : w[i] = forwards'[a + i]
    <3>1. a <= d
      BY <1>5, <1>11, <1>12, <2>1
    <3>2. forwards' \in Seq(LogEntry) /\ a \in Nat /\ w = SubSeq(forwards', a + 1, d)
      BY <1>2, <1>5, <1>10, <2>1
    <3> QED BY ONLY <1>11, <3>1, <3>2, SubSeqIs
  <2>3. \A i \in 1..(b - a) : w[i] = InWindow[i]
    BY <1>2, <1>5, <1>8, <1>11, <1>12, <2>1, <2>2
  <2> QED BY <1>5, <1>8, <1>9, <1>11, <1>12, <2>1, <2>2, <2>3 DEF Begins
<1>13. CASE ~(a < b)
  <2>1. Len(InWindow) = 0
    BY <1>8, <1>13
  <2>2. Len(w) \in Nat
    BY <1>2, <1>10, <1>11
  <2> QED BY <1>9, <2>1, <2>2 DEF Begins
<1> QED BY <1>12, <1>13

\* A page continues what was read up to the cursor.
LEMMA NextPageIs ==
  ASSUME LogTyped, Gathered
  PROVE  /\ NextPage \in Seq(LogEntry) /\ offset + Len(NextPage) <= Len(InWindow)
         /\ events \o NextPage \in Seq(LogEntry)
         /\ Len(events \o NextPage) = offset + Len(NextPage)
         /\ Begins(events \o NextPage, InWindow)
<1>1. /\ InWindow \in Seq(LogEntry) /\ Len(InWindow) \in Nat /\ Page \in Nat
      /\ events \in Seq(LogEntry) /\ offset = Len(events) /\ Len(events) <= Len(InWindow)
      /\ \A i \in 1..Len(events) : events[i] = InWindow[i]
  BY InWindowIs, ReportAssumption DEF LogTyped, Gathered, Begins
<1> DEFINE hi == Min({offset + Page, Len(InWindow)})
<1>2. hi \in Nat /\ offset <= hi /\ hi <= Len(InWindow)
  <2>1. \E m \in {offset + Page, Len(InWindow)} :
           \A y \in {offset + Page, Len(InWindow)} : m <= y
    BY <1>1
  <2>2. hi \in {offset + Page, Len(InWindow)} /\ \A y \in {offset + Page, Len(InWindow)} : hi <= y
    BY <2>1 DEF Min
  <2> QED BY <1>1, <2>2
<1>3. NextPage = SubSeq(InWindow, offset + 1, hi)
  BY DEF NextPage
<1> HIDE DEF hi
<1> DEFINE n == NextPage
<1>4. n \in Seq(LogEntry) /\ Len(n) = hi - offset /\ \A i \in 1..Len(n) : n[i] = InWindow[offset + i]
  BY <1>1, <1>2, <1>3
<1> HIDE DEF n
<1>5. /\ events \o n \in Seq(LogEntry) /\ Len(events \o n) = offset + Len(n)
      /\ \A i \in 1..Len(events \o n) :
           (events \o n)[i] = IF i <= Len(events) THEN events[i] ELSE n[i - Len(events)]
  <2>1. /\ events \o n \in Seq(LogEntry) /\ Len(events \o n) = Len(events) + Len(n)
        /\ \A i \in 1..(Len(events) + Len(n)) :
             (events \o n)[i] = IF i <= Len(events) THEN events[i] ELSE n[i - Len(events)]
    BY <1>1, <1>4, JoinIs
  <2> QED BY <1>1, <2>1
<1>6. Begins(events \o n, InWindow)
  <2>1. ASSUME NEW i \in 1..Len(events \o n) PROVE (events \o n)[i] = InWindow[i]
    BY <1>1, <1>2, <1>4, <1>5
  <2>2. Len(n) \in Nat /\ Len(events) \in Nat /\ offset \in Nat
    BY <1>1, <1>4
  <2>3. Len(events \o n) <= Len(InWindow)
    BY ONLY <1>1, <1>2, <1>4, <1>5, <2>2
  <2> QED BY ONLY <2>1, <2>3 DEF Begins
<1> QED BY <1>1, <1>2, <1>4, <1>5, <1>6 DEF n

\* No report has been begun.
LEMMA CountInvInit == Init => CountInv
<1> SUFFICES ASSUME Init PROVE CountInv
  OBVIOUS
<1>1. PICK s \in Worlds : InitReports(s)
  BY DEF Init
<1>2. /\ chan = s.chan /\ forwards = s.forwards /\ req = s.req /\ events = <<>> /\ offset = 0
      /\ known = {} /\ stage = IF s.req.kind = "none" THEN "done" ELSE "idle"
      /\ seen.open = s.chan
  BY <1>1 DEF InitReports
<1>3. LogTyped
  BY <1>2, ReportAssumption DEF LogTyped
<1>4. Gathered
  <2>1. Len(InWindow) \in Nat
    BY <1>3, InWindowIs DEF LogTyped
  <2>2. <<>> \in Seq(LogEntry) /\ Len(<<>>) = 0
    OBVIOUS
  <2> QED BY <1>2, <2>1, <2>2 DEF Gathered, Begins
<1> QED BY <1>2, <1>3, <1>4 DEF CountInv, Listed, Reported

\* A beginning of a beginning.
LEMMA BeginsTransitive ==
  ASSUME NEW S, NEW s \in Seq(S), NEW t \in Seq(S), NEW u \in Seq(S), Begins(s, t), Begins(t, u)
  PROVE  Begins(s, u)
<1>1. Len(s) \in Nat /\ Len(t) \in Nat /\ Len(u) \in Nat
  OBVIOUS
<1> QED BY <1>1 DEF Begins

\* What lnd does meanwhile: channels move on in their lives, never back to one
\* that was never open, and the log grows at its end.
LEMMA CountInvLnd ==
  ASSUME CountInv, AgeInv, LndMoves
  PROVE  CountInv'
<1>1. LogTyped /\ Gathered /\ Listed /\ Reported /\ known \subseteq Channels
  BY DEF CountInv
<1>2. UNCHANGED <<req, stage, known, offset, events, answer, seen>>
  BY DEF LndMoves, reportVars
<1>3. chan \in [Channels -> ChannelInfo] /\ forwards \in Seq(LogEntry)
  BY <1>1 DEF AgeInv, HeightsFit, LogTyped
<1>4. /\ \A c \in Channels : /\ chan[c].phase \in {"none", "closed"} => chan'[c].phase = chan[c].phase
                             /\ chan[c].phase \notin {"none", "pending"}
                                  => chan'[c].phase \notin {"none", "pending"}
  <2>1. CASE BlockArrives(Reading)
    <3>1. PICK S \in SUBSET InPhase("pending") :
            chan' = [c \in Channels |-> IF c \in S
                     THEN [chan[c] EXCEPT !.phase = "open", !.height = tip + 1] ELSE chan[c]]
      BY <2>1 DEF BlockArrives
    <3>2. ASSUME NEW c \in Channels, c \in S
          PROVE  chan[c].phase = "pending" /\ chan'[c].phase = "open"
      <4>1. chan[c] \in ChannelInfo /\ chan[c].phase = "pending"
        BY <1>3, <3>2 DEF InPhase
      <4>2. [chan[c] EXCEPT !.phase = "open", !.height = tip + 1].phase = "open"
        BY <4>1 DEF ChannelInfo
      <4> QED BY <3>1, <3>2, <4>1, <4>2
    <3>3. \A c \in Channels \ S : chan'[c] = chan[c]
      BY <3>1
    <3> QED BY <3>2, <3>3
  <2>2. CASE Forwarded(LogUnread)
    BY <2>2 DEF Forwarded
  <2>3. CASE ChannelCloses(SomeoneReads)
    <3>1. PICK d \in Channels :
            \/ chan[d].phase = "open" /\ chan' = [chan EXCEPT ![d].phase = "closing"]
            \/ chan[d].phase = "closing" /\ chan' = [chan EXCEPT ![d].phase = "closed"]
      BY <2>3 DEF ChannelCloses
    <3>2. chan[d] \in ChannelInfo
      BY <1>3
    <3>3. \A c \in Channels \ {d} : chan'[c] = chan[c]
      BY <1>3, <3>1
    <3>4. chan[d].phase \in {"open", "closing"} /\ chan'[d].phase \in {"closing", "closed"}
      BY <1>3, <3>1, <3>2 DEF ChannelInfo
    <3> QED BY <3>3, <3>4
  <2> QED BY <2>1, <2>2, <2>3 DEF LndMoves
<1>5. \/ UNCHANGED forwards
      \/ \E f \in LogEntry : /\ f.time = Now /\ forwards' = Append(forwards, f) /\ UNCHANGED chan
                             /\ {f.in, f.out} \subseteq InPhase("open")
  <2>1. CASE Forwarded(LogUnread)
    <3>1. PICK in \in InPhase("open"), out \in InPhase("open") :
            forwards' = Append(forwards, [in |-> in, out |-> out, amtIn |-> 5, amtOut |-> 2,
                                          time |-> Now])
      BY <2>1 DEF Forwarded
    <3>2. [in |-> in, out |-> out, amtIn |-> 5, amtOut |-> 2, time |-> Now] \in LogEntry
      BY ReportAssumption DEF InPhase, LogEntry
    <3>3. UNCHANGED chan
      BY <2>1 DEF Forwarded
    <3> QED BY <3>1, <3>2, <3>3
  <2> QED BY <2>1 DEF LndMoves, BlockArrives, ChannelCloses
<1>6. LogTyped' /\ Begins(InWindow, InWindow')
  <2>1. CASE UNCHANGED forwards
    <3>1. LogTyped'
      <4>1. \A i \in DOMAIN forwards : forwards[i].in \in Channels /\ forwards[i].out \in Channels
        <5>1. \A i \in DOMAIN forwards : forwards[i] \in LogEntry
          BY <1>3
        <5> QED BY <5>1 DEF LogEntry
      <4> QED BY <1>1, <1>2, <1>4, <2>1, <4>1 DEF LogTyped
    <3>2. InWindow' = InWindow /\ Len(InWindow) \in Nat
      BY <1>2, <1>3, <2>1, InWindowIs DEF InWindow, Start, End, LoggedBefore
    <3> QED BY <3>1, <3>2 DEF Begins
  <2>2. CASE ~UNCHANGED forwards
    <3>1. PICK f \in LogEntry : /\ f.time = Now /\ forwards' = Append(forwards, f)
                                /\ UNCHANGED chan /\ {f.in, f.out} \subseteq InPhase("open")
      BY <1>5, <2>2
    <3>2. Begins(InWindow, InWindow')
      BY <1>1, <1>2, <3>1, InWindowGrows
    <3>3. /\ forwards' \in Seq(LogEntry) /\ DOMAIN forwards' = 1..(Len(forwards) + 1)
          /\ DOMAIN forwards = 1..Len(forwards) /\ Len(forwards) \in Nat
          /\ \A i \in 1..Len(forwards) : forwards'[i] = forwards[i]
          /\ forwards'[Len(forwards) + 1] = f
      BY <1>3, <3>1, AppendIs
    <3>4. ASSUME NEW i \in DOMAIN forwards'
          PROVE  /\ forwards'[i].time <= Now
                 /\ \A c \in {forwards'[i].in, forwards'[i].out} :
                      chan'[c].phase \notin {"none", "pending"}
      <4>1. CASE i \in DOMAIN forwards
        BY <1>1, <3>1, <3>3, <4>1 DEF LogTyped
      <4>2. CASE i = Len(forwards) + 1
        BY <3>1, <3>3, <4>2, ReportAssumption DEF InPhase
      <4> QED BY <3>3, <4>1, <4>2
    <3>5. {req'.start, req'.end} \subseteq Nat
      BY <1>1, <1>2 DEF LogTyped
    <3> QED BY <3>2, <3>3, <3>4, <3>5 DEF LogTyped
  <2> QED BY <2>1, <2>2
<1>7. Gathered'
  <2>1. PICK w, v : w = InWindow /\ v = InWindow'
    OBVIOUS
  <2>2. InWindow \in Seq(LogEntry)
    BY <1>3, InWindowIs
  <2>3. InWindow' \in Seq(LogEntry)
    <3>1. forwards' \in Seq(LogEntry)
      BY <1>6 DEF LogTyped
    <3>2. (forwards \in Seq(LogEntry) => InWindow \in Seq(LogEntry))'
      BY InWindowIs, PTL
    <3> QED BY <3>1, <3>2
  <2>4. /\ events \in Seq(LogEntry) /\ Begins(events, w) /\ Begins(w, v)
        /\ w \in Seq(LogEntry) /\ v \in Seq(LogEntry)
    BY <1>1, <1>6, <2>1, <2>2, <2>3 DEF Gathered
  <2>5. Begins(events, v)
    BY <2>4, BeginsTransitive
  <2> QED BY <1>1, <1>2, <2>1, <2>5 DEF Gathered
<1>8. Listed'
  <2>1. \A c \in Channels : seen.open[c].phase \in {"none", "closed"}
                              => chan'[c].phase = seen.open[c].phase
    BY <1>1, <1>4 DEF Listed
  <2> QED BY <1>1, <1>2, <2>1 DEF Listed, OpenWhenListed, ClosedWhenListed
<1>9. Reported'
  BY <1>1, <1>2 DEF Reported
<1> QED BY <1>1, <1>2, <1>6, <1>7, <1>8, <1>9 DEF CountInv

\* A step that changes nothing of what is counted.
LEMMA CountInvFrame ==
  ASSUME CountInv,
         UNCHANGED <<chan, forwards, req, known, offset, events, answer, seen>>,
         \/ stage' = stage
         \/ stage' \in {"failed", "open"}
         \/ stage \in {"height", "insights"} /\ stage' = "insights"
  PROVE  CountInv'
<1>1. LogTyped' /\ Gathered'
  BY DEF CountInv, LogTyped, Gathered, InWindow, LoggedBefore, Start, End
<1>2. Listed' /\ Reported'
  BY DEF CountInv, Listed, Reported, OpenWhenListed, ClosedWhenListed
<1> QED BY <1>1, <1>2 DEF CountInv

\* The steps of a report call.
LEMMA CountInvReport ==
  ASSUME CountInv, SeenTyped, ReportsNext
  PROVE  CountInv'
<1>1. LogTyped /\ Gathered /\ Listed /\ Reported /\ known \subseteq Channels
  BY DEF CountInv
<1>2. UNCHANGED <<chan, forwards, req>>
  BY DEF ReportsNext, CallBegins, ListChannels, ClosedChannels, ForwardingHistory, CurrentHeight,
     OpenChannels, CallFails, lndVars
<1>3. LogTyped' /\ InWindow' = InWindow
  BY <1>1, <1>2 DEF LogTyped, InWindow, LoggedBefore, Start, End
<1>4. CASE CallBegins
  BY <1>2, <1>4, CountInvFrame DEF CallBegins
<1>5. CASE CallFails
  BY <1>2, <1>5, CountInvFrame DEF CallFails
<1>6. CASE CurrentHeight
  BY <1>2, <1>6, CountInvFrame DEF CurrentHeight
<1>7. CASE ListChannels
  <2>1. /\ known' = InPhase("open") /\ seen' = [seen EXCEPT !.open = chan] /\ stage' = "closed"
        /\ UNCHANGED <<offset, events>>
    BY <1>7 DEF ListChannels
  <2>2. seen'.open = chan
    BY <2>1 DEF SeenTyped
  <2>3. Gathered'
    BY <1>1, <1>3, <2>1 DEF Gathered
  <2>4. Listed'
    BY <1>2, <2>1, <2>2 DEF Listed, OpenWhenListed, InPhase
  <2>5. known' \subseteq Channels /\ Reported'
    BY <2>1 DEF InPhase, Reported
  <2> QED BY <1>3, <2>1, <2>3, <2>4, <2>5 DEF CountInv
<1>8. CASE ClosedChannels
  <2>1. /\ known' = known \cup InPhase("closed") /\ seen' = [seen EXCEPT !.closed = chan]
        /\ stage = "closed" /\ stage' = "forwards" /\ UNCHANGED <<offset, events>>
    BY <1>8 DEF ClosedChannels
  <2>2. seen'.open = seen.open /\ seen'.closed = chan
    BY <2>1 DEF SeenTyped
  <2>3. Gathered'
    BY <1>1, <1>3, <2>1 DEF Gathered
  <2>4. Listed'
    BY <1>1, <1>2, <2>1, <2>2 DEF Listed, OpenWhenListed, ClosedWhenListed, InPhase
  <2>5. known' \subseteq Channels /\ Reported'
    BY <1>1, <2>1 DEF InPhase, Reported
  <2> QED BY <1>3, <2>1, <2>3, <2>4, <2>5 DEF CountInv
<1>9. CASE ForwardingHistory
  <2>1. /\ stage = "forwards" /\ events' = events \o NextPage /\ offset' = offset + Len(NextPage)
        /\ UNCHANGED <<known, seen>>
    BY <1>9 DEF ForwardingHistory
  <2>2. Gathered'
    BY <1>1, <1>3, <2>1, NextPageIs DEF Gathered
  <2>3. /\ stage' \in {"forwards", "done", "height"}
        /\ stage' = "height" => req.kind # "revenue"
    BY <1>9 DEF ForwardingHistory
  <2>4. Listed'
    BY <1>1, <1>2, <2>1, <2>3 DEF Listed, OpenWhenListed, ClosedWhenListed
  <2>5. Reported'
    BY <1>2, <1>9, <2>1 DEF ForwardingHistory, Reported
  <2> QED BY <1>1, <1>2, <1>3, <2>1, <2>2, <2>3, <2>4, <2>5 DEF CountInv
<1>10. CASE OpenChannels
  <2>1. /\ stage = "insights" /\ stage' \in {"failed", "done"}
        /\ seen' = [seen EXCEPT !.listed = chan, !.tip = tip]
        /\ UNCHANGED <<known, offset, events>>
    BY <1>10 DEF OpenChannels
  <2>2. seen'.open = seen.open /\ seen'.closed = seen.closed
    BY <2>1 DEF SeenTyped
  <2>3. Gathered'
    BY <1>1, <1>3, <2>1 DEF Gathered
  <2>4. Listed'
    BY <1>1, <1>2, <2>1, <2>2 DEF Listed, OpenWhenListed, ClosedWhenListed
  <2>5. req.kind # "revenue"
    BY <1>1, <2>1 DEF CountInv
  <2>6. Reported'
    BY <1>2, <2>5 DEF Reported
  <2> QED BY <1>1, <1>3, <2>1, <2>3, <2>4, <2>6 DEF CountInv
<1> QED BY <1>4, <1>5, <1>6, <1>7, <1>8, <1>9, <1>10 DEF ReportsNext

\* Every step keeps what is counted right.
LEMMA CountInvNext == CountInv /\ AgeInv /\ [Next]_vars => CountInv'
<1> SUFFICES ASSUME CountInv, AgeInv, [Next]_vars PROVE CountInv'
  OBVIOUS
<1>1. CASE LndMoves
  BY <1>1, CountInvLnd
<1>2. CASE ReportsNext
  BY <1>2, CountInvReport DEF AgeInv
<1>3. CASE UNCHANGED <<lndVars, reportVars>>
  BY <1>3, CountInvFrame DEF lndVars, reportVars
<1>4. ASSUME NEW k \in Callers, CloseReport(k) PROVE UNCHANGED <<lndVars, reportVars>>
  BY <1>4 DEF CloseReport, FindClosed, NotClosed, CacheHit, CacheMiss, NodeAnswers, Store,
     LookupFails, FundingRead, WalletFails, NextLookup, FeesKnown, Goto
<1>5. Confirms \/ Finished \/ UNCHANGED vars => UNCHANGED <<lndVars, reportVars>>
  BY DEF Confirms, Finished, vars
<1> QED
  BY <1>1, <1>2, <1>3, <1>4, <1>5 DEF Next

\* A channel of a forward that was read is known unless it was missed.
LEMMA KnownUnlessMissed ==
  ASSUME CountInv, AgeInv, Answered({"revenue"}), NEW i \in DOMAIN events,
         NEW c \in {events[i].in, events[i].out}
  PROVE  c \in Channels /\ (c \in known <=> ~Missed(c))
<1>1. /\ events \in Seq(LogEntry) /\ forwards \in Seq(LogEntry) /\ Begins(events, InWindow)
      /\ stage = "done" /\ req.kind = "revenue"
  BY DEF CountInv, Gathered, LogTyped, Answered
<1>2. i \in 1..Len(events) /\ Len(events) \in Nat /\ Len(events) <= Len(InWindow)
  BY <1>1 DEF Begins
<1>3. InWindow \in Seq(LogEntry) /\ i \in 1..Len(InWindow)
  BY <1>1, <1>2, InWindowIs
<1>4. PICK j \in DOMAIN forwards : InWindow[i] = forwards[j]
  BY <1>1, <1>3, InWindowIs
<1>5. events[i] = forwards[j]
  BY <1>1, <1>2, <1>4 DEF Begins
<1>6. forwards[j] \in LogEntry
  BY <1>1
<1>7. c \in Channels /\ chan[c].phase \notin {"none", "pending"}
  BY <1>5, <1>6 DEF CountInv, LogTyped, LogEntry
<1>8. seen.open[c].phase \in Phases
  <2>1. seen.open \in [Channels -> ChannelInfo]
    BY DEF AgeInv, SeenTyped
  <2>2. seen.open[c] \in ChannelInfo
    BY <1>7, <2>1
  <2> QED BY <2>2 DEF ChannelInfo
<1>9. /\ known = OpenWhenListed \cup ClosedWhenListed
      /\ seen.open[c].phase = "closed" => seen.closed[c].phase = "closed"
      /\ seen.open[c].phase = "none" => chan[c].phase = "none"
  BY <1>1, <1>7 DEF CountInv, Listed
<1> QED
  BY <1>7, <1>8, <1>9 DEF Missed, OpenWhenListed, ClosedWhenListed, Phases

\* For any channels, log, page size and bounds, whatever is forwarded, opened and
\* closed while the lists and the pages are read: a revenue report counts every
\* forward that was read once, for both of its channels, and leaves out only
\* those of channels that neither list had (ForwardsCounted).
THEOREM EveryForwardCounted == Spec => []ForwardsCounted
<1>1. ASSUME CountInv, AgeInv PROVE ForwardsCounted
  <2> DEFINE both == {i \in DOMAIN events : ~Missed(events[i].in) /\ ~Missed(events[i].out)}
             evs == getRevenueEvents(known, events)
             r == getReport(events, evs)
  <2> SUFFICES ASSUME Answered({"revenue"}), NEW t \in DOMAIN answer, NEW p \in Channels
               PROVE  /\ \A i \in DOMAIN events : events[i] = InWindow[i]
                      /\ IF p \in DOMAIN answer[t]
                         THEN /\ answer[t][p].amtIn = Total(events, Between(events, both, t, p), "amtIn")
                              /\ answer[t][p].amtOut = Total(events, Between(events, both, p, t), "amtOut")
                         ELSE Between(events, both, t, p) \cup Between(events, both, p, t) = {}
    BY DEF ForwardsCounted
  <2>1. events \in Seq(LogEntry) /\ Begins(events, InWindow)
    BY <1>1 DEF CountInv, Gathered
  <2>2. \A i \in DOMAIN events : events[i] = InWindow[i]
    BY <2>1 DEF Begins
  <2>3. evs = both
    <3>1. ASSUME NEW i \in DOMAIN events
          PROVE  {events[i].in, events[i].out} \subseteq known
                   <=> ~Missed(events[i].in) /\ ~Missed(events[i].out)
      BY <1>1, KnownUnlessMissed
    <3> QED BY <3>1 DEF getRevenueEvents
  <2>4. answer = rpcRevenueResponse(req.targets, r)
    BY <1>1 DEF CountInv, Reported, Answered
  <2>5. \A i \in DOMAIN events : events[i].in \in Channels /\ events[i].out \in Channels
    BY <1>1, KnownUnlessMissed
  <2> HIDE DEF evs, r
  <2>6. CASE t \in DOMAIN r
    <3>1. answer[t] = r[t]
      BY <2>4, <2>6 DEF rpcRevenueResponse
    <3>2. r[t] = [q \in PairsWith(events, evs, t) |-> Revenue(events, evs, t, q)]
      BY <2>6 DEF r, getReport
    <3>3. p \in PairsWith(events, evs, t)
            <=> Between(events, evs, t, p) \cup Between(events, evs, p, t) # {}
      BY DEF PairsWith
    <3>4. CASE p \in PairsWith(events, evs, t)
      <4>1. answer[t][p] = Revenue(events, evs, t, p)
        BY <3>1, <3>2, <3>4
      <4>2. /\ answer[t][p].amtIn = Total(events, Between(events, evs, t, p), "amtIn")
            /\ answer[t][p].amtOut = Total(events, Between(events, evs, p, t), "amtOut")
        BY <4>1 DEF Revenue
      <4>3. p \in DOMAIN answer[t]
        BY <3>1, <3>2, <3>4
      <4> QED BY <2>2, <2>3, <4>2, <4>3
    <3>5. CASE p \notin PairsWith(events, evs, t)
      BY <2>2, <2>3, <3>1, <3>2, <3>3, <3>5
    <3> QED BY <3>4, <3>5
  <2>7. CASE t \notin DOMAIN r
    <3>1. answer[t] = NoPairs /\ p \notin DOMAIN answer[t]
      BY <2>4, <2>7 DEF rpcRevenueResponse, NoPairs
    <3>2. Between(events, evs, t, p) \cup Between(events, evs, p, t) = {}
      <4>1. CASE t \in Channels
        <5>1. PairsWith(events, evs, t) = {}
          BY <2>7, <4>1 DEF r, getReport
        <5> QED BY <5>1 DEF PairsWith
      <4>2. CASE t \notin Channels
        <5>1. evs \subseteq DOMAIN events
          BY DEF evs, getRevenueEvents
        <5> QED BY <2>5, <4>2, <5>1 DEF Between
      <4> QED BY <4>1, <4>2
    <3> QED BY <2>2, <2>3, <3>1, <3>2
  <2> QED BY <2>6, <2>7
<1> QED
  BY <1>1, AgeInvInit, AgeInvNext, CountInvInit, CountInvNext, PTL DEF Spec

-----------------------------------------------------------------------------
(* The fees that close reports charge. *)

Stages == {"idle", "lookup", "ask", "store", "got", "done", "failed"}

\* The transactions that lnd's channels have been funded with.
FundingsHold ==
  /\ confirmed \subseteq DOMAIN txs /\ IsFiniteSet(DOMAIN funded)
  /\ \A c \in DOMAIN funded :
       /\ txs[funded[c].txid].vout \in Seq(Nat)
       /\ CalculateFee(funded[c].txid) \in Nat /\ CalculateFee(funded[c].closeTx) \in Nat

\* A call: only one that we opened, with at most two outputs, is charged, and
\* then its fee.
CallOK(x) ==
  /\ DOMAIN x = Fields /\ x.stage \in Stages /\ x.chan \in Channels \cup {Nobody}
  /\ x.stage # "done" => x.chan \in DOMAIN funded
  /\ x.result \in [initiator : BOOLEAN, openFee : Nat, closeFee : Nat]
  /\ x.result.initiator = TRUE => Len(txs[funded[x.chan].txid].vout) <= 2
  /\ x.result.openFee # 0 => /\ x.result.initiator = TRUE
                             /\ x.result.openFee = CalculateFee(funded[x.chan].txid)

ReportStages == {"idle", "open", "closed", "forwards", "height", "insights", "done", "failed"}

ChargeInv == /\ FundingsHold /\ stage \in ReportStages
             /\ call = [k \in Callers |-> call[k]]
             /\ \A k \in Callers : CallOK(call[k])

\* Nobody has been charged yet.
LEMMA ChargeInvInit == Init => ChargeInv
<1> SUFFICES ASSUME Init PROVE ChargeInv
  OBVIOUS
<1>1. PICK s \in Worlds :
        /\ InitReports(s)
        /\ txs = s.txs /\ confirmed = s.confirmed /\ funded = s.funded
        /\ call = [k \in Callers |->
                     [chan |-> s.asks[k], stage |-> IF s.asks[k] = Nobody THEN "done" ELSE "idle",
                      lookups |-> <<>>, tx |-> FALSE, result |-> NoReport]]
  BY DEF Init
<1>2. FundingsHold
  BY <1>1, CloseAssumption DEF FundingsHold, CalculateFee
<1>3. stage \in ReportStages
  BY <1>1 DEF InitReports, ReportStages
<1>4. ASSUME NEW k \in Callers PROVE CallOK(call[k])
  <2>1. s.asks[k] = Nobody \/ s.asks[k] \in Channels \cap DOMAIN s.funded
    BY <1>1, CloseAssumption
  <2>2. /\ call[k].chan = s.asks[k] /\ DOMAIN call[k] = Fields
        /\ call[k].stage = IF s.asks[k] = Nobody THEN "done" ELSE "idle"
        /\ call[k].result = NoReport
    BY <1>1 DEF Fields
  <2>3. /\ NoReport \in [initiator : BOOLEAN, openFee : Nat, closeFee : Nat]
        /\ NoReport.initiator = FALSE /\ NoReport.openFee = 0
    BY DEF NoReport
  <2> QED BY <1>1, <2>1, <2>2, <2>3 DEF CallOK, Stages
<1> QED BY <1>1, <1>2, <1>3, <1>4 DEF ChargeInv

\* One call moves on.
LEMMA OneCallOK ==
  ASSUME ChargeInv, NEW k \in Callers, NEW r, CallOK(r), call' = [call EXCEPT ![k] = r],
         UNCHANGED <<txs, funded, confirmed, stage>>
  PROVE  ChargeInv'
<1>1. \A j \in Callers : call'[j] = IF j = k THEN r ELSE call[j]
  BY DEF ChargeInv
<1>2. call' = [j \in Callers |-> call'[j]]
  BY DEF ChargeInv
<1>3. \A j \in Callers : CallOK(call'[j])
  BY <1>1 DEF ChargeInv
<1>4. \A j \in Callers : CallOK(call[j])'
  BY <1>3 DEF CallOK, CalculateFee
<1>5. FundingsHold'
  BY DEF ChargeInv, FundingsHold, CalculateFee
<1> QED BY <1>2, <1>4, <1>5 DEF ChargeInv

\* In particular one that only goes to another step.
LEMMA CallGoesOn ==
  ASSUME ChargeInv, NEW k \in Callers, call[k].stage # "done", NEW st \in Stages,
         call' = [call EXCEPT ![k].stage = st], UNCHANGED <<txs, funded, confirmed, stage>>
  PROVE  ChargeInv'
<1> DEFINE r == [call[k] EXCEPT !.stage = st]
<1>1. CallOK(call[k])
  BY DEF ChargeInv
<1>2. DOMAIN r = Fields /\ r.stage = st /\ r.chan = call[k].chan /\ r.result = call[k].result
  BY <1>1 DEF CallOK, Fields
<1>3. call' = [call EXCEPT ![k] = r]
  OBVIOUS
<1> HIDE DEF r
<1>4. CallOK(r)
  BY <1>1, <1>2 DEF CallOK
<1> QED BY <1>3, <1>4, OneCallOK

\* Every step of a close report keeps the calls right.
LEMMA ChargeInvCall ==
  ASSUME ChargeInv, NEW k \in Callers, CloseReport(k)
  PROVE  ChargeInv'
<1>1. UNCHANGED <<txs, funded, confirmed, stage>>
  BY DEF CloseReport, FindClosed, NotClosed, CacheHit, CacheMiss, NodeAnswers, Store,
     LookupFails, FundingRead, WalletFails, NextLookup, FeesKnown, Goto, chainVars, reportVars
<1>2. CallOK(call[k]) /\ FundingsHold
  BY DEF ChargeInv
<1>3. DOMAIN call[k] = Fields
  BY <1>2 DEF CallOK
<1>4. ASSUME NEW r, DOMAIN r = Fields, call' = [call EXCEPT ![k] = r], r.chan = call[k].chan,
             r.result = call[k].result, r.stage \in Stages, call[k].stage # "done"
      PROVE  ChargeInv'
  <2>1. CallOK(r)
    BY <1>2, <1>4 DEF CallOK
  <2> QED BY <1>1, <1>4, <2>1, OneCallOK
<1>5. CASE NotClosed(k) \/ CacheMiss(k) \/ LookupFails(k) \/ WalletFails(k) \/ CacheHit(k) \/ Store(k)
  BY <1>1, <1>5, CallGoesOn
  DEF NotClosed, CacheMiss, LookupFails, WalletFails, CacheHit, Store, Goto, Called, Stages
<1>6. CASE FindClosed(k)
  <2> DEFINE r == [call[k] EXCEPT !.stage = "lookup", !.lookups = <<ChannelOf(k).txid>>]
  <2>1. call' = [call EXCEPT ![k] = r] /\ call[k].stage = "idle"
    BY <1>6 DEF FindClosed, Called
  <2>2. /\ DOMAIN r = Fields /\ r.stage = "lookup" /\ r.chan = call[k].chan
        /\ r.result = call[k].result
    BY <1>3 DEF Fields
  <2> HIDE DEF r
  <2> QED BY <1>4, <2>1, <2>2 DEF Stages
<1>7. CASE NodeAnswers(k)
  <2> DEFINE r == [call[k] EXCEPT !.stage = "store", !.tx = Wanted(k) \in confirmed]
  <2>1. call' = [call EXCEPT ![k] = r] /\ call[k].stage = "ask"
    BY <1>7 DEF NodeAnswers, Called
  <2>2. /\ DOMAIN r = Fields /\ r.stage = "store" /\ r.chan = call[k].chan
        /\ r.result = call[k].result
    BY <1>3 DEF Fields
  <2> HIDE DEF r
  <2> QED BY <1>4, <2>1, <2>2 DEF Stages
<1>8. CASE NextLookup(k)
  <2> DEFINE r == [call[k] EXCEPT !.stage = "lookup", !.lookups = Tail(call[k].lookups)]
  <2>1. call' = [call EXCEPT ![k] = r] /\ call[k].stage = "got"
    BY <1>8 DEF NextLookup, Called
  <2>2. /\ DOMAIN r = Fields /\ r.stage = "lookup" /\ r.chan = call[k].chan
        /\ r.result = call[k].result
    BY <1>3 DEF Fields
  <2> HIDE DEF r
  <2> QED BY <1>4, <2>1, <2>2 DEF Stages
<1>9. CASE FundingRead(k)
  <2>0. call[k].stage = "got" /\ ~call[k].result.initiator
    BY <1>9 DEF FundingRead, Called
  <2>1. CASE \E st \in {"failed", "done"} : call' = [call EXCEPT ![k].stage = st]
    BY <1>1, <2>0, <2>1, CallGoesOn DEF Stages
  <2>2. CASE /\ ~Unsupported(k)
             /\ \E l : call' = [call EXCEPT ![k].stage = "lookup", ![k].result.initiator = TRUE,
                                        ![k].lookups = l]
    <3>1. PICK l : call' = [call EXCEPT ![k] = [call[k] EXCEPT !.stage = "lookup",
                              !.result.initiator = TRUE, !.lookups = l]]
      BY <2>2
    <3> DEFINE r == [call[k] EXCEPT !.stage = "lookup", !.result.initiator = TRUE, !.lookups = l]
    <3>2. /\ DOMAIN r = Fields /\ r.stage = "lookup" /\ r.chan = call[k].chan
          /\ r.result = [call[k].result EXCEPT !.initiator = TRUE]
      BY <1>3 DEF Fields
    <3>3. /\ call[k].chan \in DOMAIN funded
          /\ call[k].result \in [initiator : BOOLEAN, openFee : Nat, closeFee : Nat]
          /\ call[k].result.openFee = 0
      BY <1>2, <2>0 DEF CallOK
    <3> HIDE DEF r
    <3>4. /\ r.result \in [initiator : BOOLEAN, openFee : Nat, closeFee : Nat]
          /\ r.result.openFee = 0
      <4> DEFINE q == [call[k].result EXCEPT !.initiator = TRUE]
      <4>1. /\ q \in [initiator : BOOLEAN, openFee : Nat, closeFee : Nat]
            /\ q.openFee = call[k].result.openFee
        BY <3>3
      <4> HIDE DEF q
      <4> QED BY <3>2, <3>3, <4>1 DEF q
    <3>5. Len(txs[funded[call[k].chan].txid].vout) <= 2
      <4>1. txs[funded[call[k].chan].txid].vout \in Seq(Nat)
        BY <1>2, <3>3 DEF FundingsHold
      <4>2. ~(Len(txs[funded[call[k].chan].txid].vout) > 2)
        BY <2>2 DEF Unsupported, ChannelOf
      <4> QED BY <4>1, <4>2
    <3>6. CallOK(r)
      BY <1>2, <3>2, <3>3, <3>4, <3>5 DEF CallOK, Stages
    <3>7. call' = [call EXCEPT ![k] = r]
      BY <3>1 DEF r
    <3> QED BY <1>1, <3>6, <3>7, OneCallOK
  <2> QED BY <1>9, <2>1, <2>2 DEF FundingRead
<1>10. CASE FeesKnown(k)
  <2> DEFINE v == [initiator |-> TRUE, openFee |-> CalculateFee(ChannelOf(k).txid),
                   closeFee |-> CalculateFee(ChannelOf(k).closeTx)]
             r == [call[k] EXCEPT !.stage = "done", !.result = v]
  <2>1. call' = [call EXCEPT ![k] = r] /\ call[k].stage = "got" /\ call[k].result.initiator
    BY <1>10 DEF FeesKnown, Called
  <2>2. DOMAIN r = Fields /\ r.stage = "done" /\ r.chan = call[k].chan /\ r.result = v
    BY <1>3 DEF Fields
  <2>3. /\ call[k].chan \in DOMAIN funded /\ call[k].chan \in Channels \cup {Nobody}
        /\ call[k].result.initiator = TRUE
        /\ Len(txs[funded[call[k].chan].txid].vout) <= 2
    <3>1. call[k].result.initiator \in BOOLEAN
      BY <1>2 DEF CallOK
    <3>2. call[k].result.initiator = TRUE
      BY <2>1, <3>1
    <3> QED BY <1>2, <2>1, <3>2 DEF CallOK
  <2>4. /\ v \in [initiator : BOOLEAN, openFee : Nat, closeFee : Nat]
        /\ v.initiator = TRUE /\ v.openFee = CalculateFee(funded[call[k].chan].txid)
    BY <1>2, <2>3 DEF FundingsHold, ChannelOf
  <2> HIDE DEF r, v
  <2>5. CallOK(r)
    BY <2>2, <2>3, <2>4 DEF CallOK, Stages
  <2> QED BY <1>1, <2>1, <2>5, OneCallOK
<1> QED
  BY <1>5, <1>6, <1>7, <1>8, <1>9, <1>10 DEF CloseReport

\* Every step keeps the calls right.
LEMMA ChargeInvNext == ChargeInv /\ [Next]_vars => ChargeInv'
<1> SUFFICES ASSUME ChargeInv, [Next]_vars PROVE ChargeInv'
  OBVIOUS
<1>0. ASSUME UNCHANGED <<txs, funded, call>>, stage' \in ReportStages,
             confirmed' \subseteq DOMAIN txs
      PROVE  ChargeInv'
  BY <1>0 DEF ChargeInv, FundingsHold, CallOK, CalculateFee
<1>1. ASSUME NEW k \in Callers, CloseReport(k) PROVE ChargeInv'
  BY <1>1, ChargeInvCall
<1>2. CASE LndMoves \/ Finished \/ UNCHANGED vars
  BY <1>0, <1>2 DEF LndMoves, Finished, vars, closeVars, chainVars, reportVars, ChargeInv,
     FundingsHold
<1>3. CASE Confirms
  BY <1>0, <1>3 DEF Confirms, reportVars, ChargeInv, FundingsHold
<1>4. CASE ReportsNext /\ UNCHANGED closeVars
  <2>1. stage' \in ReportStages
    BY <1>4 DEF ReportsNext, CallBegins, ListChannels, ClosedChannels, ForwardingHistory,
       CurrentHeight, OpenChannels, CallFails, ReportStages, ChargeInv
  <2> QED BY <1>0, <1>4, <2>1 DEF closeVars, chainVars, ChargeInv, FundingsHold
<1> QED
  BY <1>1, <1>2, <1>3, <1>4 DEF Next

\* The state of the reports always has its type, and the cache shared by the
\* callers keeps confirmed transactions only (GetTxDetail).
THEOREM ReportsTypeCorrect == Spec => []TypeOK
<1>1. ASSUME AgeInv, CountInv, CacheInv, ChargeInv PROVE TypeOK
  <2>1. /\ \A c \in Channels : chan[c].phase \in Phases /\ chan[c].height \in 0..(Wrap - 1)
        /\ tip \in 0..(Wrap - 1) /\ moves \in 0..MaxMoves /\ height \in 0..tip
    <3>1. /\ moves \in 0..MaxMoves /\ tip \in Nat /\ tip + MaxMoves - moves < Wrap - 1
          /\ chan \in [Channels -> ChannelInfo] /\ height \in 0..tip
          /\ \A c \in Channels : chan[c].height < Wrap
      BY <1>1 DEF AgeInv, HeightsFit
    <3>2. \A c \in Channels : chan[c].phase \in Phases /\ chan[c].height \in Nat
      BY <3>1 DEF ChannelInfo
    <3>3. tip \in 0..(Wrap - 1)
      BY <3>1, ReportAssumption
    <3> QED BY <3>1, <3>2, <3>3, ReportAssumption
  <2>2. known \subseteq Channels /\ offset \in 0..Len(forwards)
    <3>1. forwards \in Seq(LogEntry) /\ known \subseteq Channels
      BY <1>1 DEF CountInv, LogTyped
    <3>2. Len(forwards) \in Nat /\ Len(InWindow) \in Nat /\ Len(InWindow) <= Len(forwards)
      BY <3>1, InWindowIs
    <3>3. offset \in Nat /\ offset <= Len(InWindow)
      BY <1>1, <3>1, <3>2 DEF CountInv, Gathered, Begins
    <3> QED BY <3>1, <3>2, <3>3
  <2>3. confirmed \subseteq DOMAIN txs /\ cache \subseteq confirmed
    BY <1>1 DEF ChargeInv, FundingsHold, CacheInv
  <2>4. ASSUME NEW k \in Callers
        PROVE  /\ call[k].chan \in Channels \cup {Nobody} /\ call[k].stage \in Stages
               /\ call[k].result.openFee \in Nat /\ call[k].result.closeFee \in Nat
    BY <1>1 DEF ChargeInv, CallOK
  <2> QED BY <1>1, <2>1, <2>2, <2>3, <2>4 DEF TypeOK, ChargeInv, ReportStages, Stages
<1> QED
  BY <1>1, AgeInvInit, AgeInvNext, CountInvInit, CountInvNext, CacheInvInit, CacheInvNext,
     ChargeInvInit, ChargeInvNext, PTL DEF Spec

-----------------------------------------------------------------------------
(* The values that channels are judged by. *)

Floats == Int \cup {NaN}

\* A dataset: finitely many values.
IsDataset(d) == IsFiniteSet(DOMAIN d) /\ \A c \in DOMAIN d : d[c] \in Floats

\* The order of a sort.
LEMMA SortedIs ==
  ASSUME NEW x \in Floats, NEW y \in Floats, NEW z \in Floats
  PROVE  /\ ~Sorted(x, x)
         /\ Sorted(x, z) => Sorted(x, y) \/ Sorted(y, z)
         /\ Sorted(x, y) => ~Sorted(y, x)
  BY UnitAssumption DEF Floats, Sorted, Less

\* Some of the labels of a dataset have a last value.
LEMMA LastOf ==
  ASSUME NEW d, IsDataset(d), NEW B \in SUBSET DOMAIN d, B # {}
  PROVE  \E m \in B : \A x \in B : ~Sorted(d[m], d[x])
<1> DEFINE HasLast(s) == \E m \in s : \A x \in s : ~Sorted(d[m], d[x])
           G == {s \in SUBSET DOMAIN d : s = {} \/ HasLast(s)}
<1>1. IsFiniteSet(DOMAIN d) /\ \A c \in DOMAIN d : d[c] \in Floats
  BY DEF IsDataset
<1>2. {} \in G
  OBVIOUS
<1>3. ASSUME NEW s \in SUBSET DOMAIN d, NEW y \in s, s \ {y} \in G PROVE s \in G
  <2>1. \A x \in s : d[x] \in Floats /\ ~Sorted(d[x], d[x])
    BY <1>1, SortedIs
  <2>2. CASE s \ {y} = {}
    <3>1. \A x \in s : x = y
      BY <2>2
    <3> QED BY <2>1, <3>1
  <2>3. CASE s \ {y} # {}
    <3>1. PICK m \in s \ {y} : \A x \in s \ {y} : ~Sorted(d[m], d[x])
      BY <1>3, <2>3
    <3>2. CASE Sorted(d[m], d[y])
      <4>1. ASSUME NEW x \in s PROVE ~Sorted(d[y], d[x])
        <5>1. CASE x = y
          BY <2>1, <5>1
        <5>2. CASE x # y
          <6>1. ~Sorted(d[m], d[x]) /\ d[m] \in Floats /\ d[x] \in Floats /\ d[y] \in Floats
            BY <2>1, <3>1, <5>2
          <6>2. Sorted(d[y], d[x]) => Sorted(d[m], d[x])
            <7>1. Sorted(d[m], d[y]) => Sorted(d[m], d[x]) \/ Sorted(d[x], d[y])
              BY <6>1, SortedIs
            <7>2. Sorted(d[y], d[x]) => ~Sorted(d[x], d[y])
              BY <6>1, SortedIs
            <7> QED BY <3>2, <7>1, <7>2
          <6> QED BY <6>1, <6>2
        <5> QED BY <5>1, <5>2
      <4> QED BY <4>1
    <3>3. CASE ~Sorted(d[m], d[y])
      <4>1. \A x \in s : ~Sorted(d[m], d[x])
        BY <3>1, <3>3
      <4> QED BY <4>1
    <3> QED BY <3>2, <3>3
  <2> QED BY <2>2, <2>3
<1> HIDE DEF G
<1>4. \A s \in SUBSET DOMAIN d : s \in G
  <2>1. \A s \in SUBSET DOMAIN d : \A x \in s : s \ {x} \in G => s \in G
    BY ONLY <1>3
  <2>2. IsFiniteSet(DOMAIN d)
    BY <1>1
  <2> QED BY ONLY <1>2, <2>1, <2>2, SubsetInduction
<1>5. B \in G
  BY <1>4
<1> QED BY <1>5 DEF G

\* How many come before a value, and up to it.
LEMMA CountsIs ==
  ASSUME NEW d, IsDataset(d), NEW v
  PROVE  /\ Before(d, v) \in SUBSET DOMAIN d /\ UpTo(d, v) \in SUBSET DOMAIN d
         /\ IsFiniteSet(Before(d, v)) /\ IsFiniteSet(UpTo(d, v))
         /\ Cardinality(Before(d, v)) \in Nat /\ Cardinality(UpTo(d, v)) \in Nat
         /\ Cardinality(DOMAIN d) \in Nat
<1>1. Before(d, v) \in SUBSET DOMAIN d /\ UpTo(d, v) \in SUBSET DOMAIN d
  BY DEF Before, UpTo
<1> QED BY <1>1, FS_Subset, FS_CardinalityType DEF IsDataset

\* v is at position k in the order of d's values.
IsAt(d, v, k) == /\ \E c \in DOMAIN d : v = d[c]
                 /\ Cardinality(Before(d, v)) < k /\ k <= Cardinality(UpTo(d, v))

\* There is a value at every position.
LEMMA ValueExists ==
  ASSUME NEW d, IsDataset(d), NEW k \in 1..Cardinality(DOMAIN d)
  PROVE  \E v : IsAt(d, v, k)
<1> DEFINE D == DOMAIN d
           C == {l \in D : k <= Cardinality(UpTo(d, d[l]))}
           N == {Cardinality(UpTo(d, d[l])) : l \in C}
<1>1. IsFiniteSet(D) /\ (\A c \in D : d[c] \in Floats) /\ Cardinality(D) \in Nat /\ k \in Nat
  BY FS_CardinalityType DEF IsDataset
<1>2. \A v : /\ Before(d, v) \in SUBSET D /\ UpTo(d, v) \in SUBSET D
             /\ IsFiniteSet(Before(d, v)) /\ IsFiniteSet(UpTo(d, v))
             /\ Cardinality(Before(d, v)) \in Nat /\ Cardinality(UpTo(d, v)) \in Nat
  BY CountsIs
<1>3. C # {}
  <2>1. D # {}
    BY <1>1, FS_EmptySet
  <2>2. PICK m \in D : \A x \in D : ~Sorted(d[m], d[x])
    BY <2>1, LastOf
  <2>3. UpTo(d, d[m]) = D
    BY <2>2 DEF UpTo
  <2> QED BY <1>1, <2>3
<1>4. N \in SUBSET Nat /\ N # {}
  BY <1>2, <1>3
<1>5. PICK n \in N : \A y \in N : n <= y
  BY <1>4, LeastNatural
<1>6. PICK l \in C : \A j \in C : Cardinality(UpTo(d, d[l])) <= Cardinality(UpTo(d, d[j]))
  BY <1>5
<1>7. Cardinality(Before(d, d[l])) < k
  <2> SUFFICES ASSUME ~(Cardinality(Before(d, d[l])) < k) PROVE FALSE
    OBVIOUS
  <2> DEFINE B == Before(d, d[l])
  <2>1. k <= Cardinality(B) /\ B \in SUBSET D /\ IsFiniteSet(B) /\ Cardinality(B) \in Nat
    BY <1>1, <1>2
  <2>2. B # {}
    BY <1>1, <2>1, FS_EmptySet
  <2>3. PICK m \in B : \A x \in B : ~Sorted(d[m], d[x])
    BY <2>1, <2>2, LastOf
  <2>4. B \in SUBSET UpTo(d, d[m])
    BY <2>1, <2>3 DEF UpTo
  <2>5. Cardinality(B) <= Cardinality(UpTo(d, d[m]))
    BY <1>2, <2>4, FS_Subset
  <2>6. m \in C
    BY <1>1, <1>2, <2>1, <2>5
  <2>7. Cardinality(UpTo(d, d[l])) <= Cardinality(UpTo(d, d[m]))
    BY <1>6, <2>6
  <2>8. Sorted(d[m], d[l]) /\ l \in D /\ m \in D
    BY <2>3 DEF Before
  <2>9. UpTo(d, d[m]) \in SUBSET UpTo(d, d[l])
    <3>1. ASSUME NEW x \in D, ~Sorted(d[m], d[x]) PROVE ~Sorted(d[l], d[x])
      <4>1. d[m] \in Floats /\ d[l] \in Floats /\ d[x] \in Floats
        BY <1>1, <2>8
      <4>2. Sorted(d[m], d[l]) => Sorted(d[m], d[x]) \/ Sorted(d[x], d[l])
        BY <4>1, SortedIs
      <4>3. Sorted(d[x], d[l]) => ~Sorted(d[l], d[x])
        BY <4>1, SortedIs
      <4> QED BY <2>8, <3>1, <4>2, <4>3
    <3> QED BY <3>1 DEF UpTo
  <2>10. l \in UpTo(d, d[l]) /\ l \notin UpTo(d, d[m])
    <3>1. ~Sorted(d[l], d[l])
      BY <1>1, <2>8, SortedIs
    <3> QED BY <2>8, <3>1 DEF UpTo
  <2>11. /\ Cardinality(UpTo(d, d[m])) <= Cardinality(UpTo(d, d[l]))
         /\ Cardinality(UpTo(d, d[m])) # Cardinality(UpTo(d, d[l]))
    BY <1>2, <2>9, <2>10, FS_Subset
  <2> QED BY <1>2, <2>7, <2>11
<1> QED BY <1>6, <1>7 DEF IsAt

\* rawValues has every position filled.
LEMMA RawIs ==
  ASSUME NEW d, IsDataset(d)
  PROVE  /\ rawValues(d) \in Seq(Floats) /\ Len(rawValues(d)) = Cardinality(DOMAIN d)
         /\ \A k \in 1..Cardinality(DOMAIN d) : IsAt(d, rawValues(d)[k], k)
<1> DEFINE n == Cardinality(DOMAIN d)
           P(v, k) == Cardinality(Before(d, v)) < k /\ k <= Cardinality(UpTo(d, v))
           w(k) == CHOOSE v \in Range(d) : P(v, k)
<1>1. n \in Nat /\ \A c \in DOMAIN d : d[c] \in Floats
  BY FS_CardinalityType DEF IsDataset
<1>2. rawValues(d) = [k \in 1..n |-> w(k)]
  BY DEF rawValues
<1>3. ASSUME NEW k \in 1..n PROVE IsAt(d, w(k), k) /\ w(k) \in Floats
  <2>1. PICK v : IsAt(d, v, k)
    BY ValueExists
  <2>2. v \in Range(d) /\ P(v, k)
    BY <2>1 DEF IsAt, Range
  <2> HIDE DEF P
  <2>3. w(k) \in Range(d) /\ P(w(k), k)
    BY <2>2
  <2> HIDE DEF w
  <2>4. PICK c \in DOMAIN d : w(k) = d[c]
    BY <2>3 DEF Range
  <2> QED BY <1>1, <2>3, <2>4 DEF IsAt, P
<1> HIDE DEF w
<1>4. rawValues(d) \in [1..n -> Floats]
  BY <1>2, <1>3
<1>5. rawValues(d) \in Seq(Floats) /\ Len(rawValues(d)) = n
  BY <1>1, <1>4
<1>6. \A k \in 1..n : IsAt(d, rawValues(d)[k], k)
  BY <1>2, <1>3
<1> QED BY <1>5, <1>6

\* They are in order.
LEMMA RawOrdered ==
  ASSUME NEW d, IsDataset(d), NEW j \in 1..Cardinality(DOMAIN d),
         NEW k \in 1..Cardinality(DOMAIN d), j <= k
  PROVE  ~Sorted(rawValues(d)[k], rawValues(d)[j])
<1> SUFFICES ASSUME Sorted(rawValues(d)[k], rawValues(d)[j]) PROVE FALSE
  OBVIOUS
<1>1. PICK a : a = rawValues(d)[j]
  OBVIOUS
<1>2. PICK b : b = rawValues(d)[k]
  OBVIOUS
<1>3. IsAt(d, a, j) /\ IsAt(d, b, k) /\ Sorted(b, a)
  BY <1>1, <1>2, RawIs
<1>4. a \in Floats /\ b \in Floats /\ \A c \in DOMAIN d : d[c] \in Floats
  BY <1>3 DEF IsAt, IsDataset
<1>5. UpTo(d, b) \in SUBSET Before(d, a)
  <2>1. ASSUME NEW x \in DOMAIN d, ~Sorted(b, d[x]) PROVE Sorted(d[x], a)
    BY <1>3, <1>4, <2>1, SortedIs
  <2> QED BY <2>1 DEF UpTo, Before
<1>6. /\ Cardinality(UpTo(d, b)) <= Cardinality(Before(d, a))
      /\ Cardinality(UpTo(d, b)) \in Nat /\ Cardinality(Before(d, a)) \in Nat
  BY <1>5, CountsIs, FS_Subset
<1>7. Cardinality(Before(d, a)) < j /\ k <= Cardinality(UpTo(d, b)) /\ j \in Nat /\ k \in Nat
  BY <1>3, CountsIs DEF IsAt
<1> QED BY ONLY j <= k, <1>6, <1>7

\* The median of a run of n values after the first a.
LEMMA MedianIs ==
  ASSUME NEW d, IsDataset(d), NEW a \in Nat, NEW n \in Nat \ {0}, a + n <= Cardinality(DOMAIN d)
  PROVE  LET m == getMedian(SubSeq(rawValues(d), a + 1, a + n))
             k == a + (n \div 2)
         IN  IF n % 2 = 0 THEN m = Mean(rawValues(d)[k], rawValues(d)[k + 1])
             ELSE m = rawValues(d)[k + 1]
<1> DEFINE r == rawValues(d)
           s == SubSeq(r, a + 1, a + n)
           h == n \div 2
<1>1. r \in Seq(Floats) /\ Len(r) = Cardinality(DOMAIN d) /\ Cardinality(DOMAIN d) \in Nat
  BY RawIs, CountsIs
<1>2. a + n \in Nat /\ a <= a + n /\ a + n <= Len(r) /\ (a + n) - a = n
  BY <1>1
<1> HIDE DEF r
<1>3. Len(s) = (a + n) - a /\ \A i \in 1..((a + n) - a) : s[i] = r[a + i]
  <2>1. PICK b \in Nat : b = a + n
    BY <1>2
  <2>2. a <= b /\ b <= Len(r)
    BY <1>2, <2>1
  <2>3. Len(SubSeq(r, a + 1, b)) = b - a /\ \A i \in 1..(b - a) : SubSeq(r, a + 1, b)[i] = r[a + i]
    BY <1>1, <2>2, SubSeqIs
  <2> QED BY <2>1, <2>3
<1>4. Len(s) = n /\ \A i \in 1..n : s[i] = r[a + i]
  BY <1>2, <1>3
<1>5. h \in Nat /\ (n % 2 = 0 => n = 2 * h) /\ (n % 2 # 0 => n = 2 * h + 1)
  BY ONLY n \in Nat \ {0}, Half
<1> HIDE DEF s
<1>6. getMedian(s) = IF n % 2 = 0 THEN Mean(s[h], s[h + 1]) ELSE s[h + 1]
  BY <1>4 DEF getMedian
<1> HIDE DEF h
<1>7. CASE n % 2 = 0
  <2>1. h \in 1..n /\ h + 1 \in 1..n
    BY ONLY <1>5, <1>7, n \in Nat \ {0}
  <2>2. s[h] = r[a + h] /\ s[h + 1] = r[a + (h + 1)] /\ a + (h + 1) = (a + h) + 1
    BY <1>4, <1>5, <2>1
  <2>3. getMedian(s) = Mean(r[a + h], r[(a + h) + 1])
    BY <1>6, <1>7, <2>2
  <2> QED BY <1>7, <2>3 DEF r, s, h
<1>8. CASE n % 2 # 0
  <2>1. h + 1 \in 1..n
    BY ONLY <1>5, <1>8, n \in Nat \ {0}
  <2>2. s[h + 1] = r[a + (h + 1)] /\ a + (h + 1) = (a + h) + 1
    BY <1>4, <1>5, <2>1
  <2>3. getMedian(s) = r[(a + h) + 1]
    BY <1>6, <1>8, <2>2
  <2> QED BY <1>8, <2>3 DEF r, s, h
<1> QED BY <1>7, <1>8

\* The quartiles: the lower one is no more than some value that fewer than a
\* quarter come before, and than the upper one.
LEMMA QuartilesIs ==
  ASSUME NEW d, IsDataset(d), Cardinality(DOMAIN d) >= 3,
         NaN \notin {quartiles(d).lower, quartiles(d).upper}
  PROVE  /\ quartiles(d).lower \in Int /\ quartiles(d).upper \in Int
         /\ quartiles(d).lower <= quartiles(d).upper
         /\ \E b \in Int : /\ quartiles(d).lower <= b
                           /\ 4 * Cardinality(Before(d, b)) <= Cardinality(DOMAIN d)
<1> DEFINE n == Cardinality(DOMAIN d)
           g == n \div 2
           h == g \div 2
           r == rawValues(d)
           lo == quartiles(d).lower
           up == quartiles(d).upper
           o == n - g
<1>1. n \in Nat /\ n >= 3
  BY CountsIs
<1> HIDE DEF n
<1>2. g \in Nat /\ (n = 2 * g \/ n = 2 * g + 1)
  BY ONLY <1>1, Half
<1> HIDE DEF g
<1>3. g \in Nat \ {0} /\ g <= n /\ o \in Nat /\ g <= o /\ o + g = n
  BY ONLY <1>1, <1>2
<1>4. h \in Nat /\ (g % 2 = 0 => g = 2 * h) /\ (g % 2 # 0 => g = 2 * h + 1)
  BY ONLY <1>3, Half
<1> HIDE DEF h
<1>5. h \in Nat /\ h + 1 \in Nat /\ h < g /\ 4 * h <= n /\ (g % 2 = 0 => h # 0)
  BY ONLY <1>1, <1>2, <1>3, <1>4
<1>6. lo = getMedian(SubSeq(r, 1, g)) /\ up = getMedian(SubSeq(r, o + 1, n))
  BY DEF quartiles, n, g
<1> HIDE DEF lo, up, r, o
<1>7. IF g % 2 = 0 THEN lo = Mean(r[h], r[h + 1]) ELSE lo = r[h + 1]
  <2>1. 0 + 1 = 1 /\ 0 + g = g /\ 0 + g <= n /\ 0 + h = h
    BY <1>3, <1>5
  <2>2. IF g % 2 = 0 THEN lo = Mean(r[0 + h], r[(0 + h) + 1]) ELSE lo = r[(0 + h) + 1]
    <3>1. lo = getMedian(SubSeq(r, 0 + 1, 0 + g))
      BY <1>6, <2>1
    <3> QED BY <1>3, <2>1, <3>1, MedianIs DEF r, h, n
  <2> QED BY <2>1, <2>2
<1>8. IF g % 2 = 0 THEN up = Mean(r[o + h], r[(o + h) + 1]) ELSE up = r[(o + h) + 1]
  <2>1. up = getMedian(SubSeq(r, o + 1, o + g)) /\ o + g <= n
    BY <1>1, <1>3, <1>6
  <2> QED BY <1>3, <2>1, MedianIs DEF r, h, n
<1>9. ASSUME NEW j \in 1..n, NEW k \in 1..n, j <= k, r[j] # NaN, r[k] # NaN
      PROVE  r[j] \in Int /\ r[k] \in Int /\ r[j] <= r[k]
  <2>1. r[j] \in Floats /\ r[k] \in Floats
    <3>1. r \in Seq(Floats) /\ Len(r) = n
      BY RawIs DEF r, n
    <3> QED BY <3>1
  <2>2. ~Sorted(r[k], r[j])
    BY <1>9, RawOrdered DEF r, n
  <2> QED BY <1>9, <2>1, <2>2 DEF Floats, Sorted, Less
<1>10. /\ h + 1 \in 1..n /\ (o + h) + 1 \in 1..n /\ h + 1 <= (o + h) + 1
       /\ g % 2 = 0 => h \in 1..n /\ o + h \in 1..n /\ h <= o + h
  BY ONLY <1>1, <1>3, <1>5
<1>11. lo # NaN /\ up # NaN
  BY DEF lo, up
<1>12. /\ r[h + 1] \in Int /\ lo \in Int /\ up \in Int /\ lo <= r[h + 1] /\ lo <= up
  <2>1. CASE g % 2 = 0
    <3>1. PICK a : a = r[h]
      OBVIOUS
    <3>2. PICK b : b = r[h + 1]
      OBVIOUS
    <3>3. PICK c : c = r[o + h]
      OBVIOUS
    <3>4. PICK e : e = r[(o + h) + 1]
      OBVIOUS
    <3>5. lo = Mean(a, b) /\ up = Mean(c, e)
      BY <1>7, <1>8, <2>1, <3>1, <3>2, <3>3, <3>4
    <3>6. a # NaN /\ b # NaN /\ c # NaN /\ e # NaN
      BY <1>11, <3>5 DEF Mean
    <3>7. lo = (a + b) \div 2 /\ up = (c + e) \div 2
      BY <3>5, <3>6 DEF Mean
    <3>8. h <= h + 1
      BY <1>5
    <3>9. a \in Int /\ b \in Int /\ a <= b
      BY <1>9, <1>10, <2>1, <3>1, <3>2, <3>6, <3>8
    <3>10. c \in Int /\ a <= c
      BY <1>9, <1>10, <2>1, <3>1, <3>3, <3>6
    <3>11. e \in Int /\ b <= e
      BY <1>9, <1>10, <3>2, <3>4, <3>6
    <3>12. a + b \in Int /\ c + e \in Int /\ a + b <= c + e
      BY ONLY <3>9, <3>10, <3>11
    <3>13. lo \in Int /\ up \in Int /\ lo <= up
      BY ONLY <3>7, <3>12
    <3>14. lo <= b
      BY ONLY <3>7, <3>9
    <3> QED BY <3>2, <3>9, <3>13, <3>14
  <2>2. CASE g % 2 # 0
    <3>1. lo = r[h + 1] /\ up = r[(o + h) + 1]
      BY <1>7, <1>8, <2>2
    <3>2. lo \in Int /\ up \in Int /\ lo <= up
      BY <1>9, <1>10, <1>11, <3>1
    <3> QED BY <3>1, <3>2
  <2> QED BY <2>1, <2>2
<1>13. 4 * Cardinality(Before(d, r[h + 1])) <= n
  <2>1. Cardinality(Before(d, r[h + 1])) < h + 1
    BY <1>10, RawIs DEF IsAt, r, n
  <2>2. Cardinality(Before(d, r[h + 1])) \in Nat
    BY CountsIs
  <2> QED BY ONLY <1>1, <1>5, <2>1, <2>2
<1>14. /\ lo \in Int /\ up \in Int /\ lo <= up
       /\ \E b \in Int : lo <= b /\ 4 * Cardinality(Before(d, b)) <= n
  BY <1>12, <1>13
<1> QED BY <1>14 DEF lo, up, n

\* At most a quarter are lower outliers.
LEMMA FewOutliers ==
  ASSUME NEW d, IsDataset(d), NEW mult \in Int, mult >= 0
  PROVE  /\ GetOutliers(d, mult) \in SUBSET DOMAIN d
         /\ 4 * Cardinality(GetOutliers(d, mult)) <= Cardinality(DOMAIN d)
<1> DEFINE q == quartiles(d)
           O == GetOutliers(d, mult)
<1>1. Cardinality(DOMAIN d) \in Nat
  BY CountsIs
<1>2. CASE O = {}
  <2>1. Cardinality(O) = 0
    BY <1>2, FS_EmptySet
  <2> HIDE DEF O
  <2> QED BY <1>1, <1>2, <2>1 DEF O
<1>3. CASE O # {}
  <2>1. ~(Cardinality(DOMAIN d) < 3)
    BY <1>3 DEF GetOutliers
  <2>2. O = {label \in DOMAIN d : LowerOutlier(d[label], q, mult)}
    BY <2>1 DEF GetOutliers
  <2>3. NaN \notin {q.lower, q.upper}
    BY <1>3, <2>2 DEF LowerOutlier
  <2>4. PICK b \in Int : /\ q.lower \in Int /\ q.upper \in Int /\ q.lower <= q.upper
                         /\ q.lower <= b /\ 4 * Cardinality(Before(d, b)) <= Cardinality(DOMAIN d)
    <3>1. Cardinality(DOMAIN d) >= 3
      BY <1>1, <2>1
    <3> QED BY <2>3, <3>1, QuartilesIs
  <2>5. ASSUME NEW l \in O PROVE l \in Before(d, b)
    <3> DEFINE lo == q.lower
               up == q.upper
               x == d[l]
               u == up - lo
    <3>1. l \in DOMAIN d /\ x # NaN /\ x < lo - ((u * mult) \div 2)
      BY <2>2, <2>5 DEF LowerOutlier, Less
    <3>2. x \in Int
      BY <3>1 DEF IsDataset, Floats
    <3>3. lo \in Int /\ u \in Nat /\ lo <= b /\ mult \in Nat
      BY <2>4
    <3> HIDE DEF lo, x, u
    <3>4. u * mult \in Nat
      BY ONLY <3>3
    <3>5. (u * mult) \div 2 \in Nat
      BY ONLY <3>4
    <3>6. x < b
      BY ONLY <3>1, <3>2, <3>3, <3>5, b \in Int
    <3>7. b # NaN
      BY UnitAssumption
    <3> QED BY <3>1, <3>2, <3>6, <3>7 DEF Before, Sorted, Less, x
  <2>6. /\ Cardinality(O) <= Cardinality(Before(d, b)) /\ Cardinality(O) \in Nat
        /\ Cardinality(Before(d, b)) \in Nat
    <3>1. O \in SUBSET Before(d, b)
      BY <2>5
    <3> QED BY <3>1, CountsIs, FS_Subset, FS_CardinalityType
  <2>7. O \in SUBSET DOMAIN d
    BY <2>2
  <2>8. 4 * Cardinality(O) <= Cardinality(DOMAIN d)
    BY ONLY <1>1, <2>4, <2>6
  <2> QED BY <2>7, <2>8
<1> QED BY <1>2, <1>3

-----------------------------------------------------------------------------
(* The insights, and the recommendations made from them. *)

\* The report that the insights are made from.
Earned == getReport(events, getRevenueEvents(known, events))

\* An insight: what lnd says of the channel, and what the report says of it.
InsightOK(i) ==
  /\ i.chan \in Channels /\ i.conf \in Nat /\ i.monitored \in Nat /\ i.uptime \in Nat
  /\ i.volIn = VolumeIncoming(report, i.chan) /\ i.volOut = VolumeOutgoing(report, i.chan)
  /\ i.fees = FeesEarned(report, i.chan)

\* One insight of each channel, and the answer made from all of them.
Judged ==
  /\ \A i \in insights : InsightOK(i)
  /\ \A i, j \in insights : i.chan = j.chan => i = j
  /\ req.kind = "insights" => answer = insights
  /\ req.kind \in {"outlier", "threshold"} =>
       req.metric \in Metrics /\ answer \in rpcResponse(Recs(insights))

JudgeInv ==
  /\ {req.mult, req.min} \subseteq Int /\ req.threshold \in Float32s
  /\ stage \in {"height", "insights"} => report = Earned
  /\ Answered({"insights", "outlier", "threshold"}) => report = Earned /\ Judged

\* Nothing has been judged.
LEMMA JudgeInvInit == Init => JudgeInv
<1> SUFFICES ASSUME Init PROVE JudgeInv
  OBVIOUS
<1>1. PICK s \in Worlds : InitReports(s)
  BY DEF Init
<1>2. req = s.req /\ stage = IF s.req.kind = "none" THEN "done" ELSE "idle"
  BY <1>1 DEF InitReports
<1>3. {s.req.mult, s.req.min} \subseteq Int /\ s.req.threshold \in Float32s
  BY ReportAssumption
<1> QED BY <1>2, <1>3 DEF JudgeInv, Answered

\* Whatever leaves the call alone.
LEMMA JudgeInvFrame ==
  ASSUME JudgeInv, UNCHANGED reportVars
  PROVE  JudgeInv'
<1>1. UNCHANGED <<req, stage, known, events, report, insights, answer>>
  BY DEF reportVars
<1>2. Earned' = Earned /\ (Judged <=> Judged') /\ (\A kinds : Answered(kinds)' <=> Answered(kinds))
  BY <1>1 DEF Earned, Judged, InsightOK, Recs, Data, Multiplier, Answered
<1> QED BY <1>1, <1>2 DEF JudgeInv

\* The channels are listed, and judged.
LEMMA JudgeInvListing ==
  ASSUME JudgeInv, AgeInv, OpenChannels
  PROVE  JudgeInv'
<1>1. /\ stage = "insights" /\ stage' \in {"failed", "done"}
      /\ UNCHANGED <<req, known, events, report>>
      /\ insights' = {channelInsight(c, height, report) : c \in InPhase("open")}
      /\ stage' = "done" /\ req.kind # "insights" => req.metric \in Metrics
      /\ stage' = "done" =>
           answer' \in IF req.kind = "insights" THEN {insights'} ELSE rpcResponse(Recs(insights'))
  BY DEF OpenChannels
<1>2. report = Earned /\ Earned' = Earned
  BY <1>1 DEF JudgeInv, Earned
<1>3. /\ Wrap \in Nat \ {0} /\ height \in Int
      /\ \A c \in Channels : chan[c] \in ChannelInfo
  BY ReportAssumption DEF AgeInv, HeightsFit
<1>4. ASSUME NEW i \in insights'
      PROVE  \E c \in InPhase("open") : i = channelInsight(c, height, report) /\ i.chan = c
  <2>1. PICK c \in InPhase("open") : i = channelInsight(c, height, report)
    BY <1>1, <1>4
  <2>2. i.chan = c
    BY <2>1 DEF channelInsight
  <2> QED BY <2>1, <2>2
<1>5. ASSUME NEW i \in insights' PROVE InsightOK(i)'
  <2>1. PICK c \in InPhase("open") : i = channelInsight(c, height, report) /\ i.chan = c
    BY <1>4, <1>5
  <2>2. c \in Channels /\ chan[c].monitored \in Nat /\ chan[c].uptime \in Nat /\ chan[c].height \in Nat
    BY <1>3 DEF InPhase, ChannelInfo
  <2>3. i.conf = confirmations(height, chan[c].height) /\ i.monitored = chan[c].monitored
        /\ i.uptime = chan[c].uptime /\ i.volIn = VolumeIncoming(report, c)
        /\ i.volOut = VolumeOutgoing(report, c) /\ i.fees = FeesEarned(report, c)
    BY <2>1 DEF channelInsight
  <2>4. confirmations(height, chan[c].height) \in Nat
    <3> DEFINE x == height + 1 - chan[c].height
    <3>1. x \in Int
      BY <1>3, <2>2
    <3> HIDE DEF x
    <3>2. x % Wrap \in 0..(Wrap - 1)
      BY <1>3, <3>1, DivMod
    <3> QED BY <1>3, <3>2 DEF confirmations, x
  <2> QED BY <1>1, <2>1, <2>2, <2>3, <2>4 DEF InsightOK
<1>6. \A i, j \in insights' : i.chan = j.chan => i = j
  BY <1>4
<1>7. stage' = "done" => Judged'
  <2> SUFFICES ASSUME stage' = "done" PROVE Judged'
    OBVIOUS
  <2>1. Recs(insights') = Recs(insights)'
    BY <1>1 DEF Recs, Data, Multiplier
  <2>2. req'.kind = "insights" => answer' = insights'
    BY <1>1
  <2>3. req'.kind \in {"outlier", "threshold"} =>
          req'.metric \in Metrics /\ answer' \in rpcResponse(Recs(insights))'
    BY <1>1, <2>1
  <2> QED BY <1>5, <1>6, <2>2, <2>3 DEF Judged
<1>8. stage' \notin {"height", "insights"}
  BY <1>1
<1> QED BY <1>1, <1>2, <1>7, <1>8 DEF JudgeInv, Answered

\* Every step keeps what is judged right.
LEMMA JudgeInvNext == JudgeInv /\ AgeInv /\ [Next]_vars => JudgeInv'
<1> SUFFICES ASSUME JudgeInv, AgeInv, [Next]_vars PROVE JudgeInv'
  OBVIOUS
<1>1. CASE OpenChannels
  BY <1>1, JudgeInvListing
<1>2. CASE ForwardingHistory
  <2>1. /\ stage = "forwards" /\ UNCHANGED <<req, known>>
        /\ stage' \in {"forwards", "done", "height"}
        /\ stage' = "done" => req.kind = "revenue"
        /\ stage' = "height" => report' = getReport(events', getRevenueEvents(known, events'))
    BY <1>2 DEF ForwardingHistory
  <2> QED BY <2>1 DEF JudgeInv, Answered, Earned
<1>3. CASE CurrentHeight
  <2>1. stage = "height" /\ stage' = "insights" /\ UNCHANGED <<req, known, events, report>>
    BY <1>3 DEF CurrentHeight
  <2> QED BY <2>1 DEF JudgeInv, Answered, Earned
<1>4. CASE CallBegins \/ ListChannels \/ ClosedChannels \/ CallFails
  <2>1. stage' \in {"failed", "open", "closed", "forwards"} /\ UNCHANGED req
    BY <1>4 DEF CallBegins, ListChannels, ClosedChannels, CallFails
  <2> QED BY <2>1 DEF JudgeInv, Answered
<1>5. CASE LndMoves
  BY <1>5, JudgeInvFrame DEF LndMoves
<1>6. ASSUME NEW k \in Callers, CloseReport(k) PROVE UNCHANGED reportVars
  BY <1>6 DEF CloseReport, FindClosed, NotClosed, CacheHit, CacheMiss, NodeAnswers, Store,
     LookupFails, FundingRead, WalletFails, NextLookup, FeesKnown, Goto
<1>7. Confirms \/ Finished \/ UNCHANGED vars => UNCHANGED reportVars
  BY DEF Confirms, Finished, vars
<1> QED
  BY <1>1, <1>2, <1>3, <1>4, <1>5, <1>6, <1>7, JudgeInvFrame DEF Next, ReportsNext

\* The forwards that count.
Counted == getRevenueEvents(known, events)

\* What was read of the log.
LEMMA EventsIs ==
  ASSUME CountInv
  PROVE  /\ IsFiniteSet(DOMAIN events) /\ Counted \in SUBSET DOMAIN events
         /\ IsFiniteSet(Channels)
         /\ \A i \in DOMAIN events :
              /\ events[i].in \in Channels /\ events[i].out \in Channels
              /\ events[i].amtIn \in Nat /\ events[i].amtOut \in Nat /\ Fee(events[i]) \in Nat
<1>1. events \in Seq(LogEntry)
  BY DEF CountInv, Gathered
<1>2. Len(events) \in Nat /\ DOMAIN events = 1..Len(events)
  BY <1>1
<1>3. IsFiniteSet(DOMAIN events)
  BY <1>2, FS_Interval
<1>4. ASSUME NEW i \in DOMAIN events
      PROVE  /\ events[i].in \in Channels /\ events[i].out \in Channels
             /\ events[i].amtIn \in Nat /\ events[i].amtOut \in Nat /\ Fee(events[i]) \in Nat
  <2>1. events[i] \in LogEntry
    BY <1>1
  <2> QED BY <2>1 DEF LogEntry, Fee
<1>5. IsFiniteSet(Channels)
  BY ReportAssumption
<1> QED BY <1>3, <1>4, <1>5 DEF Counted, getRevenueEvents

\* Sums over some of them.
LEMMA TotalsIs ==
  ASSUME CountInv, NEW S \in SUBSET DOMAIN events
  PROVE  /\ Total(events, S, "amtIn") \in Nat /\ Total(events, S, "amtOut") \in Nat
         /\ TotalFees(events, S) \in Nat
<1>1. IsFiniteSet(S)
  BY EventsIs, FS_Subset
<1>2. \A i \in S : events[i]["amtIn"] \in Nat /\ events[i]["amtOut"] \in Nat /\ Fee(events[i]) \in Nat
  BY EventsIs
<1>3. /\ [i \in S |-> events[i]["amtIn"]] \in [S -> Nat]
      /\ [i \in S |-> events[i]["amtOut"]] \in [S -> Nat]
      /\ [i \in S |-> Fee(events[i])] \in [S -> Nat]
  BY <1>2
<1> QED BY <1>1, <1>3, AddUpType DEF Total, TotalFees

\* What the report says of a channel.
LEMMA ReportIs ==
  ASSUME CountInv, report = Earned, NEW c \in Channels
  PROVE  /\ PairsOf(report, c) = PairsWith(events, Counted, c)
         /\ PairsOf(report, c) \in SUBSET Channels /\ IsFiniteSet(PairsOf(report, c))
         /\ \A p \in PairsOf(report, c) : report[c][p] = Revenue(events, Counted, c, p)
<1> DEFINE W == {x \in Channels : PairsWith(events, Counted, x) # {}}
           Row(x) == [p \in PairsWith(events, Counted, x) |-> Revenue(events, Counted, x, p)]
<1>1. report = [x \in W |-> Row(x)]
  BY DEF Earned, Counted, getReport
<1>2. c \in DOMAIN report <=> PairsWith(events, Counted, c) # {}
  BY <1>1
<1>3. c \in DOMAIN report => report[c] = Row(c)
  BY <1>1
<1>4. PairsOf(report, c) = PairsWith(events, Counted, c)
  BY <1>2, <1>3 DEF PairsOf
<1>5. PairsWith(events, Counted, c) \in SUBSET Channels
  BY DEF PairsWith
<1>6. IsFiniteSet(PairsOf(report, c))
  BY <1>4, <1>5, EventsIs, FS_Subset
<1>7. \A p \in PairsOf(report, c) : report[c][p] = Revenue(events, Counted, c, p)
  BY <1>2, <1>3, <1>4
<1> QED BY <1>4, <1>5, <1>6, <1>7

\* What a channel and another of its pairs have earned.
LEMMA RevenueIs ==
  ASSUME CountInv, NEW c \in Channels, NEW p \in Channels
  PROVE  LET r == Revenue(events, Counted, c, p)
         IN  /\ r.amtIn \in Nat /\ r.amtOut \in Nat /\ r.feesIn \in Nat /\ r.feesOut \in Nat
             /\ r.feesIn = TotalFees(events, Between(events, Counted, c, p))
             /\ r.feesOut = TotalFees(events, Between(events, Counted, p, c))
<1> DEFINE r == Revenue(events, Counted, c, p)
           A == Between(events, Counted, c, p)
           B == Between(events, Counted, p, c)
<1>1. A \in SUBSET DOMAIN events /\ B \in SUBSET DOMAIN events
  BY EventsIs DEF Between
<1>2. /\ r.amtIn = Total(events, A, "amtIn") /\ r.amtOut = Total(events, B, "amtOut")
      /\ r.feesIn = TotalFees(events, A) /\ r.feesOut = TotalFees(events, B)
  BY DEF Revenue
<1> HIDE DEF A, B, r
<1>3. /\ Total(events, A, "amtIn") \in Nat /\ TotalFees(events, A) \in Nat
      /\ Total(events, B, "amtOut") \in Nat /\ TotalFees(events, B) \in Nat
  BY <1>1, TotalsIs
<1> QED BY <1>2, <1>3 DEF r, A, B

\* The sums of an insight.
LEMMA InsightSums ==
  ASSUME CountInv, report = Earned, NEW c \in Channels
  PROVE  /\ VolumeIncoming(report, c) \in Nat /\ VolumeOutgoing(report, c) \in Nat
         /\ FeesEarned(report, c) \in Nat
<1> DEFINE P == PairsOf(report, c)
<1>1. P \in SUBSET Channels /\ IsFiniteSet(P)
  BY ReportIs
<1> HIDE DEF P
<1>2. ASSUME NEW p \in P
      PROVE  /\ report[c][p].amtIn \in Nat /\ report[c][p].amtOut \in Nat
             /\ (report[c][p].feesOut + report[c][p].feesIn) \div 2 \in Nat
  <2>1. report[c][p] = Revenue(events, Counted, c, p)
    BY ReportIs DEF P
  <2>2. /\ report[c][p].amtIn \in Nat /\ report[c][p].amtOut \in Nat
        /\ report[c][p].feesOut + report[c][p].feesIn \in Nat
    BY <1>1, <2>1, RevenueIs
  <2> QED BY <2>2, Half
<1>3. /\ [p \in P |-> report[c][p].amtIn] \in [P -> Nat]
      /\ [p \in P |-> report[c][p].amtOut] \in [P -> Nat]
      /\ [p \in P |-> (report[c][p].feesOut + report[c][p].feesIn) \div 2] \in [P -> Nat]
  BY <1>2
<1> QED BY <1>1, <1>3, AddUpType DEF VolumeIncoming, VolumeOutgoing, FeesEarned, P

\* The channels that are considered make a dataset.
LEMMA DataIs ==
  ASSUME CountInv, JudgeInv, Answered({"outlier", "threshold"})
  PROVE  IsDataset(Data(insights))
<1>1. report = Earned /\ Judged /\ req.metric \in Metrics
  BY DEF JudgeInv, Judged, Answered
<1> DEFINE F == filterChannels(insights, req.min)
           D == {i.chan : i \in F}
           w(c) == CHOOSE i \in F : i.chan = c
<1>2. Data(insights) = [c \in D |-> MetricValue(w(c), req.metric)]
  BY DEF Data, DatasetOf
<1>3. \A i \in F : i \in insights /\ InsightOK(i)
  BY <1>1 DEF filterChannels, Judged
<1>4. IsFiniteSet(D)
  <2>1. D \in SUBSET Channels
    BY <1>3 DEF InsightOK
  <2> QED BY <2>1, EventsIs, FS_Subset
<1>5. Unit \in Int
  BY UnitAssumption
<1>6. ASSUME NEW x \in Nat, NEW y \in Nat PROVE Ratio(x, y) \in Floats
  <2>1. CASE y = 0
    BY <2>1 DEF Ratio, Floats
  <2>2. CASE y # 0
    <3>1. x * Unit \in Int
      BY <1>5
    <3>2. (x * Unit) \div y \in Int
      BY <2>2, <3>1, DivMod
    <3> QED BY <2>2, <3>2 DEF Ratio, Floats
  <2> QED BY <2>1, <2>2
<1>7. ASSUME NEW c \in D PROVE MetricValue(w(c), req.metric) \in Floats
  <2>1. w(c) \in F
    OBVIOUS
  <2>2. PICK i \in F : i = w(c)
    BY <2>1
  <2> HIDE DEF w, F
  <2>3. InsightOK(i)
    BY <1>3
  <2>4. /\ i.uptime \in Nat /\ i.monitored \in Nat /\ i.conf \in Nat
        /\ i.fees \in Nat /\ i.volIn \in Nat /\ i.volOut \in Nat
    BY <1>1, <2>3, InsightSums DEF InsightOK
  <2>5. i.volIn + i.volOut \in Nat
    BY <2>4
  <2>6. /\ Ratio(i.uptime, i.monitored) \in Floats /\ Ratio(i.fees, i.conf) \in Floats
        /\ Ratio(i.volIn, i.conf) \in Floats /\ Ratio(i.volOut, i.conf) \in Floats
        /\ Ratio(i.volIn + i.volOut, i.conf) \in Floats
    BY <1>6, <2>4, <2>5
  <2>7. MetricValue(i, req.metric) \in Floats
    BY <1>1, <2>6 DEF MetricValue, Metrics
  <2> QED BY <2>2, <2>7
<1> HIDE DEF w, D
<1> QED BY <1>2, <1>4, <1>7 DEF IsDataset

\* The recommendations: one of each channel.
LEMMA VerdictsIs ==
  ASSUME NEW d, IsFiniteSet(DOMAIN d), NEW closing
  PROVE  /\ IsFiniteSet(Verdicts(d, closing))
         /\ Cardinality(Verdicts(d, closing)) = Cardinality(DOMAIN d)
         /\ \A r \in Verdicts(d, closing) :
              /\ r.chan \in DOMAIN d /\ r.value = d[r.chan]
              /\ (r.close <=> r.chan \in closing)
         /\ \A r, s \in Verdicts(d, closing) : r.chan = s.chan => r = s
<1> DEFINE V(c) == [chan |-> c, value |-> d[c], close |-> c \in closing]
           f == [c \in DOMAIN d |-> V(c)]
<1>1. Verdicts(d, closing) = {V(c) : c \in DOMAIN d}
  BY DEF Verdicts
<1>2. \A c \in DOMAIN d : V(c).chan = c /\ V(c).value = d[c] /\ V(c).close = (c \in closing)
  OBVIOUS
<1> HIDE DEF V
<1>3. /\ f \in [DOMAIN d -> Verdicts(d, closing)] /\ \A c \in DOMAIN d : f[c] = V(c)
  BY <1>1
<1>4. \A a, b \in DOMAIN d : f[a] = f[b] => a = b
  BY <1>2, <1>3
<1>5. \A r \in Verdicts(d, closing) : \E c \in DOMAIN d : f[c] = r
  BY <1>1, <1>3
<1> HIDE DEF f
<1>6. f \in Bijection(DOMAIN d, Verdicts(d, closing))
  <2>1. f \in Injection(DOMAIN d, Verdicts(d, closing))
    BY <1>3, <1>4 DEF Injection, IsInjective
  <2>2. f \in Surjection(DOMAIN d, Verdicts(d, closing))
    BY <1>3, <1>5 DEF Surjection
  <2> QED BY <2>1, <2>2 DEF Bijection
<1>7. /\ IsFiniteSet(Verdicts(d, closing))
      /\ Cardinality(Verdicts(d, closing)) = Cardinality(DOMAIN d)
  <2>1. ExistsBijection(DOMAIN d, Verdicts(d, closing))
    BY <1>6 DEF ExistsBijection
  <2> QED BY <2>1, FS_Bijection
<1>8. ASSUME NEW r \in Verdicts(d, closing)
      PROVE  r.chan \in DOMAIN d /\ r = V(r.chan)
  BY <1>1, <1>2
<1>9. ASSUME NEW r \in Verdicts(d, closing)
      PROVE  r.value = d[r.chan] /\ (r.close <=> r.chan \in closing)
  <2>1. r.value = d[r.chan]
    BY <1>2, <1>8
  <2>2. r.close = (r.chan \in closing)
    <3>1. r.chan \in DOMAIN d /\ r = V(r.chan)
      BY <1>8
    <3>2. V(r.chan).close = (r.chan \in closing)
      BY <1>2, <3>1, Zenon
    <3> QED BY <3>1, <3>2, Zenon
  <2>3. r.close <=> r.chan \in closing
    BY <2>2, Zenon
  <2> QED BY <2>1, <2>3
<1>10. \A r, s \in Verdicts(d, closing) : r.chan = s.chan => r = s
  <2>1. ASSUME NEW r \in Verdicts(d, closing), NEW s \in Verdicts(d, closing), r.chan = s.chan
        PROVE  r = s
    BY <1>8, <2>1, Zenon
  <2> QED BY <2>1
<1> HIDE DEF V
<1> QED BY <1>7, <1>8, <1>9, <1>10

\* A float32 exists that is nearest, and the conversion finds it.
LEMMA NearestIs ==
  ASSUME NEW v \in Int
  PROVE  /\ float32(v) \in Float32s /\ float32(v) \in Int
         /\ \A s \in Float32s : Distance(v, float32(v)) <= Distance(v, s)
<1> DEFINE D == {Distance(v, s) : s \in Float32s}
           Nearest(r) == \A s \in Float32s : Distance(v, r) <= Distance(v, s)
<1>1. D \subseteq Nat /\ D # {}
  BY Float32Assumption DEF Distance
<1>2. PICK n \in D : \A m \in D : n <= m
  <2> HIDE DEF D
  <2> QED BY <1>1, LeastNatural
<1>3. \E r \in Float32s : Nearest(r)
  BY <1>2
<1>4. float32(v) = CHOOSE r \in Float32s : Nearest(r)
  BY UnitAssumption DEF float32
<1> HIDE DEF Nearest
<1>5. float32(v) \in Float32s /\ Nearest(float32(v))
  BY <1>3, <1>4
<1> QED BY <1>5, Float32Assumption DEF Nearest

\* The conversion keeps the order of values, and what is a float32.
LEMMA NarrowIs ==
  ASSUME NEW v \in Floats, NEW w \in Floats
  PROVE  /\ float32(v) \in Floats /\ (float32(v) = NaN <=> v = NaN)
         /\ AtMost(v, w) => AtMost(float32(v), float32(w))
         /\ v \in Float32s => float32(v) = v
<1>1. NaN \notin Int /\ float32(NaN) = NaN
  BY UnitAssumption DEF float32
<1>2. CASE v = NaN
  BY <1>1, <1>2, Float32Assumption DEF Floats, AtMost
<1>3. CASE v \in Int
  <2>1. PICK r \in Int : /\ r = float32(v) /\ r \in Float32s
                         /\ \A s \in Float32s : Distance(v, r) <= Distance(v, s)
    BY <1>3, NearestIs
  <2>2. v \in Float32s => r = v
    BY <1>3, <2>1 DEF Distance
  <2>3. CASE w = NaN
    BY <1>1, <1>3, <2>1, <2>2, <2>3 DEF Floats, AtMost
  <2>4. CASE w \in Int
    <3>1. PICK t \in Int : /\ t = float32(w) /\ t \in Float32s
                           /\ \A s \in Float32s : Distance(w, t) <= Distance(w, s)
      BY <2>4, NearestIs
    <3>2. Distance(v, r) <= Distance(v, t) /\ Distance(w, t) <= Distance(w, r)
      BY <2>1, <3>1
    <3>3. v < w => r <= t
      BY <1>3, <2>1, <2>4, <3>1, <3>2 DEF Distance
    <3>4. v = w => r = t
      BY <2>1, <3>1
    <3>5. v <= w => r <= t
      BY <1>3, <2>4, <3>1, <3>3, <3>4
    <3> QED BY <1>1, <1>3, <2>1, <2>2, <2>4, <3>1, <3>5 DEF Floats, AtMost
  <2> QED BY <2>3, <2>4 DEF Floats
<1> QED BY <1>2, <1>3 DEF Floats

\* A dataset in float32.
Narrow(d) == [c \in DOMAIN d |-> float32(d[c])]

\* Verdicts are narrowed in their values only.
LEMMA NarrowedIs ==
  ASSUME NEW d, NEW closing
  PROVE  Narrowed(Verdicts(d, closing)) = Verdicts(Narrow(d), closing)
<1> DEFINE V(c) == [chan |-> c, value |-> d[c], close |-> c \in closing]
           W(c) == [chan |-> c, value |-> float32(d[c]), close |-> c \in closing]
<1>1. \A c \in DOMAIN d : [V(c) EXCEPT !.value = float32(@)] = W(c)
  OBVIOUS
<1>2. Narrowed(Verdicts(d, closing)) = {[V(c) EXCEPT !.value = float32(@)] : c \in DOMAIN d}
  <2>1. Verdicts(d, closing) = {V(c) : c \in DOMAIN d}
    BY DEF Verdicts
  <2> HIDE DEF V
  <2> QED BY <2>1 DEF Narrowed
<1>3. Verdicts(Narrow(d), closing) = {W(c) : c \in DOMAIN d}
  BY DEF Verdicts, Narrow
<1> HIDE DEF V, W
<1> QED BY <1>1, <1>2, <1>3

\* All of them are arranged.
LEMMA ArrangedIs ==
  ASSUME NEW Q, NEW R, R = Narrowed(Q), IsFiniteSet(R), NEW a \in rpcResponse(Q),
         \A q \in Q : q.value = NaN => \E r \in R : r.value = NaN
  PROVE  /\ a \in Seq(R) /\ Len(a) = Cardinality(R)
         /\ \A i, j \in DOMAIN a : a[i] = a[j] => i = j
         /\ (\A i \in DOMAIN a : a[i].value # NaN) => InValueOrder(a)
<1> DEFINE n == Cardinality(R)
<1>1. n \in Nat /\ IsFiniteSet(1..n) /\ Cardinality(1..n) = n
  BY FS_CardinalityType, FS_Interval
<1>2. /\ a \in [1..n -> R] /\ \A i, j \in 1..n : i # j => a[i] # a[j]
      /\ (\E r \in R : r.value = NaN) \/ InValueOrder(a)
  BY DEF rpcResponse, SetToSeqs
<1> HIDE DEF n
<1>3. a \in Seq(R) /\ Len(a) = n /\ DOMAIN a = 1..n
  BY <1>1, <1>2
<1>4. a \in Injection(1..n, R)
  BY <1>2 DEF Injection, IsInjective
<1>5. a \in Surjection(1..n, R)
  BY <1>1, <1>4, FS_Injection DEF n
<1>6. \A r \in R : \E i \in DOMAIN a : a[i] = r
  BY <1>3, <1>5 DEF Surjection
<1> QED BY <1>2, <1>3, <1>6 DEF n

\* Whoever is no better than an outlier is one.
LEMMA OutliersBelow ==
  ASSUME NEW d, IsDataset(d), NEW mult \in Int, NEW a \in GetOutliers(d, mult),
         NEW b \in DOMAIN d, AtMost(d[b], d[a])
  PROVE  b \in GetOutliers(d, mult)
<1> DEFINE q == quartiles(d)
           x == q.lower - (((q.upper - q.lower) * mult) \div 2)
<1>1. Cardinality(DOMAIN d) \in Nat /\ ~(Cardinality(DOMAIN d) < 3)
  BY CountsIs DEF GetOutliers
<1>2. GetOutliers(d, mult) = {l \in DOMAIN d : LowerOutlier(d[l], q, mult)}
  BY <1>1 DEF GetOutliers
<1>3. /\ NaN \notin {q.lower, q.upper} /\ d[a] # NaN /\ x # NaN /\ d[a] < x /\ a \in DOMAIN d
  BY <1>2 DEF LowerOutlier, Less
<1>4. q.lower \in Int /\ q.upper \in Int
  <2>1. Cardinality(DOMAIN d) >= 3
    BY <1>1
  <2> QED BY <1>3, <2>1, QuartilesIs
<1>5. x \in Int
  <2>1. (q.upper - q.lower) * mult \in Int
    BY <1>4
  <2>2. ((q.upper - q.lower) * mult) \div 2 \in Int
    BY <2>1, DivMod
  <2> QED BY <1>4, <2>2
<1>6. d[b] # NaN /\ d[b] <= d[a] /\ d[a] \in Int /\ d[b] \in Int
  BY <1>3 DEF AtMost, IsDataset, Floats
<1> HIDE DEF x
<1>7. d[b] < x
  BY ONLY <1>3, <1>5, <1>6
<1>8. LowerOutlier(d[b], q, mult)
  BY <1>3, <1>6, <1>7 DEF LowerOutlier, Less, x
<1> QED BY <1>2, <1>8

\* For any channels, values and forwards: outliers are at most a quarter of the
\* channels considered, closing one closes all that are answered with less, a
\* threshold is met as far as a float32 tells, and the answer is in order
\* (RecommendationsSound).
THEOREM RecommendationsAlwaysSound == Spec => []RecommendationsSound
<1>1. ASSUME AgeInv, CountInv, JudgeInv PROVE RecommendationsSound
  <2> SUFFICES ASSUME Answered({"outlier", "threshold"}) PROVE RecommendationsSound
    BY DEF RecommendationsSound
  <2> DEFINE C == {i \in DOMAIN answer : answer[i].close}
             d == Data(insights)
             e == Narrow(d)
             Q == Recs(insights)
             R == Narrowed(Q)
  <2>1. IsDataset(d) /\ Cardinality(DOMAIN d) \in Nat
    BY <1>1, DataIs, CountsIs
  <2>2. /\ answer \in rpcResponse(Q) /\ req.kind \in {"outlier", "threshold"}
        /\ {req.mult, req.threshold} \subseteq Int /\ req.threshold \in Float32s
    BY <1>1, Float32Assumption DEF JudgeInv, Judged, Answered
  <2>3. Multiplier \in Int
    BY <2>2 DEF Multiplier, DefaultOutlierMultiplier
  <2> HIDE DEF d
  <2>4. PICK S : /\ Q = Verdicts(d, S)
                 /\ S = IF req.kind = "outlier" THEN GetOutliers(d, Multiplier)
                        ELSE GetThreshold(d, req.threshold)
    BY DEF Recs, OutlierRecs, ThresholdRecs, d
  <2>e. DOMAIN e = DOMAIN d /\ \A c \in DOMAIN d : e[c] = float32(d[c])
    BY DEF Narrow
  <2>n. R = Verdicts(e, S)
    BY <2>4, NarrowedIs
  <2> HIDE DEF Q, R, e
  <2>5. /\ IsFiniteSet(R) /\ Cardinality(R) = Cardinality(DOMAIN d)
        /\ \A r \in R : /\ r.chan \in DOMAIN d /\ r.value = e[r.chan]
                        /\ (r.close <=> r.chan \in S)
        /\ \A r, s \in R : r.chan = s.chan => r = s
    BY <2>1, <2>e, <2>n, VerdictsIs DEF IsDataset
  <2>q. ASSUME NEW q \in Q, q.value = NaN PROVE \E r \in R : r.value = NaN
    <3>1. q.chan \in DOMAIN d /\ d[q.chan] = NaN
      BY <2>1, <2>4, <2>q, VerdictsIs DEF IsDataset
    <3>2. e[q.chan] = NaN
      BY <2>e, <3>1 DEF float32
    <3> DEFINE r0 == [chan |-> q.chan, value |-> e[q.chan], close |-> q.chan \in S]
    <3>3. r0 \in R /\ r0.value = e[q.chan]
      BY <2>e, <2>n, <3>1, Zenon DEF Verdicts
    <3> HIDE DEF r0
    <3> QED BY <3>2, <3>3
  <2>6. /\ answer \in Seq(R) /\ Len(answer) = Cardinality(R)
        /\ \A i, j \in DOMAIN answer : answer[i] = answer[j] => i = j
        /\ (\A i \in DOMAIN answer : answer[i].value # NaN) => InValueOrder(answer)
    <3>1. R = Narrowed(Q)
      BY DEF R
    <3> QED BY <2>2, <2>5, <2>q, <3>1, ArrangedIs
  <2>7. \A i \in DOMAIN answer : answer[i] \in R
    BY <2>6
  <2>8. ASSUME req.kind = "outlier", Multiplier >= 0 PROVE 4 * Cardinality(C) <= Len(answer)
    <3>1. /\ S \in SUBSET DOMAIN d /\ 4 * Cardinality(S) <= Cardinality(DOMAIN d)
      BY <2>1, <2>3, <2>4, <2>8, FewOutliers
    <3>2. IsFiniteSet(S)
      BY <2>1, <3>1, FS_Subset DEF IsDataset
    <3> DEFINE g == [i \in C |-> answer[i].chan]
    <3>3. \A i \in C : answer[i].chan \in S /\ answer[i] \in R
      BY <2>5, <2>7
    <3>4. g \in [C -> S] /\ \A i \in C : g[i] = answer[i].chan
      BY <3>3
    <3>5. \A i, j \in C : g[i] = g[j] => i = j
      BY <2>5, <2>6, <3>3, <3>4
    <3> HIDE DEF g
    <3>6. g \in Injection(C, S)
      BY <3>4, <3>5 DEF Injection, IsInjective
    <3>7. Cardinality(C) <= Cardinality(S) /\ IsFiniteSet(C)
      BY <3>2, <3>6, FS_Injection
    <3>8. Cardinality(C) \in Nat /\ Cardinality(S) \in Nat
      BY <3>2, <3>7, FS_CardinalityType
    <3> HIDE DEF C
    <3> QED BY <2>1, <2>5, <2>6, <3>1, <3>7, <3>8
  <2>9. ASSUME NEW a \in DOMAIN d, NEW b \in DOMAIN d
        PROVE  /\ d[a] \in Floats /\ d[b] \in Floats
               /\ Less(e[b], e[a]) => AtMost(d[b], d[a])
    <3>1. d[a] \in Floats /\ d[b] \in Floats
      BY <2>1 DEF IsDataset
    <3>2. AtMost(d[a], d[b]) => AtMost(e[a], e[b])
      BY <2>e, <3>1, NarrowIs
    <3>3. e[a] \in Floats /\ e[b] \in Floats
          /\ (e[a] = NaN <=> d[a] = NaN) /\ (e[b] = NaN <=> d[b] = NaN)
      BY <2>e, <3>1, NarrowIs
    <3> QED BY <3>1, <3>2, <3>3 DEF AtMost, Less, Floats
  <2>10. ASSUME NEW i \in C, NEW j \in DOMAIN answer, Less(answer[j].value, answer[i].value)
         PROVE  j \in C
    <3>1. answer[i] \in R /\ answer[j] \in R /\ answer[i].close
      BY <2>7
    <3>2. PICK a \in DOMAIN d : a = answer[i].chan /\ a \in S /\ answer[i].value = e[a]
      BY <2>5, <3>1
    <3>3. PICK b \in DOMAIN d : b = answer[j].chan /\ answer[j].value = e[b]
      BY <2>5, <3>1
    <3>4. AtMost(d[b], d[a]) /\ d[a] \in Floats /\ d[b] \in Floats
      BY <2>9, <2>10, <3>2, <3>3
    <3>5. b \in S
      <4>1. CASE req.kind = "outlier"
        <5>1. S = GetOutliers(d, Multiplier)
          BY <2>4, <4>1
        <5>2. a \in GetOutliers(d, Multiplier)
          BY <3>2, <5>1
        <5>3. b \in GetOutliers(d, Multiplier)
          BY <2>1, <2>3, <3>4, <5>2, OutliersBelow
        <5> QED BY <5>1, <5>3
      <4>2. CASE req.kind # "outlier"
        <5>1. S = {l \in DOMAIN d : AtMost(d[l], req.threshold)}
          BY <2>4, <4>2 DEF GetThreshold
        <5>2. AtMost(d[a], req.threshold) /\ req.threshold \in Int
          BY <2>2, <3>2, <5>1
        <5>3. AtMost(d[b], req.threshold)
          BY <3>4, <5>2 DEF AtMost, Floats
        <5> QED BY <5>1, <5>3
      <4> QED BY <4>1, <4>2
    <3> QED BY <2>5, <3>1, <3>3, <3>5
  <2>11. ASSUME req.kind = "threshold", NEW i \in DOMAIN answer
         PROVE  /\ i \in C => AtMost(answer[i].value, req.threshold)
                /\ Less(answer[i].value, req.threshold) => i \in C
    <3>1. answer[i] \in R
      BY <2>7
    <3>2. PICK a \in DOMAIN d : a = answer[i].chan /\ answer[i].value = e[a]
                                /\ (answer[i].close <=> a \in S)
      BY <2>5, <3>1
    <3>3. a \in S <=> AtMost(d[a], req.threshold)
      BY <2>4, <2>11 DEF GetThreshold
    <3>4. d[a] \in Floats /\ req.threshold \in Floats /\ req.threshold \in Int
      BY <2>2, <2>9 DEF Floats
    <3>5. /\ AtMost(d[a], req.threshold) => AtMost(e[a], req.threshold)
          /\ AtMost(req.threshold, d[a]) => AtMost(req.threshold, e[a])
          /\ e[a] \in Floats /\ (e[a] = NaN <=> d[a] = NaN)
      BY <2>2, <2>e, <3>4, NarrowIs
    <3>6. Less(e[a], req.threshold) => AtMost(d[a], req.threshold)
      BY <3>4, <3>5 DEF AtMost, Less, Floats
    <3> QED BY <3>2, <3>3, <3>5, <3>6
  <2> HIDE DEF C
  <2>12. C = {i \in DOMAIN answer : answer[i].close}
    BY DEF C
  <2> QED BY <2>6, <2>8, <2>10, <2>11, <2>12 DEF RecommendationsSound
<1> QED
  BY <1>1, AgeInvInit, AgeInvNext, CountInvInit, CountInvNext, JudgeInvInit, JudgeInvNext,
     PTL DEF Spec

-----------------------------------------------------------------------------
(* The fees of the insights. *)

\* The fee of every forward that was read, and its channels.
FeeAt == [i \in DOMAIN events |-> Fee(events[i])]
InAt  == [i \in DOMAIN events |-> events[i].in]
OutAt == [i \in DOMAIN events |-> events[i].out]

\* The fees that came in and went out over a channel.
FeesIn(c)  == Over(FeeAt, Grouped(Counted, InAt, c))
FeesOut(c) == Over(FeeAt, Grouped(Counted, OutAt, c))

\* Sums over forwards.
LEMMA FeesOver ==
  ASSUME CountInv
  PROVE  /\ \A i \in DOMAIN events : /\ FeeAt[i] \in Nat /\ InAt[i] \in Channels /\ OutAt[i] \in Channels
                                     /\ InAt[i] = events[i].in /\ OutAt[i] = events[i].out
         /\ \A S \in SUBSET DOMAIN events : TotalFees(events, S) = Over(FeeAt, S)
                                            /\ Over(FeeAt, S) \in Nat
         /\ \A c : FeesIn(c) \in Nat /\ FeesOut(c) \in Nat
<1>1. \A i \in DOMAIN events : FeeAt[i] \in Nat /\ FeeAt[i] = Fee(events[i])
  BY EventsIs DEF FeeAt
<1>2. ASSUME NEW S \in SUBSET DOMAIN events
      PROVE  TotalFees(events, S) = Over(FeeAt, S) /\ Over(FeeAt, S) \in Nat
  <2>1. [i \in S |-> Fee(events[i])] = [i \in S |-> FeeAt[i]]
    BY <1>1
  <2>2. TotalFees(events, S) = Over(FeeAt, S)
    BY <2>1 DEF TotalFees, Over
  <2>3. Over(FeeAt, S) \in Nat
    BY <1>1, EventsIs, OverIs
  <2> QED BY <2>2, <2>3
<1>3. ASSUME NEW c PROVE FeesIn(c) \in Nat /\ FeesOut(c) \in Nat
  <2>1. Grouped(Counted, InAt, c) \in SUBSET DOMAIN events /\ Grouped(Counted, OutAt, c) \in SUBSET DOMAIN events
    BY EventsIs DEF Grouped
  <2> QED BY <1>2, <2>1 DEF FeesIn, FeesOut
<1>4. \A i \in DOMAIN events : /\ InAt[i] \in Channels /\ OutAt[i] \in Channels
                               /\ InAt[i] = events[i].in /\ OutAt[i] = events[i].out
  BY EventsIs DEF InAt, OutAt
<1> QED BY <1>1, <1>2, <1>3, <1>4

\* The pairs of a channel take its fees apart.
LEMMA PairsTakeApart ==
  ASSUME CountInv, NEW c \in Channels
  PROVE  LET P == PairsWith(events, Counted, c)
         IN  /\ Over([p \in P |-> TotalFees(events, Between(events, Counted, c, p))], P) = FeesIn(c)
             /\ Over([p \in P |-> TotalFees(events, Between(events, Counted, p, c))], P) = FeesOut(c)
<1> DEFINE P == PairsWith(events, Counted, c)
           A == Grouped(Counted, InAt, c)
           B == Grouped(Counted, OutAt, c)
<1>1. P \in SUBSET Channels /\ IsFiniteSet(P)
  <2>1. P \in SUBSET Channels
    BY DEF PairsWith
  <2> QED BY <2>1, EventsIs, FS_Subset
<1>2. /\ A \in SUBSET DOMAIN events /\ B \in SUBSET DOMAIN events
      /\ IsFiniteSet(A) /\ IsFiniteSet(B)
  <2>1. A \in SUBSET DOMAIN events /\ B \in SUBSET DOMAIN events
    BY EventsIs DEF Grouped
  <2> QED BY <2>1, EventsIs, FS_Subset
<1>3. \A i \in Counted : i \in DOMAIN events /\ InAt[i] = events[i].in /\ OutAt[i] = events[i].out
                         /\ FeeAt[i] \in Nat /\ InAt[i] \in Channels /\ OutAt[i] \in Channels
  BY EventsIs, FeesOver
<1>4. \A i \in A : i \in Counted /\ InAt[i] = c
  BY DEF Grouped
<1>5. \A i \in B : i \in Counted /\ OutAt[i] = c
  BY DEF Grouped
<1>6. \A p : Grouped(A, OutAt, p) = Between(events, Counted, c, p)
  BY <1>3 DEF Grouped, Between
<1>7. \A p : Grouped(B, InAt, p) = Between(events, Counted, p, c)
  BY <1>3 DEF Grouped, Between
<1>8. \A i \in A : OutAt[i] \in P
  <2>1. ASSUME NEW i \in A PROVE OutAt[i] \in P
    <3>1. i \in Between(events, Counted, c, OutAt[i]) /\ OutAt[i] \in Channels
      BY <1>3, <1>4 DEF Between
    <3> QED BY <3>1 DEF PairsWith
  <2> QED BY <2>1
<1>9. \A i \in B : InAt[i] \in P
  <2>1. ASSUME NEW i \in B PROVE InAt[i] \in P
    <3>1. i \in Between(events, Counted, InAt[i], c) /\ InAt[i] \in Channels
      BY <1>3, <1>5 DEF Between
    <3> QED BY <3>1 DEF PairsWith
  <2> QED BY <2>1
<1>10. /\ (\A i \in A : FeeAt[i] \in Nat) /\ (\A i \in B : FeeAt[i] \in Nat)
  BY <1>3, <1>4, <1>5
<1> HIDE DEF P, A, B
<1>11. /\ Over([p \in P |-> Over(FeeAt, Grouped(A, OutAt, p))], P) = Over(FeeAt, A)
  BY <1>1, <1>2, <1>8, <1>10, OverParts
<1>12. /\ Over([p \in P |-> Over(FeeAt, Grouped(B, InAt, p))], P) = Over(FeeAt, B)
  BY <1>1, <1>2, <1>9, <1>10, OverParts
<1>13. \A p \in P : TotalFees(events, Between(events, Counted, c, p)) = Over(FeeAt, Grouped(A, OutAt, p))
  <2>1. \A p : Grouped(A, OutAt, p) \in SUBSET DOMAIN events
    BY <1>2 DEF Grouped
  <2> QED BY <1>6, <2>1, FeesOver
<1>14. \A p \in P : TotalFees(events, Between(events, Counted, p, c)) = Over(FeeAt, Grouped(B, InAt, p))
  <2>1. \A p : Grouped(B, InAt, p) \in SUBSET DOMAIN events
    BY <1>2 DEF Grouped
  <2> QED BY <1>7, <2>1, FeesOver
<1>15. /\ [p \in P |-> TotalFees(events, Between(events, Counted, c, p))]
            = [p \in P |-> Over(FeeAt, Grouped(A, OutAt, p))]
       /\ [p \in P |-> TotalFees(events, Between(events, Counted, p, c))]
            = [p \in P |-> Over(FeeAt, Grouped(B, InAt, p))]
  BY <1>13, <1>14
<1> QED BY <1>11, <1>12, <1>15 DEF FeesIn, FeesOut, P, A, B

\* A channel's fees: half of what came in and went out, less at most a half for
\* each of its pairs.
LEMMA FeesEarnedIs ==
  ASSUME CountInv, report = Earned, NEW c \in Channels
  PROVE  /\ FeesEarned(report, c) \in Nat /\ Cardinality(PairsWith(events, Counted, c)) \in Nat
         /\ FeesIn(c) \in Nat /\ FeesOut(c) \in Nat
         /\ 2 * FeesEarned(report, c) <= FeesIn(c) + FeesOut(c)
         /\ FeesIn(c) + FeesOut(c)
              <= 2 * FeesEarned(report, c) + Cardinality(PairsWith(events, Counted, c))
<1> DEFINE P == PairsWith(events, Counted, c)
           a == [p \in P |-> TotalFees(events, Between(events, Counted, c, p))]
           b == [p \in P |-> TotalFees(events, Between(events, Counted, p, c))]
           e == [p \in P |-> (report[c][p].feesOut + report[c][p].feesIn) \div 2]
           one == [p \in P |-> 1]
           s == [p \in P |-> a[p] + b[p]]
           t == [p \in P |-> e[p] + e[p]]
           u == [p \in P |-> t[p] + one[p]]
<1>1. /\ P = PairsOf(report, c) /\ P \in SUBSET Channels /\ IsFiniteSet(P)
      /\ \A p \in P : report[c][p] = Revenue(events, Counted, c, p)
  BY ReportIs
<1>2. FeesEarned(report, c) = AddUp(e)
  BY <1>1 DEF FeesEarned
<1>3. Over(a, P) = FeesIn(c) /\ Over(b, P) = FeesOut(c)
  BY PairsTakeApart
<1> HIDE DEF P
<1>4. ASSUME NEW p \in P
      PROVE  /\ a[p] \in Nat /\ b[p] \in Nat /\ e[p] \in Nat
             /\ e[p] + e[p] <= a[p] + b[p] /\ a[p] + b[p] <= e[p] + e[p] + 1
  <2>1. /\ report[c][p].feesIn = a[p] /\ report[c][p].feesOut = b[p] /\ a[p] \in Nat /\ b[p] \in Nat
    BY <1>1, RevenueIs
  <2>2. e[p] = (b[p] + a[p]) \div 2
    BY <2>1
  <2> DEFINE x == a[p]
             y == b[p]
             z == e[p]
  <2>3. x \in Nat /\ y \in Nat /\ z = (y + x) \div 2
    BY <2>1, <2>2
  <2> HIDE DEF x, y, z
  <2>4. z \in Nat /\ z + z <= x + y /\ x + y <= z + z + 1
    BY ONLY <2>3
  <2> QED BY <2>4, <2>3 DEF x, y, z
<1>5. \A p \in P : /\ s[p] = a[p] + b[p] /\ t[p] = e[p] + e[p] /\ u[p] = t[p] + one[p] /\ one[p] = 1
  OBVIOUS
<1>6. e \in [P -> Nat]
  BY <1>4
<1> HIDE DEF a, b, e, s, t, u, one
<1>7. \A p \in P : /\ s[p] \in Nat /\ t[p] \in Nat /\ u[p] \in Nat /\ one[p] \in Nat
                   /\ t[p] <= s[p] /\ s[p] <= u[p]
  BY <1>4, <1>5
<1>8. Over(s, P) = Over(a, P) + Over(b, P)
  BY <1>1, <1>4, <1>5, OverPlus
<1>9. Over(t, P) = Over(e, P) + Over(e, P)
  BY <1>1, <1>4, <1>5, OverPlus
<1>10. Over(u, P) = Over(t, P) + Over(one, P)
  BY <1>1, <1>5, <1>7, OverPlus
<1>11. Cardinality(P) \in Nat /\ Over(one, P) = 1 * Cardinality(P)
  BY <1>1, <1>5, OverSame
<1>12. Over(t, P) <= Over(s, P)
  BY <1>1, <1>7, OverMonotone
<1>13. Over(s, P) <= Over(u, P)
  BY <1>1, <1>7, OverMonotone
<1>14. FeesEarned(report, c) = Over(e, P) /\ FeesEarned(report, c) \in Nat
  BY <1>1, <1>2, <1>6, AddUpType
<1>15. FeesIn(c) \in Nat /\ FeesOut(c) \in Nat
  BY FeesOver
<1> DEFINE F == FeesEarned(report, c)
           I == FeesIn(c)
           O == FeesOut(c)
           n == Cardinality(P)
<1>16. /\ F \in Nat /\ I \in Nat /\ O \in Nat /\ n \in Nat
       /\ F + F <= I + O /\ I + O <= (F + F) + 1 * n
  BY <1>3, <1>8, <1>9, <1>10, <1>11, <1>12, <1>13, <1>14, <1>15
<1> HIDE DEF F, I, O, n
<1>17. 2 * F <= I + O /\ I + O <= 2 * F + n
  BY ONLY <1>16
<1> QED BY <1>16, <1>17 DEF F, I, O, n, P

\* The channels of a set have all their fees from different forwards.
LEMMA FeesAcross ==
  ASSUME CountInv, NEW O \in SUBSET Channels
  PROVE  LET total == TotalFees(events, DOMAIN events)
             I == Over([c \in O |-> FeesIn(c)], O)
             U == Over([c \in O |-> FeesOut(c)], O)
         IN  /\ total \in Nat /\ I \in Nat /\ U \in Nat /\ I <= total /\ U <= total
             /\ (Counted = DOMAIN events /\ \A i \in DOMAIN events : {InAt[i], OutAt[i]} \subseteq O)
                  => I = total /\ U = total
<1> DEFINE D == DOMAIN events
           A == {i \in Counted : InAt[i] \in O}
           B == {i \in Counted : OutAt[i] \in O}
<1>1. IsFiniteSet(D) /\ IsFiniteSet(O) /\ Counted \in SUBSET D
  BY EventsIs, FS_Subset
<1>2. \A i \in D : FeeAt[i] \in Nat
  BY FeesOver
<1>3. A \in SUBSET D /\ B \in SUBSET D /\ IsFiniteSet(A) /\ IsFiniteSet(B)
  <2>1. A \in SUBSET D /\ B \in SUBSET D
    BY <1>1
  <2> QED BY <1>1, <2>1, FS_Subset
<1>4. /\ \A i \in A : InAt[i] \in O /\ FeeAt[i] \in Nat
      /\ \A i \in B : OutAt[i] \in O /\ FeeAt[i] \in Nat
  BY <1>2, <1>3
<1>5. \A c \in O : Grouped(A, InAt, c) = Grouped(Counted, InAt, c) /\ Grouped(B, OutAt, c) = Grouped(Counted, OutAt, c)
  BY DEF Grouped
<1> HIDE DEF A, B
<1>6. Over([c \in O |-> Over(FeeAt, Grouped(A, InAt, c))], O) = Over(FeeAt, A)
  BY <1>1, <1>3, <1>4, OverParts
<1>7. Over([c \in O |-> Over(FeeAt, Grouped(B, OutAt, c))], O) = Over(FeeAt, B)
  BY <1>1, <1>3, <1>4, OverParts
<1>8. /\ [c \in O |-> FeesIn(c)] = [c \in O |-> Over(FeeAt, Grouped(A, InAt, c))]
      /\ [c \in O |-> FeesOut(c)] = [c \in O |-> Over(FeeAt, Grouped(B, OutAt, c))]
  BY <1>5 DEF FeesIn, FeesOut
<1>9. /\ TotalFees(events, D) = Over(FeeAt, D) /\ Over(FeeAt, D) \in Nat
      /\ Over(FeeAt, A) \in Nat /\ Over(FeeAt, B) \in Nat
  BY <1>3, FeesOver
<1>10. Over(FeeAt, A) <= Over(FeeAt, D) /\ Over(FeeAt, B) <= Over(FeeAt, D)
  BY <1>1, <1>2, <1>3, OverSubset
<1>11. (Counted = D /\ \A i \in D : {InAt[i], OutAt[i]} \subseteq O) => A = D /\ B = D
  BY DEF A, B
<1> HIDE DEF D
<1> QED BY <1>6, <1>7, <1>8, <1>9, <1>10, <1>11 DEF D

\* The channels a set of forwards goes over, two by two.
PairsRead == {{f.in, f.out} : f \in ToSet(events)}

\* Every pair has at most two channels that count it.
LEMMA PairsCountedTwice ==
  ASSUME CountInv, NEW O \in SUBSET Channels
  PROVE  LET n == Over([c \in O |-> Cardinality(PairsWith(events, Counted, c))], O)
         IN  n \in Nat /\ Cardinality(PairsRead) \in Nat /\ n <= 2 * Cardinality(PairsRead)
<1> DEFINE P(c) == PairsWith(events, Counted, c)
           Ord == {q \in O \X Channels : q[2] \in P(q[1])}
           fst == [q \in Ord |-> q[1]]
           und == [q \in Ord |-> {q[1], q[2]}]
           one == [q \in Ord |-> 1]
           N == [c \in O |-> Cardinality(P(c))]
           M == [u \in PairsRead |-> Over(one, Grouped(Ord, und, u))]
           two == [u \in PairsRead |-> 2]
<1>1. IsFiniteSet(O) /\ IsFiniteSet(Channels) /\ \A c : P(c) \in SUBSET Channels /\ IsFiniteSet(P(c))
  <2>1. \A c : P(c) \in SUBSET Channels
    BY DEF PairsWith
  <2> QED BY <2>1, EventsIs, FS_Subset
<1>2. IsFiniteSet(Ord)
  <2>1. Ord \in SUBSET (O \X Channels) /\ IsFiniteSet(O \X Channels)
    BY <1>1, FS_Product
  <2> QED BY <2>1, FS_Subset
<1>3. IsFiniteSet(PairsRead) /\ Cardinality(PairsRead) \in Nat
  <2>1. PairsRead \in SUBSET (SUBSET Channels)
    <3>1. \A f \in ToSet(events) : f.in \in Channels /\ f.out \in Channels
      BY EventsIs DEF ToSet
    <3> QED BY <3>1 DEF PairsRead
  <2>2. IsFiniteSet(SUBSET Channels)
    BY <1>1, FS_SUBSET
  <2> QED BY <2>1, <2>2, FS_Subset, FS_CardinalityType
<1>4. \A q \in Ord : /\ q[1] \in O /\ q[2] \in Channels /\ q[2] \in P(q[1]) /\ q = <<q[1], q[2]>>
                     /\ fst[q] = q[1] /\ und[q] = {q[1], q[2]} /\ one[q] = 1
  OBVIOUS
<1>5. \A c \in O : \A p \in P(c) : <<c, p>> \in Ord
  BY <1>1
<1>6. ASSUME NEW q \in Ord PROVE und[q] \in PairsRead
  <2>1. Between(events, Counted, q[1], q[2]) \cup Between(events, Counted, q[2], q[1]) # {}
    BY <1>4 DEF PairsWith
  <2>2. PICK i \in Counted : {events[i].in, events[i].out} = {q[1], q[2]}
    BY <2>1 DEF Between
  <2>3. events[i] \in ToSet(events)
    BY <2>2, EventsIs DEF ToSet
  <2> QED BY <1>4, <2>2, <2>3 DEF PairsRead
<1>7. \A u \in PairsRead : two[u] = 2 /\ two[u] \in Nat /\ M[u] = Over(one, Grouped(Ord, und, u))
  OBVIOUS
<1> HIDE DEF Ord, fst, und, one, P, M, two
<1>8. \A q \in Ord : one[q] \in Nat
  BY <1>4
<1>9. Over([c \in O |-> Over(one, Grouped(Ord, fst, c))], O) = Over(one, Ord)
  <2>1. \A q \in Ord : fst[q] \in O
    BY <1>4
  <2> QED BY <1>1, <1>2, <1>8, <2>1, OverParts
<1>10. ASSUME NEW c \in O PROVE Over(one, Grouped(Ord, fst, c)) = Cardinality(P(c))
  <2> DEFINE S == Grouped(Ord, fst, c)
             g == [p \in P(c) |-> <<c, p>>]
  <2>1. IsFiniteSet(S)
    <3>1. S \in SUBSET Ord
      BY DEF Grouped
    <3> QED BY <1>2, <3>1, FS_Subset
  <2>2. g \in [P(c) -> S] /\ \A p \in P(c) : g[p] = <<c, p>>
    BY <1>4, <1>5 DEF Grouped
  <2>3. \A q \in S : \E p \in P(c) : g[p] = q
    <3>1. ASSUME NEW q \in S PROVE \E p \in P(c) : g[p] = q
      <4>1. q \in Ord /\ fst[q] = c
        BY DEF Grouped
      <4>2. q[2] \in P(c) /\ q = <<c, q[2]>>
        BY <1>4, <4>1
      <4> QED BY <2>2, <4>2
    <3> QED BY <3>1
  <2>4. \A p, r \in P(c) : g[p] = g[r] => p = r
    BY <2>2
  <2> HIDE DEF g, S
  <2>5. g \in Bijection(P(c), S)
    <3>1. g \in Injection(P(c), S)
      BY <2>2, <2>4 DEF Injection, IsInjective
    <3>2. g \in Surjection(P(c), S)
      BY <2>2, <2>3 DEF Surjection
    <3> QED BY <3>1, <3>2 DEF Bijection
  <2>6. Cardinality(S) = Cardinality(P(c))
    <3>1. ExistsBijection(P(c), S)
      BY <2>5 DEF ExistsBijection
    <3> QED BY <1>1, <3>1, FS_Bijection
  <2>7. \A q \in S : one[q] = 1
    BY <1>4 DEF S, Grouped
  <2>8. Cardinality(S) \in Nat /\ Over(one, S) = 1 * Cardinality(S)
    BY <2>1, <2>7, OverSame
  <2>9. Over(one, S) = Cardinality(P(c))
    BY <2>6, <2>8
  <2> QED BY <2>9 DEF S
<1>11. N = [c \in O |-> Over(one, Grouped(Ord, fst, c))]
  BY <1>10
<1>12. Over(M, PairsRead) = Over(one, Ord)
  <2>1. Over([u \in PairsRead |-> Over(one, Grouped(Ord, und, u))], PairsRead) = Over(one, Ord)
    BY <1>2, <1>3, <1>6, <1>8, OverParts
  <2> QED BY <2>1 DEF M
<1>13. ASSUME NEW u \in PairsRead PROVE M[u] \in Nat /\ M[u] <= 2
  <2> DEFINE S == Grouped(Ord, und, u)
  <2>1. PICK a, b : u = {a, b}
    BY DEF PairsRead
  <2>3. S \in SUBSET Ord /\ IsFiniteSet(S) /\ Cardinality(S) \in Nat
    <3>1. S \in SUBSET Ord
      BY DEF Grouped
    <3> QED BY <1>2, <3>1, FS_Subset, FS_CardinalityType
  <2>4. Cardinality(S) <= 2
    <3>1. S \in SUBSET {<<a, b>>, <<b, a>>}
      <4>1. ASSUME NEW q \in S PROVE q \in {<<a, b>>, <<b, a>>}
        <5>1. q \in Ord /\ {q[1], q[2]} = {a, b}
          BY <1>4, <2>1 DEF Grouped
        <5>2. q = <<q[1], q[2]>>
          BY <1>4, <5>1
        <5>3. (q[1] = a /\ q[2] = b) \/ (q[1] = b /\ q[2] = a)
          BY <5>1
        <5> QED BY <5>2, <5>3
      <4> QED BY <4>1
    <3>2. IsFiniteSet({<<a, b>>}) /\ Cardinality({<<a, b>>}) = 1
      BY FS_Singleton
    <3>3. {<<a, b>>, <<b, a>>} = {<<a, b>>} \cup {<<b, a>>}
      OBVIOUS
    <3>4. /\ IsFiniteSet({<<a, b>>, <<b, a>>})
          /\ Cardinality({<<a, b>>, <<b, a>>}) \in {1, 2}
      BY <3>2, <3>3, FS_AddElement
    <3>5. Cardinality(S) <= Cardinality({<<a, b>>, <<b, a>>})
      BY <3>1, <3>4, FS_Subset
    <3> QED BY <2>3, <3>4, <3>5
  <2> HIDE DEF S
  <2>5. \A q \in S : one[q] = 1
    BY <1>4, <2>3
  <2>6. Over(one, S) = 1 * Cardinality(S)
    BY <2>3, <2>5, OverSame
  <2>7. M[u] = Over(one, S)
    BY <1>7 DEF S
  <2> QED BY <2>3, <2>4, <2>6, <2>7
<1>14. Over(M, PairsRead) \in Nat /\ Over(M, PairsRead) <= Over(two, PairsRead)
  BY <1>3, <1>7, <1>13, OverMonotone
<1>15. Over(two, PairsRead) = 2 * Cardinality(PairsRead)
  BY <1>3, <1>7, OverSame
<1>16. Over(N, O) = Over(M, PairsRead)
  BY <1>9, <1>11, <1>12
<1> HIDE DEF N
<1>17. Over(N, O) \in Nat /\ Over(N, O) <= 2 * Cardinality(PairsRead)
  BY <1>14, <1>15, <1>16
<1> QED BY <1>3, <1>17 DEF N, P

\* For any channels and forwards: the insights never claim a fee twice, and lose
\* less than one for each pair of channels (FeesEarnedOnce).
THEOREM FeesNeverEarnedTwice == Spec => []FeesEarnedOnce
<1>1. ASSUME CountInv, JudgeInv PROVE FeesEarnedOnce
  <2> SUFFICES ASSUME Answered({"insights"})
               PROVE  LET earned == AddUp([i \in answer |-> i.fees])
                          total  == TotalFees(events, DOMAIN events)
                      IN  /\ earned <= total
                          /\ (UNION PairsRead \subseteq known \cap {i.chan : i \in answer})
                               => earned >= total - Cardinality(PairsRead)
    BY DEF FeesEarnedOnce, PairsRead
  <2> DEFINE O == {i.chan : i \in answer}
             fees == [i \in answer |-> i.fees]
             of == [i \in answer |-> i.chan]
             E == [c \in O |-> FeesEarned(report, c)]
             EE == [c \in O |-> E[c] + E[c]]
             I == [c \in O |-> FeesIn(c)]
             U == [c \in O |-> FeesOut(c)]
             IU == [c \in O |-> I[c] + U[c]]
             N == [c \in O |-> Cardinality(PairsWith(events, Counted, c))]
             EN == [c \in O |-> EE[c] + N[c]]
             total == TotalFees(events, DOMAIN events)
  <2>1. /\ report = Earned /\ answer = insights
        /\ \A i \in answer : i.chan \in Channels /\ i.fees = FeesEarned(report, i.chan)
        /\ \A i, j \in answer : i.chan = j.chan => i = j
    BY <1>1 DEF JudgeInv, Judged, InsightOK, Answered
  <2>2. O \in SUBSET Channels /\ IsFiniteSet(O)
    <3>1. O \in SUBSET Channels
      BY <2>1
    <3> QED BY <1>1, <3>1, EventsIs, FS_Subset
  <2>3. \A i \in answer : of[i] \in O /\ of[i] = i.chan /\ fees[i] = i.fees /\ E[of[i]] = fees[i]
    BY <2>1
  <2>4. \A c \in O : \E i \in answer : of[i] = c
    OBVIOUS
  <2>5. /\ I = [c \in O |-> FeesIn(c)] /\ U = [c \in O |-> FeesOut(c)]
        /\ N = [c \in O |-> Cardinality(PairsWith(events, Counted, c))]
    OBVIOUS
  <2>6. \A c \in O : /\ E[c] = FeesEarned(report, c) /\ I[c] = FeesIn(c) /\ U[c] = FeesOut(c)
                     /\ N[c] = Cardinality(PairsWith(events, Counted, c))
                     /\ EE[c] = E[c] + E[c] /\ IU[c] = I[c] + U[c] /\ EN[c] = EE[c] + N[c]
    OBVIOUS
  <2> HIDE DEF fees, of, E, EE, I, U, IU, N, EN
  <2> HIDE DEF O
  <2>7. IsFiniteSet(answer)
    <3>1. of \in [answer -> O]
      BY <2>3 DEF of
    <3>2. \A i, j \in answer : of[i] = of[j] => i = j
      BY <2>1, <2>3
    <3>3. of \in Injection(answer, O)
      BY <3>1, <3>2, Zenon DEF Injection, IsInjective
    <3> QED BY <2>2, <3>3, FS_Injection
  <2>8. \A c \in O : /\ E[c] \in Nat /\ I[c] \in Nat /\ U[c] \in Nat /\ N[c] \in Nat
                     /\ E[c] + E[c] <= I[c] + U[c] /\ I[c] + U[c] <= (E[c] + E[c]) + N[c]
    <3>1. ASSUME NEW c \in O
          PROVE  /\ E[c] \in Nat /\ I[c] \in Nat /\ U[c] \in Nat /\ N[c] \in Nat
                 /\ E[c] + E[c] <= I[c] + U[c] /\ I[c] + U[c] <= (E[c] + E[c]) + N[c]
      <4>1. /\ E[c] \in Nat /\ I[c] \in Nat /\ U[c] \in Nat /\ N[c] \in Nat
            /\ 2 * E[c] <= I[c] + U[c] /\ I[c] + U[c] <= 2 * E[c] + N[c]
        BY <1>1, <2>1, <2>2, <2>6, FeesEarnedIs
      <4> QED BY <4>1
    <3> QED BY <3>1
  <2>9. \A c \in O : /\ EE[c] \in Nat /\ IU[c] \in Nat /\ EN[c] \in Nat
                     /\ EE[c] <= IU[c] /\ IU[c] <= EN[c]
    BY <2>6, <2>8
  <2>10. AddUp(fees) = Over(E, O)
    <3>1. \A i \in answer : fees[i] \in Nat
      BY <2>3, <2>8
    <3>2. fees \in [answer -> Nat]
      BY <3>1 DEF fees
    <3>3. AddUp(fees) = Over(fees, answer)
      BY <2>7, <3>2, AddUpType
    <3>4. \A i \in answer : of[i] \in O /\ E[of[i]] = fees[i]
      BY <2>3
    <3>5. \A i, j \in answer : of[i] = of[j] => i = j
      BY <2>1, <2>3
    <3>6. Over(fees, answer) = Over(E, O)
      BY <2>2, <2>4, <2>7, <3>1, <3>4, <3>5, OverRenamed
    <3> QED BY <3>3, <3>6
  <2>11. /\ Over(EE, O) = Over(E, O) + Over(E, O) /\ Over(IU, O) = Over(I, O) + Over(U, O)
    BY <2>2, <2>6, <2>8, OverPlus
  <2>12. Over(EN, O) = Over(EE, O) + Over(N, O)
    BY <2>2, <2>6, <2>8, <2>9, OverPlus
  <2>13. /\ Over(EE, O) <= Over(IU, O) /\ Over(IU, O) <= Over(EN, O)
    BY <2>2, <2>9, OverMonotone
  <2>14. Over(E, O) \in Nat
    BY <2>2, <2>8, OverIs
  <2>15. /\ total \in Nat /\ Over(I, O) \in Nat /\ Over(U, O) \in Nat
         /\ Over(I, O) <= total /\ Over(U, O) <= total
         /\ (Counted = DOMAIN events /\ \A i \in DOMAIN events : {InAt[i], OutAt[i]} \subseteq O)
              => Over(I, O) = total /\ Over(U, O) = total
    BY <1>1, <2>2, <2>5, FeesAcross
  <2>16. /\ Over(N, O) \in Nat /\ Cardinality(PairsRead) \in Nat
         /\ Over(N, O) <= 2 * Cardinality(PairsRead)
    BY <1>1, <2>2, <2>5, PairsCountedTwice
  <2>17. ASSUME UNION PairsRead \subseteq known \cap O
         PROVE  Over(I, O) = total /\ Over(U, O) = total
    <3>1. \A i \in DOMAIN events : {events[i].in, events[i].out} \in PairsRead
      <4>1. \A i \in DOMAIN events : events[i] \in ToSet(events)
        BY DEF ToSet
      <4> QED BY <4>1 DEF PairsRead
    <3>2. \A i \in DOMAIN events : {events[i].in, events[i].out} \subseteq known \cap O
      BY <2>17, <3>1
    <3>3. Counted = DOMAIN events
      BY <3>2 DEF Counted, getRevenueEvents
    <3>4. \A i \in DOMAIN events : {InAt[i], OutAt[i]} \subseteq O
      BY <1>1, <3>2, FeesOver
    <3> QED BY <2>15, <3>3, <3>4
  <2> DEFINE e == Over(E, O)
             p == Cardinality(PairsRead)
             n == Over(N, O)
             a == Over(I, O)
             b == Over(U, O)
             t == total
  <2>18. /\ e \in Nat /\ p \in Nat /\ n \in Nat /\ a \in Nat /\ b \in Nat /\ t \in Nat
         /\ e + e <= a + b /\ a + b <= (e + e) + n /\ a <= t /\ b <= t /\ n <= 2 * p
    BY <2>11, <2>12, <2>13, <2>14, <2>15, <2>16
  <2>19. ASSUME UNION PairsRead \subseteq known \cap O PROVE a = t /\ b = t
    BY <2>17, <2>19
  <2> HIDE DEF e, p, n, a, b, t
  <2>20. e <= t
    BY ONLY <2>18
  <2>21. ASSUME UNION PairsRead \subseteq known \cap O PROVE e >= t - p
    <3>1. a = t /\ b = t
      BY <2>19, <2>21
    <3> QED BY ONLY <2>18, <3>1
  <2> QED BY <2>10, <2>20, <2>21 DEF e, p, t, O, fees
<1> QED BY <1>1, AgeInvInit, AgeInvNext, CountInvInit, CountInvNext, JudgeInvInit, JudgeInvNext,
        PTL DEF Spec
=============================================================================
