------------------------- MODULE ForwardingAbility -------------------------
(***************************************************************************)
(* The ForwardingAbility call (frdrpcserver/forwarding_ability.go): the    *)
(* request is validated, the analyzer (chanevents/analyzer.go,             *)
(* EffectiveUptime) reads the store and lnd call by call while channels    *)
(* open, close and forward, and the answer is encoded for a client, which  *)
(* decodes it.  How long a pair was up is UptimeWalk's subject and any     *)
(* duration within the window here.                                        *)
(*                                                                         *)
(* The codec is a library of its own: LibraryCall is a caller that passes  *)
(* it any map, of peers in any spelling.                                   *)
(***************************************************************************)
EXTENDS AbilityCodec

CONSTANTS
  Chans,              \* channels, by short channel id
  PeerOf,             \* [Chans -> Keys]
  Times,              \* start_time and end_time of requests; 0 leaves end_time unset
  Thresholds,         \* uptime_threshold of requests, in Scale-ths
  NaN,                \* a threshold that is not a number
  DefaultThreshold,   \* defaultUptimeThreshold
  Ticks,              \* durations are a number of Ticks-ths of a second
  NowTicks,           \* time.Now()
  Uptimes,            \* effective uptimes, as durations
  Msat,               \* amounts of forwards, in millisatoshi
  MsatPerSat,         \* 1000
  PageSize,           \* forwardingPageSize
  LibraryAbilities,   \* abilities passed to the codec by LibraryCall
  MaxForwards,        \* bound: forwards
  MaxChanges          \* bound: channels opened, closed or recorded by the monitor

ASSUME AbilityAssumption ==
  /\ PeerOf \in [Chans -> Keys]
  /\ Times \subseteq Nat /\ Uptimes \subseteq Nat /\ 0 \in Uptimes /\ Msat \subseteq Nat
  /\ {Ticks, MsatPerSat, PageSize} \subseteq Nat \ {0}
  /\ {NowTicks, MaxForwards, MaxChanges} \subseteq Nat /\ DefaultThreshold \in 0..Scale
  /\ NaN \notin Int
  /\ IsFiniteSet(Chans)
  \* The store and lnd spell a peer's key in one way.
  /\ \A c, d \in Chans : RawOf[PeerOf[c]] = RawOf[PeerOf[d]] => PeerOf[c] = PeerOf[d]
  /\ LibraryAbilities \subseteq [uptime : Int, sat : Int]

VARIABLES
  store,       \* channels in the events store
  open,        \* lnd's open channels
  closed,      \* lnd's closed channels
  forwards,    \* lnd's forwards of the window, oldest first
  changes,     \* spent bound
  stage,       \* where the call is
  win,         \* [start, end, threshold, endTicks] of the accepted request
  scids,       \* scidToPeer
  offset,      \* getForwardingData's cursor
  fetched,     \* getForwardingData's events
  considered,  \* channelPeersConsidered
  nested,      \* the map passed to the codec
  resp,        \* its answer
  decoded,     \* what the client makes of it
  byServer,    \* history: the call came through the RPC server
  listed,      \* history: the channels of lnd when ListChannels answered
  owed         \* history: forwards at the start of the call; 0 once an answer
               \* of lnd did not advance

world   == <<store, open, closed, forwards, changes>>
call    == <<win, scids, offset, fetched, considered, nested, resp, decoded>>
history == <<byServer, listed, owed>>
vars    == <<world, stage, call, history>>

-----------------------------------------------------------------------------
(* lnd and the monitor (external), at any moment of the call. *)

World(action) == action /\ changes < MaxChanges /\ changes' = changes + 1
                        /\ UNCHANGED <<stage, call, history>>

ChannelOpens(c) == World(
  /\ c \notin open \cup closed
  /\ open' = open \cup {c}
  /\ UNCHANGED <<store, closed, forwards>>)

ChannelCloses(c) == World(
  /\ c \in open
  /\ open' = open \ {c} /\ closed' = closed \cup {c}
  /\ UNCHANGED <<store, forwards>>)

MonitorRecords(c) == World(
  /\ c \in (open \cup closed) \ store
  /\ store' = store \cup {c}
  /\ UNCHANGED <<open, closed, forwards>>)

LndForwards(in, out, msat) ==
  /\ Len(forwards) < MaxForwards
  /\ {in, out} \subseteq open
  /\ forwards' = Append(forwards, [in |-> in, out |-> out, msat |-> msat])
  /\ UNCHANGED <<store, open, closed, changes, stage, call, history>>

-----------------------------------------------------------------------------
(* The handler, up to the analyzer. *)

\* What the request stands for, once its unset fields are defaulted.
Window(start, end, threshold) ==
  LET endTicks == IF end = 0 THEN NowTicks ELSE end * Ticks
  IN  [start     |-> start,
       endTicks  |-> endTicks,
       end       |-> endTicks \div Ticks,
       threshold |-> IF threshold = 0 THEN DefaultThreshold ELSE threshold]

Refused(start, end, threshold) ==
  \/ start > MaxInt64 \/ end > MaxInt64
  \/ start * Ticks > Window(start, end, threshold).endTicks
  \/ threshold \notin 0..Scale

Request(start, end, threshold) ==
  /\ stage = "idle"
  /\ ~Refused(start, end, threshold)
  /\ win' = Window(start, end, threshold)
  /\ stage' = "map"
  /\ byServer' = TRUE /\ owed' = Len(forwards)
  /\ UNCHANGED <<world, scids, offset, fetched, considered, nested, resp, decoded, listed>>

Refuse(start, end, threshold) ==
  /\ stage = "idle"
  /\ Refused(start, end, threshold)
  /\ stage' = "failed"
  /\ UNCHANGED <<world, call, history>>

-----------------------------------------------------------------------------
(* EffectiveUptime. *)

ScidToPeerMap ==
  /\ stage = "map"
  /\ scids' = store
  /\ stage' = "forwards"
  /\ UNCHANGED <<world, win, offset, fetched, considered, nested, resp, decoded, history>>

\* lnd's answer from the cursor on.
Page == SubSeq(forwards, offset + 1, Min({offset + PageSize, Len(forwards)}))

\* Mutant of LastPage: the cursor is not compared with the previous one.
LastPageNoGuard(last) == Len(Page) < PageSize

\* An empty page, a short one, or a cursor that did not move.
LastPage(last) == Len(Page) < PageSize \/ last <= offset

Known(f) == {f.in, f.out} \subseteq scids

\* getForwardingData, one page.  lnd's last offset moves past the page, or not.
getForwardingData ==
  /\ stage = "forwards"
  /\ fetched' = fetched \o Page
  /\ \E last \in {offset, offset + Len(Page)} :
       /\ offset' = IF LastPage(last) THEN offset ELSE last
       /\ stage' = IF LastPage(last) THEN "open" ELSE "forwards"
       /\ owed' = IF Len(Page) = PageSize /\ last = offset THEN 0 ELSE owed
       /\ considered' =
            IF LastPage(last)
            THEN UNION {{f.in, f.out} : f \in {g \in Range(fetched') : Known(g)}}
            ELSE considered
  /\ UNCHANGED <<world, win, scids, nested, resp, decoded, byServer, listed>>

\* Mutant of addActiveChannels: the closed channels are read first.
addActiveChannelsClosedFirst ==
  \/ /\ stage = "open" /\ stage' = "closed"
     /\ considered' = considered \cup closed
     /\ listed' = open \cup closed
     /\ UNCHANGED <<world, win, scids, offset, fetched, nested, resp, decoded, byServer, owed>>
  \/ /\ stage = "closed" /\ stage' = "data"
     /\ considered' = considered \cup open
     /\ UNCHANGED <<world, win, scids, offset, fetched, nested, resp, decoded, history>>

\* addActiveChannels: the open channels, then the closed ones.
addActiveChannels ==
  \/ /\ stage = "open" /\ stage' = "closed"
     /\ considered' = considered \cup open
     /\ listed' = open \cup closed
     /\ UNCHANGED <<world, win, scids, offset, fetched, nested, resp, decoded, byServer, owed>>
  \/ /\ stage = "closed" /\ stage' = "data"
     /\ considered' = considered \cup closed
     /\ UNCHANGED <<world, win, scids, offset, fetched, nested, resp, decoded, history>>

\* getPeerChannelData skips the channels that are not in the store.
PeersWithData == {PeerOf[c] : c \in considered \cap store}

\* Mutant of pairForwardedTotal: the direction of a forward is not looked at.
pairForwardedTotalBoth(in, out) ==
  LET of == {i \in DOMAIN fetched : /\ Known(fetched[i])
                                    /\ {PeerOf[fetched[i].in], PeerOf[fetched[i].out]} = {in, out}}
  IN  AddUp([i \in of |-> fetched[i].msat \div MsatPerSat])

\* Each amount is cut to whole satoshis before it is added.
pairForwardedTotal(in, out) ==
  LET of == {i \in DOMAIN fetched : /\ Known(fetched[i])
                                    /\ PeerOf[fetched[i].in] = in /\ PeerOf[fetched[i].out] = out}
  IN  AddUp([i \in of |-> fetched[i].msat \div MsatPerSat])

\* calculateAllPairsUptime, and the handler's conversion to whole seconds.
calculateAllPairsUptime ==
  /\ stage = "data"
  /\ \E up \in [PeersWithData \X PeersWithData ->
                 {u \in Uptimes : u <= win.endTicks - win.start * Ticks}] :
       nested' = [p \in DOMAIN up |->
         [uptime |-> up[p] \div Ticks, sat |-> pairForwardedTotal(p[1], p[2])]]
  /\ stage' = "guard"
  /\ UNCHANGED <<world, win, scids, offset, fetched, considered, resp, decoded, history>>

\* A call to the store or to lnd fails, or the caller's context ends.
ReadFails ==
  /\ stage \in {"map", "forwards", "open", "closed", "data"}
  /\ stage' = "failed"
  /\ UNCHANGED <<world, call, history>>

-----------------------------------------------------------------------------
(* The handler, from the analyzer on, and the client. *)

\* Mutant of Qualifying: a pair that forwarded counts, however short it was up.
QualifyingForwarded ==
  {p \in DOMAIN nested :
     \/ nested[p].sat > 0
     \/ nested[p].uptime >= MinQualifyingUptime(win.threshold, win.end - win.start)}

Qualifying ==
  {p \in DOMAIN nested :
     nested[p].uptime >= MinQualifyingUptime(win.threshold, win.end - win.start)}

\* "Guard against returning data when the node itself was down."
NodeDownGuard ==
  /\ stage = "guard"
  /\ stage' = IF Qualifying = {} THEN "failed" ELSE "encode"
  /\ UNCHANGED <<world, call, history>>

Encode ==
  /\ stage = "encode"
  /\ resp' = EncodeForwardingAbility(nested, win.start, win.end, win.threshold)
  /\ stage' = IF resp' = Error THEN "failed" ELSE "answered"
  /\ UNCHANGED <<world, win, scids, offset, fetched, considered, nested, decoded, history>>

Decode ==
  /\ stage = "answered"
  /\ decoded' = DecodeForwardingAbility(resp)
  /\ stage' = "decoded"
  /\ UNCHANGED <<world, win, scids, offset, fetched, considered, nested, resp, history>>

NoWindow == [start |-> 0, end |-> 0, threshold |-> 0, endTicks |-> 0]

Done ==
  /\ stage \in {"failed", "decoded"}
  /\ stage' = "idle"
  /\ win' = NoWindow /\ scids' = {} /\ offset' = 0 /\ fetched' = <<>> /\ considered' = {}
  /\ nested' = <<>> /\ resp' = Error /\ decoded' = Error
  /\ byServer' = FALSE /\ listed' = {} /\ owed' = 0
  /\ UNCHANGED world

-----------------------------------------------------------------------------

\* No call has read anything yet.
Fresh ==
  /\ scids = {} /\ offset = 0 /\ fetched = <<>> /\ considered = {}
  /\ resp = Error /\ decoded = Error
  /\ byServer = FALSE /\ listed = {} /\ owed = 0

\* An idle server, next to any lnd and a store that knows some of its channels.
Init ==
  /\ open \in SUBSET Chans /\ closed \in SUBSET (Chans \ open)
  /\ store \in SUBSET (open \cup closed)
  /\ forwards = <<>> /\ changes = 0
  /\ stage = "idle" /\ win = NoWindow /\ nested = <<>> /\ Fresh

\* A caller of the codec that is no server, with a map of one or two pairs:
\* nothing else of this state matters.
LibraryCall ==
  /\ open = {} /\ closed = {} /\ store = {} /\ forwards = <<>> /\ changes = MaxChanges
  /\ \E p, q \in Keys \X Keys : nested \in [{p, q} -> LibraryAbilities]
  /\ \E end \in Times, threshold \in {DefaultThreshold, Scale} :
       win = [start |-> 0, end |-> end, threshold |-> threshold, endTicks |-> end * Ticks]
  /\ stage = "encode" /\ Fresh

Environment ==
  \/ \E c \in Chans : ChannelOpens(c) \/ ChannelCloses(c) \/ MonitorRecords(c)
  \/ \E in, out \in Chans, msat \in Msat : LndForwards(in, out, msat)

Client ==
  \/ \E start, end \in Times, threshold \in Thresholds :
       Request(start, end, threshold) \/ Refuse(start, end, threshold)
  \/ Decode \/ Done

Next ==
  \/ Environment \/ Client
  \/ ScidToPeerMap \/ getForwardingData \/ addActiveChannels
  \/ calculateAllPairsUptime \/ ReadFails \/ NodeDownGuard \/ Encode

Spec == (Init \/ LibraryCall) /\ [][Next]_vars

-----------------------------------------------------------------------------
(* Properties. *)

Windows == [start : Nat, end : Nat, threshold : 0..Scale, endTicks : Nat]

\* The variables have their types.  Every flag of an answer is one of an ordered
\* pair of its peers, and no uptime is longer than the window.
TypeOK ==
  /\ store \subseteq open \cup closed /\ open \cap closed = {}
  /\ Len(forwards) <= MaxForwards /\ changes <= MaxChanges
  /\ stage \in {"idle", "map", "forwards", "open", "closed", "data", "guard", "encode",
                "answered", "decoded", "failed"}
  /\ win \in Windows
  /\ scids \subseteq store /\ listed \subseteq Chans /\ considered \subseteq Chans
  /\ offset \in 0..Len(forwards) /\ owed \in 0..Len(forwards)
  /\ DOMAIN nested \subseteq Keys \X Keys
  /\ byServer => \A p \in DOMAIN nested : nested[p].uptime \in 0..(win.end - win.start)
  /\ resp # Error => /\ \A b \in resp.bits : b \in 0..(Len(resp.peers) * Len(resp.peers) - 1)
                     /\ Len(resp.peers) <= maxPackedPeers

\* The pages of lnd's forwarding history are gathered without a gap and
\* without a repetition, and up to the start of the call, also while lnd keeps
\* forwarding; a cursor that does not move (which may cost the rest) never
\* makes getForwardingData read a page twice.
ForwardsFetchedOnce ==
  stage \in {"open", "closed", "data"} =>
    /\ IsPrefix(fetched, forwards)
    /\ Len(fetched) >= owed

\* A channel that closes while addActiveChannels reads lnd's two lists is in
\* one of them.
NoChannelMissed == stage = "data" => listed \subseteq considered

\* What DecodeForwardingAbility returns for what EncodeForwardingAbility made:
\* of each pair that forwarded its exact facts, of each idle pair that was up
\* enough the whole window, and of no other pair anything.
RoundTrip ==
  stage = "decoded" =>
    LET kept == Kept(nested, MinQualifyingUptime(win.threshold, win.end - win.start))
    IN  /\ decoded # Error
        /\ DOMAIN decoded.abilities = {Raw(p) : p \in kept}
        /\ \A p \in kept : decoded.abilities[Raw(p)] = Seen(nested[p], win.end - win.start)

\* Satoshis that lnd forwarded from one peer to another, over the channels the
\* store knew when the call began.
Volume(in, out) ==
  LET of == {i \in 1..Len(fetched) : /\ {forwards[i].in, forwards[i].out} \subseteq scids
                                     /\ PeerOf[forwards[i].in] = in
                                     /\ PeerOf[forwards[i].out] = out}
  IN  AddUp([i \in of |-> forwards[i].msat \div MsatPerSat])

\* The client of a successful call sees all of that volume, under its pair and
\* its direction, whatever opened, closed or was recorded during the call.
VolumeReachesClient ==
  stage = "decoded" /\ byServer =>
    \A in, out \in {PeerOf[c] : c \in Chans} :
      LET pair == Raw(<<in, out>>)
      IN  IF Volume(in, out) > 0
          THEN /\ pair \in DOMAIN decoded.abilities
               /\ decoded.abilities[pair].sat = Volume(in, out)
          ELSE pair \in DOMAIN decoded.abilities => decoded.abilities[pair].sat = 0

\* "Guard against returning data when the node itself was down for the window":
\* a client that decodes an answer of the server finds a pair that was up for
\* the requested part of the window, and for a second at least.
SomeSignal ==
  stage = "decoded" /\ byServer =>
    \E p \in DOMAIN decoded.abilities :
      /\ decoded.abilities[p].uptime >= 1
      /\ decoded.abilities[p].uptime * Scale >= win.threshold * (win.end - win.start)
=============================================================================
