-------------------------- MODULE ChanEventsStore --------------------------
(***************************************************************************)
(* The channel events store (chanevents/store.go over db/sqlc): the peers, *)
(* channels and channel_events tables, with one action per SQL statement   *)
(* that writes.  A statement that fails changes nothing, so the failures   *)
(* that matter (which statement of a sequence is skipped) belong to the    *)
(* callers, modelled in ChanEventsMonitor.                                 *)
(***************************************************************************)
EXTENDS ChannelHistory

CONSTANTS
  Pubkeys,        \* peers the node ever has a channel with
  ChanPoints,     \* channel points
  Scids,          \* short channel ids, as lnd reports them (unsigned)
  HalfScid,       \* 2^63: an unsigned scid from here up is stored negative
  Balances,       \* (local, remote) snapshots
  Sqlite,         \* TRUE: SQLite row ids; FALSE: a Postgres sequence
  MaxEventsArgs,  \* values PruneEvents is called with for maxEvents
  RetentionArgs,  \* ... and for retention
  MaxInt32,       \* math.MaxInt32
  MaxRowId,       \* bound: event ids
  MaxTime         \* bound: the clock

ASSUME StoreAssumption ==
  /\ NoBalance \notin Balances
  /\ HalfScid \in Nat \ {0}
  /\ Scids \subseteq 0..(2 * HalfScid - 1)
  /\ Sqlite \in BOOLEAN
  /\ MaxEventsArgs \subseteq Nat
  /\ RetentionArgs \subseteq Nat
  /\ MaxInt32 \in Nat
  /\ MaxRowId \in Nat
  /\ MaxTime \in Nat

VARIABLES
  peers,      \* pubkeys in the peers table
  channels,   \* rows of the channels table
  events,     \* rows of the channel_events table
  seq,        \* the id sequence of channel_events (Postgres only)
  now         \* the store's clock

vars == <<peers, channels, events, seq, now>>

-----------------------------------------------------------------------------
(* Conversions. *)

scidToInt64(u) == IF u < HalfScid THEN u ELSE u - 2 * HalfScid
int64ToSCID(i) == IF i >= 0 THEN i ELSE i + 2 * HalfScid

\* The Go conversion int32(n) of an unsigned n.
Int32(n) ==
  LET m == n % (2 * (MaxInt32 + 1))
  IN  IF m > MaxInt32 THEN m - 2 * (MaxInt32 + 1) ELSE m

-----------------------------------------------------------------------------
(* Reads. *)

GetChannel(c) == {ch \in channels : ch.point = c}

GetChannelByShortChanID(u) == {ch \in channels : ch.scid = scidToInt64(u)}

\* The historic scid -> peer index, as a set of pairs.
ScidToPeerMap ==
  {<<int64ToSCID(ch.scid), ch.peer>> : ch \in {x \in channels : x.scid # 0}}

\* Mutant of IsNextId: ids count the rows of the table.
IsNextIdByCount(n) == n = Cardinality(events) + 1

\* The id a new row gets.  "INTEGER PRIMARY KEY" makes SQLite take one more
\* than the largest row id in the table, starting over at 1 when the table
\* is empty; the Postgres column is a sequence, which never goes back.
IsNextId(n) ==
  IF Sqlite
  THEN \/ events = {} /\ n = 1
       \/ \E e \in events : (\A f \in events : f.id <= e.id) /\ n = e.id + 1
  ELSE n = seq + 1

-----------------------------------------------------------------------------
(* Writes. *)

\* InsertPeer: pubkey is UNIQUE.
AddPeer(pk) ==
  /\ pk \notin peers
  /\ peers' = peers \cup {pk}
  /\ UNCHANGED <<channels, events, seq, now>>

\* InsertChannel: channel_point and short_channel_id are UNIQUE and peer_id
\* REFERENCES peers.
AddChannel(c, u, pk) ==
  /\ pk \in peers
  /\ GetChannel(c) = {}
  /\ GetChannelByShortChanID(u) = {}
  /\ channels' = channels \cup {[point |-> c, scid |-> scidToInt64(u), peer |-> pk]}
  /\ UNCHANGED <<peers, events, seq, now>>

\* Mutant of AddChannelEvent: without the foreign key.
AddChannelEventUnchecked(c, type, bal) ==
  /\ \E n \in 1..MaxRowId :
       /\ IsNextId(n)
       /\ events' = events \cup
            {[id |-> n, chan |-> c, type |-> type, ts |-> now, bal |-> bal]}
       /\ seq' = IF Sqlite THEN seq ELSE n
  /\ UNCHANGED <<peers, channels, now>>

\* InsertChannelEvent: channel_id REFERENCES channels.  Every caller leaves
\* Timestamp zero, so the row carries clock.Now().
AddChannelEvent(c, type, bal) ==
  /\ GetChannel(c) # {}
  /\ \E n \in 1..MaxRowId :
       /\ IsNextId(n)
       /\ events' = events \cup
            {[id |-> n, chan |-> c, type |-> type, ts |-> now, bal |-> bal]}
       /\ seq' = IF Sqlite THEN seq ELSE n
  /\ UNCHANGED <<peers, channels, now>>

\* Mutant of SizeLimited: without the check against math.MaxInt32.
SizeLimitedUnchecked(maxEvents) == 0 < maxEvents

\* The size statement of PruneEvents runs when the limit is set and fits the
\* int32 OFFSET.
SizeLimited(maxEvents) == 0 < maxEvents /\ maxEvents <= MaxInt32

\* DELETE every row with an id below the id found at OFFSET rows from the
\* newest; with no such row COALESCE(.., 0) deletes nothing.
PruneBySize(maxEvents) ==
  /\ SizeLimited(maxEvents)
  /\ events' = {e \in events :
       ~ \E b \in events :
           /\ Cardinality({f \in events : f.id > b.id}) = Int32(maxEvents - 1)
           /\ e.id < b.id}
  /\ UNCHANGED <<peers, channels, seq, now>>

\* Mutant of PruneByAge: spares the updates, so that seeds survive.
PruneByAgeKeepsUpdates(maxEvents, retention) ==
  /\ maxEvents <= MaxInt32
  /\ retention > 0
  /\ events' = {e \in events : e.type = "update" \/ ~(e.ts < now - retention)}
  /\ UNCHANGED <<peers, channels, seq, now>>

\* The age statement runs second, unless the size limit was rejected.
PruneByAge(maxEvents, retention) ==
  /\ maxEvents <= MaxInt32
  /\ retention > 0
  /\ events' = {e \in events : ~(e.ts < now - retention)}
  /\ UNCHANGED <<peers, channels, seq, now>>

\* The system clock.
Tick ==
  /\ now < MaxTime
  /\ now' = now + 1
  /\ UNCHANGED <<peers, channels, events, seq>>

-----------------------------------------------------------------------------

Init ==
  /\ peers = {} /\ channels = {} /\ events = {}
  /\ seq = 0 /\ now = 0

AddAnyEvent ==
  \E c \in ChanPoints :
     \/ \E type \in {"online", "offline"} : AddChannelEvent(c, type, NoBalance)
     \/ \E bal \in Balances : AddChannelEvent(c, "update", bal)

Prune ==
  \E m \in MaxEventsArgs :
     \/ PruneBySize(m)
     \/ \E r \in RetentionArgs : PruneByAge(m, r)

Next ==
  \/ \E pk \in Pubkeys : AddPeer(pk)
  \/ \E c \in ChanPoints, u \in Scids, pk \in Pubkeys : AddChannel(c, u, pk)
  \/ AddAnyEvent
  \/ Prune
  \/ Tick

Spec == Init /\ [][Next]_vars

-----------------------------------------------------------------------------
(* Properties. *)

EventRows ==
  [id : 1..MaxRowId, chan : ChanPoints, type : EventTypes,
   ts : 0..MaxTime, bal : Balances \cup {NoBalance}]

ChannelRows == [point : ChanPoints, scid : Int, peer : Pubkeys]

\* The tables hold rows of their schema and every foreign key resolves.
TypeOK ==
  /\ peers \subseteq Pubkeys
  /\ channels \subseteq ChannelRows
  /\ \A ch \in channels : ch.peer \in peers
  /\ events \subseteq EventRows
  /\ \A e \in events : GetChannel(e.chan) # {}
  /\ seq \in 0..MaxRowId
  /\ now \in 0..MaxTime

\* Row ids and timestamps give the same order.  The analyzer replays rows by
\* id and says that this "matches chronological order, true while writers
\* leave Timestamp zero"; the prunes cut the table by id and by timestamp.
ChronologicalIds ==
  \A e, f \in events : e.id < f.id => e.ts <= f.ts

\* A prune only ever forgets: for every channel and every window start, the
\* state the analyzer seeds from the pruned table is the one it seeded
\* before, or the channel has become one without history (offline).  In
\* particular no prune turns a channel that was recorded offline into an
\* online one by removing the later of two rows.
PruneOnlyForgets ==
  [][Prune => \A c \in ChanPoints, t \in 0..(MaxTime + 1) :
       LET after == getInitialChannelState(events', c, t)
       IN  after \in {getInitialChannelState(events, c, t), Unseeded}]_vars

\* The size statement leaves exactly the maxEvents newest rows, or all of
\* them when there are fewer: no off-by-one and no wrapped OFFSET.
SizePruneExact ==
  [][\A m \in MaxEventsArgs : (m > 0 /\ PruneBySize(m)) =>
       Cardinality(events') =
         IF Cardinality(events) < m THEN Cardinality(events) ELSE m]_vars

\* Seeding from the latest update and replaying only the residual rows gives
\* what replaying the channel's whole recorded past in id order would: the
\* newest row before the window decides online or offline, the newest update
\* the balances, and no later update hides among the residual rows.  (The
\* analyzer refuses to seed from an overflowing residual.)
LastOf(S) == {e \in S : \A f \in S : f.id <= e.id}

Past(c, t) == {e \in events : e.chan = c /\ e.ts < t}

SeedMatchesReplay ==
  \A c \in ChanPoints, t \in 0..(MaxTime + 1) :
    LET st == getInitialChannelState(events, c, t)
    IN  \A u \in LastOf(UpdatesBefore(events, c, t)) :
          /\ st.bal = u.bal
          /\ st.err \/ \A e \in LastOf(Past(c, t)) : st.online <=> e.type # "offline"
          /\ \A e \in Residual(events, c, u, t) : e.type # "update"
=============================================================================
