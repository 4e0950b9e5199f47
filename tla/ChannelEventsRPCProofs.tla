----------------------- MODULE ChannelEventsRPCProofs -----------------------
(***************************************************************************)
(* Proofs about ChanEventsStore, for every set of channels, every          *)
(* configuration of the prunes, both database backends and every bound;    *)
(* and about ChannelEventsRPC: what a client that pages through a          *)
(* channel's events is sent, for every limit, every request and whatever   *)
(* is written and pruned between two pages and inside a call.              *)
(***************************************************************************)
EXTENDS ChannelEventsRPC, CommonProofs, SequenceTheorems

\* Ids are a key, rows are stamped in the past and, on Postgres, the sequence
\* has reached every id in the table.
UniqueIds == \A e, f \in events : e.id = f.id => e = f
StampedInPast == \A e \in events : e.ts <= now
SequenceAhead == ~Sqlite => \A e \in events : e.id <= seq

\* The inductive invariant.
IInv ==
  /\ TypeOK
  /\ UniqueIds
  /\ StampedInPast
  /\ SequenceAhead
  /\ ChronologicalIds

-----------------------------------------------------------------------------

\* scidToInt64 loses nothing: a short channel id above the sign bit reads back
\* as itself, so the bit-preserving storage of store.go is a bijection.
THEOREM ScidRoundTrip == \A u \in Scids : int64ToSCID(scidToInt64(u)) = u
BY StoreAssumption DEF scidToInt64, int64ToSCID

\* A new row's id lies above every id in the table, on either backend.
LEMMA FreshId ==
  ASSUME IInv, NEW n \in 1..MaxRowId, IsNextId(n)
  PROVE  \A e \in events : e.id < n
<1>1. CASE Sqlite
  BY <1>1 DEF IInv, TypeOK, EventRows, IsNextId
<1>2. CASE ~Sqlite
  BY <1>2 DEF IInv, TypeOK, EventRows, IsNextId, SequenceAhead
<1>3. QED BY <1>1, <1>2

\* The empty store satisfies the invariant.
LEMMA InitIInv == Init => IInv
BY StoreAssumption DEF Init, IInv, TypeOK, UniqueIds, StampedInPast,
   SequenceAhead, ChronologicalIds

\* AddChannelEvent keeps the invariant.
LEMMA AddEventIInv ==
  ASSUME IInv, NEW c \in ChanPoints, NEW type \in EventTypes,
         NEW bal \in Balances \cup {NoBalance}, AddChannelEvent(c, type, bal)
  PROVE  IInv'
<1> PICK n \in 1..MaxRowId :
      /\ IsNextId(n)
      /\ events' = events \cup
           {[id |-> n, chan |-> c, type |-> type, ts |-> now, bal |-> bal]}
      /\ seq' = IF Sqlite THEN seq ELSE n
  BY DEF AddChannelEvent
<1> DEFINE row == [id |-> n, chan |-> c, type |-> type, ts |-> now, bal |-> bal]
<1>1. UNCHANGED <<peers, channels, now>> /\ GetChannel(c) # {}
  BY DEF AddChannelEvent
<1>2. \A e \in events : e.id < n
  BY FreshId
<1>3. row \in EventRows
  BY DEF IInv, TypeOK, EventRows
<1>4. TypeOK'
  BY <1>1, <1>3, StoreAssumption DEF IInv, TypeOK, GetChannel
<1>5. UniqueIds'
  BY <1>2 DEF IInv, UniqueIds, TypeOK, EventRows
<1>6. StampedInPast' /\ SequenceAhead'
  BY <1>1, <1>2 DEF IInv, StampedInPast, SequenceAhead, TypeOK, EventRows
<1>7. ChronologicalIds'
  BY <1>2 DEF IInv, ChronologicalIds, StampedInPast, TypeOK, EventRows
<1>8. QED BY <1>4, <1>5, <1>6, <1>7 DEF IInv

\* Every prune removes rows and touches nothing else.
LEMMA PruneShrinks ==
  ASSUME Prune
  PROVE  events' \subseteq events /\ UNCHANGED <<peers, channels, seq, now>>
BY DEF Prune, PruneBySize, PruneByAge

\* Both prunes keep the invariant: they only remove rows.
LEMMA PruneIInv ==
  ASSUME IInv, Prune
  PROVE  IInv'
BY PruneShrinks DEF IInv, TypeOK, GetChannel, UniqueIds, StampedInPast,
   SequenceAhead, ChronologicalIds

\* Every step keeps the invariant.
LEMMA NextIInv ==
  ASSUME IInv, [Next]_vars
  PROVE  IInv'
<1>1. ASSUME NEW pk \in Pubkeys, AddPeer(pk) PROVE IInv'
  BY <1>1 DEF AddPeer, IInv, TypeOK, GetChannel, UniqueIds, StampedInPast,
     SequenceAhead, ChronologicalIds
<1>2. ASSUME NEW c \in ChanPoints, NEW u \in Scids, NEW pk \in Pubkeys,
             AddChannel(c, u, pk)
      PROVE  IInv'
  <2>1. scidToInt64(u) \in Int
    BY StoreAssumption DEF scidToInt64
  <2>2. TypeOK'
    BY <1>2, <2>1 DEF AddChannel, IInv, TypeOK, GetChannel, ChannelRows
  <2>3. QED
    BY <1>2, <2>2 DEF AddChannel, IInv, UniqueIds, StampedInPast,
       SequenceAhead, ChronologicalIds
<1>3. CASE AddAnyEvent
  BY <1>3, AddEventIInv DEF AddAnyEvent, EventTypes
<1>4. CASE Prune
  BY <1>4, PruneIInv
<1>5. CASE Tick
  BY <1>5, StoreAssumption DEF Tick, IInv, TypeOK, EventRows, GetChannel,
     UniqueIds, StampedInPast, SequenceAhead, ChronologicalIds
<1>6. CASE UNCHANGED vars
  BY <1>6 DEF vars, IInv, TypeOK, GetChannel, UniqueIds, StampedInPast,
     SequenceAhead, ChronologicalIds
<1>7. QED BY <1>1, <1>2, <1>3, <1>4, <1>5, <1>6 DEF Next

\* The invariant always holds.
LEMMA Invariance == Spec => []IInv
<1>1. Init => IInv BY InitIInv
<1>2. IInv /\ [Next]_vars => IInv' BY NextIInv
<1>3. QED BY <1>1, <1>2, PTL DEF Spec

\* The tables stay well typed and every foreign key resolves.
THEOREM TypeCorrect == Spec => []TypeOK
<1>1. IInv => TypeOK BY DEF IInv
<1>2. QED BY Invariance, <1>1, PTL

\* Row ids and timestamps never disagree: the order the analyzer replays rows
\* in is the order they happened in.
THEOREM IdsAreChronological == Spec => []ChronologicalIds
<1>1. IInv => ChronologicalIds BY DEF IInv
<1>2. QED BY Invariance, <1>1, PTL

-----------------------------------------------------------------------------

\* D is what is left of E when its oldest rows (by id) are cut off.
IsNewestPart(D, E) ==
  D \subseteq E /\ \A e \in D, f \in E : f.id > e.id => f \in D

\* Both prunes cut the table to a suffix in id order; for the age prune this
\* rests on the ids being chronological.
LEMMA PruneCutsSuffix ==
  ASSUME IInv, Prune
  PROVE  IsNewestPart(events', events)
<1>1. PICK m \in MaxEventsArgs :
        PruneBySize(m) \/ \E r \in RetentionArgs : PruneByAge(m, r)
  BY DEF Prune
<1>2. CASE PruneBySize(m)
  <2> DEFINE B == {b \in events :
               Cardinality({f \in events : f.id > b.id}) = Int32(m - 1)}
  <2>1. events' = {e \in events : ~ \E b \in B : e.id < b.id}
    BY <1>2 DEF PruneBySize
  <2> HIDE DEF B
  <2>2. B \subseteq events BY DEF B
  <2>3. \A e \in events : e.id \in Int
    BY DEF IInv, TypeOK, EventRows
  <2>4. QED BY <2>1, <2>2, <2>3 DEF IsNewestPart
<1>3. ASSUME NEW r \in RetentionArgs, PruneByAge(m, r)
      PROVE  IsNewestPart(events', events)
  <2>1. events' = {e \in events : ~(e.ts < now - r)}
    BY <1>3 DEF PruneByAge
  <2>2. now \in Int /\ r \in Int /\ \A e \in events : e.ts \in Int
    BY StoreAssumption DEF IInv, TypeOK, EventRows
  <2>3. \A e, f \in events : f.id > e.id => e.ts <= f.ts
    BY DEF IInv, ChronologicalIds, TypeOK, EventRows
  <2>4. QED BY <2>1, <2>2, <2>3 DEF IsNewestPart
<1>4. QED BY <1>1, <1>2, <1>3

\* The analyzer's seed row is unique.
LEMMA SeedUnique ==
  ASSUME IInv, NEW D, D \subseteq events, NEW c, NEW t,
         NEW s \in GetLatestChannelUpdateBefore(D, c, t),
         NEW e \in GetLatestChannelUpdateBefore(D, c, t)
  PROVE  e = s
<1>1. NotAfter(e, s) /\ NotAfter(s, e) /\ e \in events /\ s \in events
  BY DEF GetLatestChannelUpdateBefore, UpdatesBefore
<1>2. e.id = s.id
  BY <1>1 DEF NotAfter, IInv, TypeOK, EventRows
<1>3. QED BY <1>1, <1>2 DEF IInv, UniqueIds

\* Cutting the table to a suffix keeps a seed or leaves none, and keeps every
\* row that is replayed after the seed.
LEMMA SuffixForgets ==
  ASSUME IInv, NEW D, IsNewestPart(D, events), NEW c, NEW t \in Int
  PROVE  getInitialChannelState(D, c, t)
           \in {getInitialChannelState(events, c, t), Unseeded}
<1> DEFINE SD == GetLatestChannelUpdateBefore(D, c, t)
           SE == GetLatestChannelUpdateBefore(events, c, t)
<1>1. CASE SD = {}
  BY <1>1 DEF getInitialChannelState
<1>2. ASSUME NEW s \in SD
      PROVE  getInitialChannelState(D, c, t) = getInitialChannelState(events, c, t)
  <2>1. s \in D /\ s \in events /\ s \in UpdatesBefore(events, c, t)
    BY <1>2 DEF GetLatestChannelUpdateBefore, UpdatesBefore, IsNewestPart
  <2>2. ASSUME NEW f \in UpdatesBefore(events, c, t)
        PROVE  NotAfter(f, s)
    <3>1. f \in events
      BY DEF UpdatesBefore
    <3>2. CASE f \in D
      BY <1>2, <3>2 DEF GetLatestChannelUpdateBefore, UpdatesBefore
    <3>3. CASE f \notin D
      <4>1. f.id <= s.id
        BY <2>1, <3>1, <3>3 DEF IsNewestPart, IInv, TypeOK, EventRows
      <4>2. f.ts <= s.ts
        BY <2>1, <3>1, <4>1 DEF IInv, ChronologicalIds, UniqueIds, TypeOK, EventRows
      <4>3. QED BY <2>1, <3>1, <4>1, <4>2 DEF NotAfter, IInv, TypeOK, EventRows
    <3>4. QED BY <3>2, <3>3
  <2>3. s \in SE
    BY <2>1, <2>2 DEF GetLatestChannelUpdateBefore
  <2>4. SD = {s}
    <3>1. D \subseteq events BY DEF IsNewestPart
    <3>2. QED BY <1>2, <3>1, SeedUnique
  <2>5. SE = {s}
    BY <2>3, SeedUnique
  <2>6. Matching(D, c, s.id, s.ts, t) = Matching(events, c, s.id, s.ts, t)
    BY <2>1 DEF Matching, IsNewestPart
  <2>7. Residual(D, c, s, t) = Residual(events, c, s, t)
    BY <2>6 DEF Residual, GetChannelEvents
  <2>8. getInitialChannelState(D, c, t) = StateFrom(s, Residual(D, c, s, t))
    BY <2>4 DEF getInitialChannelState
  <2>9. getInitialChannelState(events, c, t) = StateFrom(s, Residual(events, c, s, t))
    BY <2>5 DEF getInitialChannelState
  <2>10. QED BY <2>7, <2>8, <2>9
<1>3. QED BY <1>1, <1>2

\* Pruning by size or by age never changes what the analyzer seeds a window
\* from into something else than "no history".
THEOREM PruningOnlyForgets == Spec => PruneOnlyForgets
<1>1. IInv /\ [Next]_vars =>
        [Prune => \A c \in ChanPoints, t \in 0..(MaxTime + 1) :
           getInitialChannelState(events', c, t)
             \in {getInitialChannelState(events, c, t), Unseeded}]_vars
  BY PruneCutsSuffix, SuffixForgets, StoreAssumption
<1>2. QED BY Invariance, <1>1, PTL DEF Spec, PruneOnlyForgets

-----------------------------------------------------------------------------
(* Counting rows. *)

\* Any set of rows has an oldest and a newest one, and is finite.
LEMMA OldestRow ==
  ASSUME IInv, NEW R, R \subseteq events, R # {}
  PROVE  \E e \in R : \A f \in R : e.id <= f.id
<1> DEFINE T == {e.id : e \in R}
<1>1. T \in SUBSET Nat /\ T # {}
  BY DEF IInv, TypeOK, EventRows
<1>2. PICK m \in T : \A k \in T : m <= k
  BY <1>1, LeastNatural
<1>3. QED BY <1>2

\* A non-empty set of rows has a newest one.
LEMMA NewestRow ==
  ASSUME IInv, NEW R, R \subseteq events, R # {}
  PROVE  \E e \in R : \A f \in R : f.id <= e.id
<1> DEFINE T == {MaxRowId - e.id : e \in R}
<1>1. \A e \in R : e.id \in 1..MaxRowId
  BY DEF IInv, TypeOK, EventRows
<1>2. T \in SUBSET Nat /\ T # {}
  BY <1>1, StoreAssumption
<1>3. PICK m \in T : \A k \in T : m <= k
  BY <1>2, LeastNatural
<1>4. PICK e \in R : m = MaxRowId - e.id
  BY <1>3
<1>5. \A f \in R : MaxRowId - e.id <= MaxRowId - f.id
  BY <1>3, <1>4
<1>6. QED BY <1>1, <1>5, StoreAssumption

\* Every set of rows is finite.
LEMMA RowsFinite ==
  ASSUME IInv, NEW R, R \subseteq events
  PROVE  IsFiniteSet(R) /\ Cardinality(R) \in Nat
<1> DEFINE idOf == [e \in R |-> e.id]
<1>1. idOf \in [R -> 1..MaxRowId]
  BY DEF IInv, TypeOK, EventRows
<1>2. \A a, b \in R : idOf[a] = idOf[b] => a = b
  BY DEF IInv, UniqueIds
<1>3. idOf \in Injection(R, 1..MaxRowId)
  BY <1>1, <1>2 DEF Injection, IsInjective
<1>4. IsFiniteSet(1..MaxRowId)
  BY StoreAssumption, FS_Interval
<1>5. QED BY <1>3, <1>4, FS_Injection, FS_CardinalityType

\* The rows that a query with a LIMIT returns of the rows M it selects.
Limited(M, limit) == {e \in M : Cardinality({f \in M : f.id < e.id}) < limit}

\* A query that returns fewer rows than its LIMIT returns all of them, ...
LEMMA BelowLimitIsAll ==
  ASSUME IInv, NEW M, M \subseteq events, NEW limit \in Nat,
         Cardinality(Limited(M, limit)) < limit
  PROVE  Limited(M, limit) = M
<1> DEFINE L == Limited(M, limit)
<1>1. L \subseteq M
  BY DEF Limited
<1>2. SUFFICES ASSUME M \ L # {} PROVE FALSE
  BY <1>1
<1>3. PICK e \in M \ L : \A f \in M \ L : e.id <= f.id
  BY <1>2, OldestRow
<1> DEFINE older == {f \in M : f.id < e.id}
<1>4. older \subseteq L
  <2>1. \A f \in M : f.id \in Int
    BY DEF IInv, TypeOK, EventRows
  <2>2. QED BY <1>3, <2>1
<1>5. IsFiniteSet(L) /\ Cardinality(L) \in Nat
  BY <1>1, RowsFinite
<1>6. Cardinality(older) <= Cardinality(L) /\ Cardinality(older) \in Nat
  BY <1>4, <1>5, FS_Subset, FS_CardinalityType
<1>7. Cardinality(older) < limit
  BY <1>5, <1>6
<1>8. QED BY <1>3, <1>7 DEF Limited

\* ... and none returns more.
LEMMA AtMostLimit ==
  ASSUME IInv, NEW M, M \subseteq events, NEW limit \in Nat
  PROVE  Cardinality(Limited(M, limit)) <= limit
<1> DEFINE L == Limited(M, limit)
<1>1. L \subseteq M
  BY DEF Limited
<1>2. CASE L = {}
  BY <1>2, FS_EmptySet
<1>3. CASE L # {}
  <2>1. PICK e \in L : \A f \in L : f.id <= e.id
    BY <1>1, <1>3, NewestRow
  <2> DEFINE older == {f \in M : f.id < e.id}
  <2>2. L \ {e} \subseteq older
    <3>1. \A f \in M : f.id \in Int
      BY DEF IInv, TypeOK, EventRows
    <3>2. \A f \in L : f # e => f.id # e.id
      BY <1>1 DEF IInv, UniqueIds
    <3>3. QED BY <1>1, <2>1, <3>1, <3>2
  <2>3. IsFiniteSet(L) /\ Cardinality(L) \in Nat /\ IsFiniteSet(older)
        /\ Cardinality(older) \in Nat
    BY <1>1, RowsFinite
  <2>4. Cardinality(L \ {e}) = Cardinality(L) - 1
    BY <2>3, FS_RemoveElement
  <2>5. Cardinality(L \ {e}) <= Cardinality(older)
    BY <2>2, <2>3, FS_Subset
  <2>6. Cardinality(older) < limit
    BY <2>1 DEF Limited
  <2>7. QED BY <2>3, <2>4, <2>5, <2>6
<1>4. QED BY <1>2, <1>3

-----------------------------------------------------------------------------
(* Seeding. *)

\* The newest update by id is the one that the query by timestamp and id finds.
LEMMA LatestIsLast ==
  ASSUME IInv, NEW c, NEW t \in Int, NEW u \in LastOf(UpdatesBefore(events, c, t))
  PROVE  GetLatestChannelUpdateBefore(events, c, t) = {u}
<1> DEFINE U == UpdatesBefore(events, c, t)
<1>1. U \subseteq events /\ u \in U /\ \A f \in U : f.id <= u.id
  BY DEF UpdatesBefore, LastOf
<1>2. \A f \in U : f.ts <= u.ts
  BY <1>1 DEF IInv, ChronologicalIds, UniqueIds, TypeOK, EventRows
<1>3. \A f \in U : NotAfter(f, u)
  <2>1. \A f \in U : f.ts \in Int /\ f.id \in Int
    BY <1>1 DEF IInv, TypeOK, EventRows
  <2>2. QED BY <1>1, <1>2, <2>1 DEF NotAfter
<1>4. u \in GetLatestChannelUpdateBefore(events, c, t)
  BY <1>1, <1>3 DEF GetLatestChannelUpdateBefore
<1>5. QED BY <1>4, SeedUnique

\* No row after the newest update is an update.
LEMMA ResidualHasNoUpdate ==
  ASSUME IInv, NEW c, NEW t \in Int, NEW u \in LastOf(UpdatesBefore(events, c, t)),
         NEW e \in Matching(events, c, u.id, u.ts, t)
  PROVE  e.type # "update"
<1>1. e \in events /\ e.chan = c /\ e.id > u.id /\ e.ts < t
  BY DEF Matching
<1>2. u \in events
  BY DEF LastOf, UpdatesBefore
<1>3. e.id \in Int /\ u.id \in Int
  BY <1>1, <1>2 DEF IInv, TypeOK, EventRows
<1>4. SUFFICES ASSUME e.type = "update" PROVE FALSE
  OBVIOUS
<1>5. e \in UpdatesBefore(events, c, t)
  BY <1>1, <1>4 DEF UpdatesBefore
<1>6. e.id <= u.id
  BY <1>5 DEF LastOf
<1>7. QED BY <1>1, <1>3, <1>6

\* Replaying a complete residual ends in what the newest row of the past says.
LEMMA ReplayEndsInNewest ==
  ASSUME IInv, NEW c, NEW t \in Int, NEW u \in LastOf(UpdatesBefore(events, c, t)),
         NEW e \in LastOf(Past(c, t))
  PROVE  OnlineAfter(Matching(events, c, u.id, u.ts, t)) <=> e.type # "offline"
<1> DEFINE M == Matching(events, c, u.id, u.ts, t)
<1>1. /\ u \in events /\ u.chan = c /\ u.type = "update" /\ u.ts < t
      /\ e \in events /\ e.chan = c /\ e.ts < t
      /\ M \subseteq events
  BY DEF LastOf, UpdatesBefore, Past, Matching
<1>2. \A f \in events : f.id \in Int /\ f.ts \in Int /\ f.type \in EventTypes
  BY DEF IInv, TypeOK, EventRows
<1>3. u.id <= e.id
  BY <1>1 DEF LastOf, Past
<1>4. \A f \in M : f.type \in {"online", "offline"} /\ f.id <= e.id /\ f.id > u.id
  <2>1. \A f \in M : f \in Past(c, t)
    BY DEF Matching, Past
  <2>2. \A f \in M : f.id <= e.id
    BY <2>1 DEF LastOf
  <2>3. \A f \in M : f.type # "update"
    BY ResidualHasNoUpdate
  <2>4. QED BY <1>1, <1>2, <2>2, <2>3 DEF EventTypes, Matching
<1>5. CASE e.id = u.id
  <2>1. e = u
    BY <1>1, <1>5 DEF IInv, UniqueIds
  <2>2. M = {}
    BY <1>1, <1>2, <1>4, <1>5
  <2>3. QED BY <1>1, <2>1, <2>2 DEF OnlineAfter
<1>6. CASE e.id # u.id
  <2>1. u.id < e.id
    BY <1>1, <1>2, <1>3, <1>6
  <2>2. u.ts <= e.ts
    BY <1>1, <2>1 DEF IInv, ChronologicalIds
  <2>3. e \in M
    BY <1>1, <1>2, <2>1, <2>2 DEF Matching
  <2>4. e.type \in {"online", "offline"}
    BY <1>4, <2>3
  <2>5. \A f \in M : (\A g \in M : g.id <= f.id) => f = e
    BY <1>1, <1>2, <1>4, <2>3 DEF IInv, UniqueIds
  <2>6. QED BY <1>4, <2>3, <2>4, <2>5 DEF OnlineAfter
<1>7. QED BY <1>5, <1>6

\* A channel's state at the start of a window, as the analyzer seeds it from
\* the latest update and the residual rows, is the one that its whole recorded
\* past leads to, unless the residual overflowed and the seed is refused.
THEOREM SeedsAreExact == Spec => []SeedMatchesReplay
<1>1. ASSUME IInv PROVE SeedMatchesReplay
  <2> SUFFICES ASSUME NEW c \in ChanPoints, NEW t \in 0..(MaxTime + 1),
                      NEW u \in LastOf(UpdatesBefore(events, c, t))
               PROVE  LET st == getInitialChannelState(events, c, t)
                      IN  /\ st.bal = u.bal
                          /\ st.err \/ \A e \in LastOf(Past(c, t)) :
                                         st.online <=> e.type # "offline"
                          /\ \A e \in Residual(events, c, u, t) : e.type # "update"
    BY DEF SeedMatchesReplay
  <2> DEFINE M  == Matching(events, c, u.id, u.ts, t)
             R  == Residual(events, c, u, t)
             st == getInitialChannelState(events, c, t)
  <2>1. t \in Int
    BY StoreAssumption
  <2>2. GetLatestChannelUpdateBefore(events, c, t) = {u}
    BY <1>1, <2>1, LatestIsLast
  <2>3. st = StateFrom(u, R)
    BY <2>2 DEF getInitialChannelState
  <2>4. R = Limited(M, ResidualLimit)
    BY DEF Residual, GetChannelEvents, Limited
  <2>5. \A e \in R : e.type # "update"
    <3>1. R \subseteq M BY <2>4 DEF Limited
    <3>2. QED BY <1>1, <2>1, <3>1, ResidualHasNoUpdate
  <2>6. st.bal = u.bal
    BY <2>3 DEF StateFrom
  <2>7. ASSUME ~st.err, NEW e \in LastOf(Past(c, t))
        PROVE  st.online <=> e.type # "offline"
    <3>1. Cardinality(R) # ResidualLimit
      BY <2>3, <2>7 DEF StateFrom
    <3>2. M \subseteq events /\ ResidualLimit \in Nat
      BY HistoryAssumption DEF Matching
    <3>3. Cardinality(R) <= ResidualLimit
      BY <1>1, <2>4, <3>2, AtMostLimit
    <3>4. R \subseteq events
      BY <2>4, <3>2 DEF Limited
    <3>5. Cardinality(R) < ResidualLimit
      BY <1>1, <3>1, <3>2, <3>3, <3>4, RowsFinite
    <3>6. R = M
      BY <1>1, <2>4, <3>2, <3>5, BelowLimitIsAll
    <3>7. st.online = OnlineAfter(M)
      BY <2>3, <3>6 DEF StateFrom
    <3>8. QED BY <1>1, <2>1, <2>7, <3>7, ReplayEndsInNewest
  <2>8. QED BY <2>5, <2>6, <2>7
<1>2. QED BY Invariance, <1>1, PTL

-----------------------------------------------------------------------------
(* The size prune. *)

Newer(b) == {f \in events : f.id > b.id}

\* Fewer rows are newer than a row than there are rows.
LEMMA NewerCounted ==
  ASSUME IInv, NEW b \in events
  PROVE  /\ IsFiniteSet(Newer(b)) /\ Cardinality(Newer(b)) \in Nat
         /\ b \notin Newer(b)
         /\ Cardinality(Newer(b)) < Cardinality(events)
<1>1. Newer(b) \subseteq events /\ b.id \in Int
  BY DEF Newer, IInv, TypeOK, EventRows
<1>2. b \notin Newer(b)
  BY <1>1 DEF Newer
<1>3. IsFiniteSet(events) /\ Cardinality(events) \in Nat
  BY RowsFinite
<1>4. IsFiniteSet(Newer(b)) /\ Cardinality(Newer(b)) \in Nat
  BY <1>1, RowsFinite
<1>5. Cardinality(Newer(b)) <= Cardinality(events)
  BY <1>1, <1>3, FS_Subset
<1>6. Cardinality(Newer(b)) # Cardinality(events)
  BY <1>1, <1>2, <1>3, FS_Subset
<1>7. QED BY <1>2, <1>3, <1>4, <1>5, <1>6

\* The older of two rows has more rows newer than itself.
LEMMA NewerOrdered ==
  ASSUME IInv, NEW a \in events, NEW b \in events, a.id < b.id
  PROVE  Cardinality(Newer(b)) < Cardinality(Newer(a))
<1>1. \A f \in events : f.id \in Int
  BY DEF IInv, TypeOK, EventRows
<1>2. Newer(b) \subseteq Newer(a) /\ b \in Newer(a) /\ b \notin Newer(b)
  BY <1>1 DEF Newer
<1>3. Cardinality(Newer(b)) <= Cardinality(Newer(a))
  BY <1>2, NewerCounted, FS_Subset
<1>4. Cardinality(Newer(b)) # Cardinality(Newer(a))
  BY <1>2, NewerCounted, FS_Subset
<1>5. QED BY <1>3, <1>4, NewerCounted

\* Of at least m rows, one has exactly m - 1 newer ones, and with those it
\* makes m rows.
LEMMA RowAtOffset ==
  ASSUME IInv, NEW m \in Nat, m > 0, Cardinality(events) >= m
  PROVE  \E b \in events : Cardinality(Newer(b)) = m - 1
<1> DEFINE B == {b \in events : Cardinality(Newer(b)) < m}
<1>1. IsFiniteSet(events) /\ Cardinality(events) \in Nat
  BY RowsFinite
<1>2. B \subseteq events /\ IsFiniteSet(B) /\ Cardinality(B) \in Nat
  BY RowsFinite
<1>3. \A f \in events : f.id \in Int
  BY DEF IInv, TypeOK, EventRows
<1>4. B # {}
  <2>1. events # {}
    BY <1>1, FS_EmptySet
  <2>2. PICK e \in events : \A f \in events : f.id <= e.id
    BY <2>1, NewestRow
  <2>3. Newer(e) = {}
    BY <1>3, <2>2 DEF Newer
  <2>4. Cardinality(Newer(e)) = 0
    BY <2>3, FS_EmptySet
  <2>5. QED BY <2>4
<1>5. PICK b \in B : \A f \in B : b.id <= f.id
  BY <1>2, <1>4, OldestRow
<1>6. B = Newer(b) \cup {b}
  <2>1. ASSUME NEW f \in B PROVE f \in Newer(b) \cup {b}
    <3>1. f.id = b.id => f = b
      BY <1>2, <1>5, <2>1 DEF IInv, UniqueIds
    <3>2. QED BY <1>2, <1>3, <1>5, <2>1, <3>1 DEF Newer
  <2>2. ASSUME NEW f \in Newer(b) PROVE f \in B
    <3>1. f \in events /\ b.id < f.id
      BY <1>2, <1>3, <2>2 DEF Newer
    <3>2. Cardinality(Newer(f)) < Cardinality(Newer(b))
      BY <1>2, <3>1, NewerOrdered
    <3>3. QED BY <1>2, <3>1, <3>2, NewerCounted
  <2>3. QED BY <2>1, <2>2
<1>7. Cardinality(B) = Cardinality(Newer(b)) + 1
  BY <1>2, <1>6, NewerCounted, FS_AddElement
<1>8. Cardinality(B) >= m
  <2>1. SUFFICES ASSUME Cardinality(B) < m PROVE FALSE
    BY <1>2
  <2>2. events \ B # {}
    <3>1. events # B BY <1>1, <1>2, <2>1
    <3>2. QED BY <1>2, <3>1
  <2>3. PICK c \in events \ B : \A f \in events \ B : f.id <= c.id
    BY <2>2, NewestRow
  <2>4. Newer(c) \subseteq B
    BY <1>3, <2>3 DEF Newer
  <2>5. Cardinality(Newer(c)) <= Cardinality(B)
    BY <1>2, <2>4, FS_Subset
  <2>6. Cardinality(Newer(c)) < m
    BY <1>2, <2>1, <2>3, <2>5, NewerCounted
  <2>7. QED BY <2>3, <2>6
<1>9. QED BY <1>2, <1>5, <1>7, <1>8, NewerCounted

\* The size limit as an int32.
LEMMA OffsetFits ==
  ASSUME NEW m \in Nat, SizeLimited(m)
  PROVE  Int32(m - 1) = m - 1
<1>1. m - 1 \in 0..MaxInt32 /\ MaxInt32 \in Nat
  BY StoreAssumption DEF SizeLimited
<1>2. (m - 1) % (2 * (MaxInt32 + 1)) = m - 1
  BY <1>1
<1>3. QED BY <1>1, <1>2 DEF Int32

\* PruneBySize leaves as many rows as the limit says, or all of them.
LEMMA SizePruneKeeps ==
  ASSUME IInv, NEW m \in Nat, PruneBySize(m)
  PROVE  Cardinality(events') = IF Cardinality(events) < m THEN Cardinality(events) ELSE m
<1>1. SizeLimited(m) /\ m > 0
  BY DEF PruneBySize, SizeLimited
<1>2. events' = {e \in events : ~ \E b \in events :
                   Cardinality(Newer(b)) = m - 1 /\ e.id < b.id}
  BY <1>1, OffsetFits DEF PruneBySize, Newer
<1>3. \A f \in events : f.id \in Int
  BY DEF IInv, TypeOK, EventRows
<1>4. IsFiniteSet(events) /\ Cardinality(events) \in Nat
  BY RowsFinite
<1>5. CASE Cardinality(events) < m
  <2>1. \A b \in events : Cardinality(Newer(b)) # m - 1
    BY <1>4, <1>5, NewerCounted
  <2>2. events' = events
    BY <1>2, <2>1
  <2>3. QED BY <1>5, <2>2
<1>6. CASE Cardinality(events) >= m
  <2>1. PICK b \in events : Cardinality(Newer(b)) = m - 1
    BY <1>1, <1>6, RowAtOffset
  <2>2. \A c \in events : Cardinality(Newer(c)) = m - 1 => c = b
    <3>1. ASSUME NEW c \in events, Cardinality(Newer(c)) = m - 1 PROVE c = b
      <4>1. ~(c.id < b.id) /\ ~(b.id < c.id)
        BY <2>1, <3>1, NewerOrdered
      <4>2. QED BY <1>3, <2>1, <3>1, <4>1 DEF IInv, UniqueIds
    <3>2. QED BY <3>1
  <2>3. events' = {e \in events : ~(e.id < b.id)}
    BY <1>2, <2>1, <2>2
  <2>4. events' = Newer(b) \cup {b}
    BY <1>3, <2>1, <2>3 DEF Newer, IInv, UniqueIds
  <2>5. Cardinality(events') = Cardinality(Newer(b)) + 1
    BY <2>1, <2>4, NewerCounted, FS_AddElement
  <2>6. QED BY <1>4, <1>6, <2>1, <2>5
<1>7. QED BY <1>4, <1>5, <1>6

\* The size statement of PruneEvents keeps exactly the newest maxEvents rows,
\* for every limit that fits an int32 and every table.
THEOREM SizePruningIsExact == Spec => SizePruneExact
<1>1. IInv /\ [Next]_vars =>
        [\A m \in MaxEventsArgs : (m > 0 /\ PruneBySize(m)) =>
           Cardinality(events') =
             IF Cardinality(events) < m THEN Cardinality(events) ELSE m]_vars
  BY SizePruneKeeps, StoreAssumption
<1>2. QED BY Invariance, <1>1, PTL DEF Spec, SizePruneExact

-----------------------------------------------------------------------------
(* Pages. *)

Selected == Matching(events, req.chan, lastId, req.start, until)

\* The limit of a query is positive, whatever the request said.
LEMMA LimitType == RPCAssumption /\ req \in Requests => Limit \in Nat \ {0}
BY DEF RPCAssumption, Limit

\* A page holds every row that the query returns, once.
LEMMA PageIsRows ==
  ASSUME IInv, NEW R, R \subseteq events, NEW page \in InIdOrder(R)
  PROVE  /\ page \in Seq(EventRows)
         /\ Len(page) = Cardinality(R)
         /\ \A i \in DOMAIN page : page[i] \in R
         /\ \A e \in R : \E i \in DOMAIN page : page[i] = e
         /\ \A i, j \in DOMAIN page : i < j => page[i].id < page[j].id
<1> DEFINE n == Cardinality(R)
<1>1. IsFiniteSet(R) /\ n \in Nat
  BY RowsFinite
<1> HIDE DEF n
<1>2. page \in [1..n -> R] /\ \A i, j \in 1..n : i # j => page[i] # page[j]
  BY DEF InIdOrder, SetToSeqs, n
<1>3. page \in Injection(1..n, R)
  BY <1>2 DEF Injection, IsInjective
<1>4. IsFiniteSet(1..n) /\ Cardinality(1..n) = n
  BY <1>1, FS_Interval
<1>5. page \in Surjection(1..n, R)
  BY <1>1, <1>3, <1>4, FS_Injection DEF n
<1>6. \A e \in R : \E i \in 1..n : page[i] = e
  BY <1>5 DEF Surjection
<1>7. R \subseteq EventRows
  BY DEF IInv, TypeOK
<1>8. page \in Seq(EventRows) /\ Len(page) = n /\ DOMAIN page = 1..n
  BY <1>1, <1>2, <1>7
<1>9. QED BY <1>2, <1>6, <1>8 DEF InIdOrder, n

\* There is a page for every answer: the query never keeps the call waiting.
LEMMA PageExists ==
  ASSUME IInv, NEW R, R \subseteq events
  PROVE  InIdOrder(R) # {}
<1> DEFINE Bad == {T \in SUBSET R : InIdOrder(T) = {}}
           sizes == {Cardinality(T) : T \in Bad}
<1>1. SUFFICES ASSUME Bad # {} PROVE FALSE
  OBVIOUS
<1>2. \A T \in SUBSET R : IsFiniteSet(T) /\ Cardinality(T) \in Nat
  BY RowsFinite
<1>3. sizes \in SUBSET Nat /\ sizes # {}
  BY <1>1, <1>2
<1>4. PICK m \in sizes : \A k \in sizes : m <= k
  BY <1>3, LeastNatural
<1>5. PICK T \in Bad : Cardinality(T) = m
  BY <1>4
<1>6. T # {}
  <2>1. SUFFICES ASSUME T = {} PROVE FALSE
    OBVIOUS
  <2>2. Cardinality(T) = 0
    BY <2>1, FS_EmptySet
  <2>3. <<>> \in [1..0 -> T]
    OBVIOUS
  <2>4. <<>> \in InIdOrder(T)
    BY <2>2, <2>3 DEF InIdOrder, SetToSeqs
  <2>5. QED BY <1>5, <2>4
<1>7. PICK x \in T : \A f \in T : f.id <= x.id
  BY <1>5, <1>6, NewestRow
<1> DEFINE S == T \ {x}
           n == Cardinality(S)
<1>8. IsFiniteSet(T) /\ m \in Nat /\ n \in Nat /\ m = n + 1
  <2>1. IsFiniteSet(T) /\ m \in Nat
    BY <1>2, <1>5
  <2>2. Cardinality(S) = Cardinality(T) - 1
    BY <1>7, <2>1, FS_RemoveElement
  <2>3. S \in SUBSET R
    BY <1>5
  <2>4. QED BY <1>2, <1>5, <2>1, <2>2, <2>3
<1>9. InIdOrder(S) # {}
  <2>1. S \in SUBSET R
    BY <1>5
  <2>2. n \notin sizes
    BY <1>4, <1>8
  <2>3. S \notin Bad
    BY <2>2
  <2>4. QED BY <2>1, <2>3
<1>10. PICK s \in InIdOrder(S) : TRUE
  BY <1>9
<1>11. /\ s \in [1..n -> S]
       /\ \A i, j \in 1..n : i # j => s[i] # s[j]
       /\ \A i, j \in 1..n : i < j => s[i].id < s[j].id
  BY <1>10 DEF InIdOrder, SetToSeqs
<1> HIDE DEF n
<1> DEFINE q == [i \in 1..(n + 1) |-> IF i = n + 1 THEN x ELSE s[i]]
<1>12. q \in [1..(n + 1) -> T]
  BY <1>7, <1>8, <1>11
<1>13. \A i \in 1..n : s[i] # x /\ s[i].id < x.id
  <2>1. \A f \in T : f.id \in Int
    BY <1>5 DEF IInv, TypeOK, EventRows
  <2>2. \A f \in S : f.id # x.id
    BY <1>5, <1>7 DEF IInv, UniqueIds
  <2>3. QED BY <1>7, <1>11, <2>1, <2>2
<1>14. /\ \A i, j \in 1..(n + 1) : i # j => q[i] # q[j]
       /\ \A i, j \in 1..(n + 1) : i < j => q[i].id < q[j].id
  BY <1>8, <1>11, <1>13
<1>15. q \in InIdOrder(T)
  <2>1. Cardinality(T) = n + 1
    BY <1>5, <1>8
  <2>2. DOMAIN q = 1..(n + 1)
    OBVIOUS
  <2> HIDE DEF q
  <2>3. QED BY <2>1, <2>2, <1>12, <1>14 DEF InIdOrder, SetToSeqs
<1>16. QED BY <1>5, <1>15

-----------------------------------------------------------------------------
(* The types, on either backend. *)

\* Besides RPCTypeOK: what was sent lies at or below the cursor, until the
\* last page.
RPCInv ==
  /\ IInv
  /\ req \in Requests
  /\ RPCTypeOK
  /\ at # "complete" => \A i \in DOMAIN got : got[i].id <= lastId

\* The rows of a page are rows of the table that match the request.
LEMMA RowsSelected ==
  ASSUME RPCInv
  PROVE  /\ Limit \in Nat \ {0}
         /\ Selected \subseteq events /\ Rows \subseteq Selected
         /\ Rows = Limited(Selected, Limit)
BY LimitType, RPCAssumption DEF RPCInv, Rows, Selected, GetChannelEvents, Limited, Matching

\* Rows have ids, and ids are integers.
LEMMA RowIds ==
  ASSUME NEW s \in Seq(EventRows)
  PROVE  \A i \in DOMAIN s : s[i] \in EventRows /\ s[i].id \in 1..MaxRowId /\ s[i].id \in Int
<1>1. \A i \in DOMAIN s : s[i] \in EventRows
  OBVIOUS
<1>2. \A e \in EventRows : e.id \in 1..MaxRowId
  BY DEF EventRows
<1>3. QED BY <1>1, <1>2

\* A page and the cursor that follows it.
LEMMA PageFacts ==
  ASSUME RPCInv, NEW page \in InIdOrder(Rows)
  PROVE  /\ page \in Seq(EventRows)
         /\ Len(page) = Cardinality(Rows)
         /\ \A i \in DOMAIN page : page[i] \in Rows /\ page[i].id > lastId
         /\ \A e \in Rows : \E i \in DOMAIN page : page[i] = e
         /\ \A i, j \in DOMAIN page : i < j => page[i].id < page[j].id
         /\ HasMore(page) => /\ Len(page) \in DOMAIN page
                             /\ LastId(page) = page[Len(page)].id
                             /\ LastId(page) \in 1..MaxRowId
                             /\ \A i \in DOMAIN page : page[i].id <= LastId(page)
<1>1. IInv /\ Rows \subseteq events
  BY RowsSelected DEF RPCInv
<1>2. /\ page \in Seq(EventRows)
      /\ Len(page) = Cardinality(Rows)
      /\ \A i \in DOMAIN page : page[i] \in Rows
      /\ \A e \in Rows : \E i \in DOMAIN page : page[i] = e
      /\ \A i, j \in DOMAIN page : i < j => page[i].id < page[j].id
  BY <1>1, PageIsRows
<1>3. \A e \in Rows : e.id > lastId
  BY RowsSelected DEF Selected, Matching
<1>4. ASSUME HasMore(page)
      PROVE  /\ Len(page) \in DOMAIN page
             /\ LastId(page) = page[Len(page)].id
             /\ LastId(page) \in 1..MaxRowId
             /\ \A i \in DOMAIN page : page[i].id <= LastId(page)
  <2>1. Len(page) \in DOMAIN page /\ page # <<>>
    BY <1>2, <1>4, RowsSelected DEF HasMore
  <2>2. LastId(page) = page[Len(page)].id
    BY <2>1 DEF LastId
  <2>3. \A i \in DOMAIN page : page[i].id \in 1..MaxRowId
    BY <1>2, RowIds
  <2>4. \A i \in DOMAIN page : i <= Len(page)
    BY <1>2
  <2>5. \A i \in DOMAIN page : i = Len(page) \/ page[i].id < page[Len(page)].id
    BY <1>2, <2>1, <2>4
  <2>6. QED BY <2>1, <2>2, <2>3, <2>5, StoreAssumption
<1>5. QED BY <1>2, <1>3, <1>4

\* Appending the page to what the client has.
LEMMA Appended ==
  ASSUME NEW T, NEW s \in Seq(T), NEW p \in Seq(T)
  PROVE  /\ s \o p \in Seq(T)
         /\ DOMAIN (s \o p) = 1..(Len(s) + Len(p))
         /\ \A i \in DOMAIN s : i \in DOMAIN (s \o p) /\ (s \o p)[i] = s[i]
         /\ \A i \in DOMAIN p : Len(s) + i \in DOMAIN (s \o p) /\ (s \o p)[Len(s) + i] = p[i]
         /\ \A i \in DOMAIN (s \o p) :
              \/ i \in DOMAIN s /\ (s \o p)[i] = s[i]
              \/ i - Len(s) \in DOMAIN p /\ (s \o p)[i] = p[i - Len(s)]
OBVIOUS

\* An answer keeps the invariant.
LEMMA AnswerRPCInv ==
  ASSUME RPCInv, Answer
  PROVE  RPCInv'
<1>1. PICK page \in InIdOrder(Rows) :
        /\ got' = got \o page
        /\ at' = IF HasMore(page) THEN "call" ELSE "complete"
        /\ lastId' = IF HasMore(page) THEN LastId(page) ELSE lastId
  BY DEF Answer
<1>2. UNCHANGED <<vars, req, until>> /\ at = "query"
  BY DEF Answer
<1>3. IInv' /\ req' \in Requests
  BY <1>2 DEF RPCInv, vars, IInv, TypeOK, GetChannel, UniqueIds, StampedInPast,
     SequenceAhead, ChronologicalIds
<1>4. got \in Seq(EventRows) /\ lastId \in 0..MaxRowId /\ until \in Int
  BY DEF RPCInv, RPCTypeOK
<1>5. lastId' \in 0..MaxRowId
  BY <1>1, <1>4, PageFacts
<1>6. got' \in Seq(EventRows)
  BY <1>1, <1>4, PageFacts, Appended
<1>7. \A i \in DOMAIN got : got[i].id <= lastId /\ got[i].id \in Int
  BY <1>2, <1>4, RowIds DEF RPCInv
<1>8. \A i \in DOMAIN page : lastId < page[i].id /\ page[i].id \in Int
  <2>1. page \in Seq(EventRows) /\ \A i \in DOMAIN page : page[i].id > lastId
    BY PageFacts
  <2>2. QED BY <1>4, <2>1, RowIds
<1>9. ASSUME NEW i \in DOMAIN got', NEW j \in DOMAIN got', i < j
      PROVE  got'[i].id < got'[j].id
  <2>1. /\ \/ i \in DOMAIN got /\ got'[i] = got[i]
           \/ i - Len(got) \in DOMAIN page /\ got'[i] = page[i - Len(got)]
        /\ \/ j \in DOMAIN got /\ got'[j] = got[j]
           \/ j - Len(got) \in DOMAIN page /\ got'[j] = page[j - Len(got)]
    BY <1>1, <1>4, <1>9, PageFacts, Appended
  <2>2. DOMAIN got = 1..Len(got) /\ DOMAIN page = 1..Len(page)
        /\ Len(got) \in Nat /\ Len(page) \in Nat /\ i \in Int /\ j \in Int
    BY <1>4, <1>6, PageFacts
  <2>3. \A k, l \in DOMAIN got : k < l => got[k].id < got[l].id
    BY DEF RPCInv, RPCTypeOK
  <2>4. \A k, l \in DOMAIN page : k < l => page[k].id < page[l].id
    BY PageFacts
  <2>5. CASE i \in DOMAIN got /\ got'[i] = got[i]
    <3>1. CASE j \in DOMAIN got /\ got'[j] = got[j]
      BY <1>9, <2>3, <2>5, <3>1
    <3>2. CASE j - Len(got) \in DOMAIN page /\ got'[j] = page[j - Len(got)]
      BY <1>4, <1>7, <1>8, <2>5, <3>2
    <3>3. QED BY <2>1, <3>1, <3>2
  <2>6. CASE i - Len(got) \in DOMAIN page /\ got'[i] = page[i - Len(got)]
    <3>1. j - Len(got) \in DOMAIN page /\ got'[j] = page[j - Len(got)]
      BY <1>9, <2>1, <2>2, <2>6
    <3>2. i - Len(got) < j - Len(got)
      BY <1>9, <2>2
    <3>3. QED BY <2>4, <2>6, <3>1, <3>2
  <2>7. QED BY <2>1, <2>5, <2>6
<1>10. at' # "complete" => \A i \in DOMAIN got' : got'[i].id <= lastId'
  <2>1. SUFFICES ASSUME HasMore(page), NEW i \in DOMAIN got'
                 PROVE  got'[i].id <= lastId'
    BY <1>1
  <2>2. lastId' = LastId(page) /\ LastId(page) \in Int /\ lastId < LastId(page)
    <3>1. LastId(page) = page[Len(page)].id /\ Len(page) \in DOMAIN page
      BY <2>1, PageFacts
    <3>2. QED BY <1>1, <1>8, <2>1, <3>1
  <2>3. \/ i \in DOMAIN got /\ got'[i] = got[i]
        \/ i - Len(got) \in DOMAIN page /\ got'[i] = page[i - Len(got)]
    BY <1>1, <1>4, <2>1, PageFacts, Appended
  <2>4. \A k \in DOMAIN page : page[k].id <= LastId(page)
    BY <2>1, PageFacts
  <2>5. QED BY <1>4, <1>7, <2>2, <2>3, <2>4
<1>11. RPCTypeOK'
  BY <1>1, <1>2, <1>4, <1>5, <1>6, <1>9 DEF RPCTypeOK
<1>12. QED BY <1>3, <1>10, <1>11 DEF RPCInv

\* Every step of handler, client and store keeps the invariant.
LEMMA StepRPCInv ==
  ASSUME RPCInv, [RPCNext]_rpcVars
  PROVE  RPCInv'
<1>1. CASE (Next /\ UNCHANGED client) \/ UNCHANGED rpcVars
  <2>1. [Next]_vars /\ UNCHANGED client
    BY <1>1 DEF rpcVars
  <2>2. IInv'
    BY <2>1, NextIInv DEF RPCInv
  <2>3. QED BY <2>1, <2>2 DEF RPCInv, RPCTypeOK, client
<1>2. CASE Accept \/ Refuse \/ ReadFails \/ CallAgain
  <2>1. UNCHANGED <<vars, req, lastId, got>> /\ at # "complete"
    BY <1>2 DEF Accept, Refuse, ReadFails, CallAgain
  <2>2. IInv'
    BY <2>1 DEF RPCInv, vars, IInv, TypeOK, GetChannel, UniqueIds, StampedInPast,
       SequenceAhead, ChronologicalIds
  <2>3. EndTime \in Int
    BY RPCAssumption, StoreAssumption DEF EndTime, RPCInv, IInv, TypeOK
  <2>4. until' \in Int
    BY <1>2, <2>3 DEF Accept, Refuse, ReadFails, CallAgain, RPCInv, RPCTypeOK
  <2>5. at' \in {"call", "query", "InvalidArgument", "NotFound", "Internal"}
    BY <1>2 DEF Accept, Refuse, ReadFails, CallAgain
  <2>6. QED BY <2>1, <2>2, <2>4, <2>5 DEF RPCInv, RPCTypeOK
<1>3. QED BY <1>1, <1>2, AnswerRPCInv DEF RPCNext

\* The invariant of the paging client always holds.
LEMMA RPCInvariance == RPCSpec => []RPCInv
<1>1. RPCInit => RPCInv
  <2>1. RPCInit => IInv
    BY InitIInv DEF RPCInit
  <2>2. QED BY <2>1, StoreAssumption DEF RPCInit, RPCInv, RPCTypeOK
<1>2. RPCInv /\ [RPCNext]_rpcVars => RPCInv' BY StepRPCInv
<1>3. QED BY <1>1, <1>2, PTL DEF RPCSpec

\* What a client is sent is in the order of the ids, without repetition, on
\* SQLite and on Postgres.
THEOREM RPCTypeCorrect == RPCSpec => []RPCTypeOK
<1>1. RPCInv => RPCTypeOK BY DEF RPCInv
<1>2. QED BY RPCInvariance, <1>1, PTL

-----------------------------------------------------------------------------
(* Nothing is skipped, on Postgres.  On SQLite a row may be given an id at or *)
(* below the cursor once the table was pruned empty.                         *)

\* The inductive form of NothingSkipped: a row of the channel at or below the
\* cursor was sent, whatever the end of the window was when its page was read;
\* and the sequence has passed the cursor, so that no new row gets below it.
SentInv ==
  /\ lastId <= seq
  /\ \A e \in events : e.chan = req.chan /\ req.start <= e.ts /\ e.id <= lastId =>
       \E i \in DOMAIN got : got[i] = e

\* An answer keeps what the client has been sent complete up to its cursor.
LEMMA AnswerSentInv ==
  ASSUME ~Sqlite, RPCInv, SentInv, Answer
  PROVE  SentInv'
<1>1. PICK page \in InIdOrder(Rows) :
        /\ got' = got \o page
        /\ lastId' = IF HasMore(page) THEN LastId(page) ELSE lastId
  BY DEF Answer
<1>2. UNCHANGED <<events, seq, req, until>>
  BY DEF Answer, vars
<1>3. got \in Seq(EventRows) /\ lastId \in 0..MaxRowId /\ until \in Int /\ IInv
  BY DEF RPCInv, RPCTypeOK
<1>4. Rows \subseteq events
  BY RowsSelected
<1>5. \A e \in events : e.id \in Int /\ e.ts \in Int /\ e.id <= seq
  BY <1>3 DEF IInv, TypeOK, EventRows, SequenceAhead
<1>6. lastId' <= seq'
  <2>1. CASE HasMore(page)
    <3>1. LastId(page) = page[Len(page)].id /\ page[Len(page)] \in events
      BY <1>4, <2>1, PageFacts
    <3>2. QED BY <1>1, <1>2, <1>5, <2>1, <3>1
  <2>2. CASE ~HasMore(page)
    BY <1>1, <1>2, <2>2 DEF SentInv
  <2>3. QED BY <2>1, <2>2
<1>7. ASSUME NEW e \in events, e.chan = req.chan, req.start <= e.ts, e.id <= lastId'
      PROVE  \E i \in DOMAIN got' : got'[i] = e
  <2>1. CASE e.id <= lastId
    <3>1. PICK i \in DOMAIN got : got[i] = e
      BY <1>7, <2>1 DEF SentInv
    <3>2. QED BY <1>1, <1>3, <3>1, PageFacts, Appended
  <2>2. CASE ~(e.id <= lastId)
    <3>1. HasMore(page)
      BY <1>1, <1>7, <2>2
    <3> DEFINE l == page[Len(page)]
    <3>2. l \in Rows /\ lastId' = l.id
      BY <1>1, <3>1, PageFacts
    <3> HIDE DEF l
    <3>3. e.ts <= l.ts
      <4>1. e.id < l.id \/ e = l
        BY <1>3, <1>4, <1>5, <1>7, <3>2 DEF IInv, UniqueIds
      <4>2. QED BY <1>3, <1>4, <1>5, <3>2, <4>1 DEF IInv, ChronologicalIds
    <3>4. e \in Selected
      <4>1. l.ts < until /\ l \in events
        BY <1>4, <3>2, RowsSelected DEF Selected, Matching
      <4>2. e.ts < until
        BY <1>3, <1>5, <3>3, <4>1
      <4>3. e.id > lastId
        BY <1>3, <1>5, <2>2
      <4>4. QED BY <1>7, <4>2, <4>3 DEF Selected, Matching
    <3>5. e \in Rows
      <4> DEFINE older(x) == {f \in Selected : f.id < x.id}
      <4>1. Cardinality(older(l)) < Limit
        BY <3>2, RowsSelected DEF Limited
      <4>2. older(e) \subseteq older(l) /\ older(l) \subseteq events
        BY <1>2, <1>4, <1>5, <1>7, <3>2, RowsSelected
      <4>3. Cardinality(older(e)) <= Cardinality(older(l))
        BY <1>3, <4>2, RowsFinite, FS_Subset
      <4>4. Cardinality(older(e)) \in Nat /\ Cardinality(older(l)) \in Nat
        BY <1>3, <4>2, RowsFinite
      <4>5. Cardinality(older(e)) < Limit
        BY <4>1, <4>3, <4>4, RowsSelected
      <4>6. QED BY <3>4, <4>5, RowsSelected DEF Limited
    <3>6. PICK i \in DOMAIN page : page[i] = e
      BY <3>5, PageFacts
    <3>7. page \in Seq(EventRows)
      BY PageFacts
    <3>8. Len(got) + i \in DOMAIN (got \o page) /\ (got \o page)[Len(got) + i] = e
      BY <1>3, <3>6, <3>7, Appended
    <3>9. QED BY <1>1, <3>8
  <2>3. QED BY <2>1, <2>2
<1>8. QED BY <1>2, <1>6, <1>7 DEF SentInv

\* Every step keeps what the client has been sent complete up to its cursor.
LEMMA StepSentInv ==
  ASSUME ~Sqlite, RPCInv, SentInv, [RPCNext]_rpcVars
  PROVE  SentInv'
<1>1. lastId \in Nat /\ seq \in Nat
  BY DEF RPCInv, RPCTypeOK, IInv, TypeOK
<1>2. ASSUME UNCHANGED <<req, lastId, got>>, seq <= seq',
             \A e \in events' : e \in events \/ e.id > seq,
             seq' \in Nat, \A e \in events' : e.id \in Nat
      PROVE  SentInv'
  BY <1>1, <1>2 DEF SentInv
<1>3. ASSUME NEW c \in ChanPoints, NEW type, NEW bal, AddChannelEvent(c, type, bal),
             UNCHANGED client
      PROVE  SentInv'
  <2>1. PICK n \in 1..MaxRowId : /\ IsNextId(n)
                                 /\ events' = events \cup {[id |-> n, chan |-> c,
                                      type |-> type, ts |-> now, bal |-> bal]}
                                 /\ seq' = n
    BY <1>3 DEF AddChannelEvent
  <2>2. n = seq + 1
    BY <2>1 DEF IsNextId
  <2>3. \A e \in events : e.id \in Nat
    BY DEF RPCInv, IInv, TypeOK, EventRows
  <2>4. QED BY <1>1, <1>2, <1>3, <2>1, <2>2, <2>3 DEF client
<1>4. CASE Next /\ UNCHANGED client
  <2>1. CASE AddAnyEvent
    BY <1>3, <1>4, <2>1 DEF AddAnyEvent
  <2>2. CASE Prune
    BY <1>1, <1>4, <2>2, PruneShrinks DEF SentInv, client
  <2>3. CASE UNCHANGED <<events, seq>>
    BY <1>4, <2>3 DEF SentInv, client
  <2>4. QED BY <1>4, <2>1, <2>2, <2>3 DEF Next, AddPeer, AddChannel, Tick
<1>5. CASE Accept \/ Refuse \/ ReadFails \/ CallAgain
  BY <1>5 DEF Accept, Refuse, ReadFails, CallAgain, vars, SentInv
<1>6. CASE UNCHANGED rpcVars
  BY <1>6 DEF rpcVars, vars, client, SentInv
<1>7. QED BY <1>4, <1>5, <1>6, AnswerSentInv DEF RPCNext

\* What the client has been sent is always complete up to its cursor.
LEMMA SentInvariance == ASSUME ~Sqlite PROVE RPCSpec => []SentInv
<1>1. RPCInit => SentInv
  BY DEF RPCInit, Init, SentInv
<1>2. RPCInv /\ SentInv /\ [RPCNext]_rpcVars => SentInv' BY StepSentInv
<1>3. QED BY <1>1, <1>2, RPCInvariance, PTL DEF RPCSpec

\* On Postgres the cursor skips nothing, whatever the monitor writes and prunes
\* between two pages, also when a request without an end time widens its window
\* from one call to the next.
THEOREM NothingIsSkipped == ASSUME ~Sqlite PROVE RPCSpec => []NothingSkipped
<1>1. SentInv => NothingSkipped
  BY DEF SentInv, NothingSkipped, Matching
<1>2. QED BY <1>1, SentInvariance, PTL

\* On Postgres, has_more is only false once every event of the window that is
\* still in the table has been sent.
THEOREM CompleteOnlyWhenDone == ASSUME ~Sqlite PROVE RPCSpec => CompleteWhenDone
<1>1. ASSUME RPCInv, SentInv, [RPCNext]_rpcVars, at = "query", at' = "complete",
             NEW e \in Matching(events, req.chan, 0, req.start, until)
      PROVE  \E i \in DOMAIN got' : got'[i] = e
  <2>1. Answer
    BY <1>1 DEF RPCNext, Accept, Refuse, ReadFails, CallAgain, rpcVars, client
  <2>2. PICK page \in InIdOrder(Rows) : /\ got' = got \o page
                                        /\ at' = IF HasMore(page) THEN "call" ELSE "complete"
    BY <2>1 DEF Answer
  <2>3. ~HasMore(page)
    BY <1>1, <2>2
  <2>4. got \in Seq(EventRows) /\ lastId \in Int /\ IInv
    BY <1>1 DEF RPCInv, RPCTypeOK
  <2>5. Limit \in Nat /\ Rows \subseteq events /\ Selected \subseteq events
        /\ Rows = Limited(Selected, Limit)
    BY <1>1, RowsSelected
  <2>6. Rows = Selected
    <3>1. Cardinality(Rows) # Limit
      BY <1>1, <2>2, <2>3, PageFacts DEF HasMore
    <3>2. Cardinality(Rows) <= Limit
      BY <2>4, <2>5, AtMostLimit
    <3>3. Cardinality(Rows) < Limit
      BY <2>4, <2>5, <3>1, <3>2, RowsFinite
    <3>4. QED BY <2>4, <2>5, <3>3, BelowLimitIsAll
  <2>7. CASE e.id <= lastId
    <3>1. PICK i \in DOMAIN got : got[i] = e
      BY <1>1, <2>7 DEF SentInv, Matching
    <3>2. QED BY <1>1, <2>2, <2>4, <3>1, PageFacts, Appended
  <2>8. CASE ~(e.id <= lastId)
    <3>1. e.id \in Int
      BY <1>1, <2>4 DEF Matching, IInv, TypeOK, EventRows
    <3>2. e \in Rows
      BY <1>1, <2>4, <2>6, <2>8, <3>1 DEF Selected, Matching
    <3>3. PICK i \in DOMAIN page : page[i] = e
      BY <1>1, <3>2, PageFacts
    <3>4. page \in Seq(EventRows)
      BY <1>1, PageFacts
    <3>5. Len(got) + i \in DOMAIN (got \o page) /\ (got \o page)[Len(got) + i] = e
      BY <2>4, <3>3, <3>4, Appended
    <3>6. QED BY <2>2, <3>5
  <2>9. QED BY <2>7, <2>8
<1>2. RPCInv /\ SentInv /\ [RPCNext]_rpcVars =>
        [(at = "query" /\ at' = "complete") =>
           \A e \in Matching(events, req.chan, 0, req.start, until) :
             \E i \in DOMAIN got' : got'[i] = e]_rpcVars
  BY <1>1
<1>3. QED BY <1>2, RPCInvariance, SentInvariance, PTL DEF RPCSpec, CompleteWhenDone
=============================================================================
