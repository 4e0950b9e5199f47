---------------------- MODULE ForwardingAbilityProofs ----------------------
(***************************************************************************)
(* What the client of a ForwardingAbility call gets, for every number of   *)
(* channels, peers and forwards, every page size, and whatever lnd and the *)
(* monitor do between two reads of the call: no forward and no channel is  *)
(* missed or read twice, what was forwarded reaches the client, and the    *)
(* codec decodes what it encodes.                                          *)
(***************************************************************************)
EXTENDS ForwardingAbility, CommonProofs, SequenceTheorems

\* What is read of the forwarding history is its beginning.
Begins(s, t) == Len(s) <= Len(t) /\ \A i \in 1..Len(s) : s[i] = t[i]

\* Everything a forward may be.
Forward == [in : Chans, out : Chans, msat : Msat]

\* The cursor and the gathered forwards, which are the first of lnd's: up to the
\* cursor while pages come in, and at the end up to the start of the call.
Gathering ==
  /\ forwards \in Seq(Forward) /\ fetched \in Seq(Forward)
  /\ offset \in Nat /\ owed \in Nat
  /\ owed <= Len(forwards) /\ offset <= Len(fetched)
  /\ Begins(fetched, forwards)
  /\ stage \in {"idle", "map"} => offset = 0 /\ fetched = <<>>
  /\ stage = "forwards" => Len(fetched) = offset
  /\ stage \in {"open", "closed", "data"} => owed <= Len(fetched)

\* A channel that was in a list of lnd when the open ones were read has been
\* considered, or is among the closed ones, which are read next.
Listing ==
  /\ stage = "closed" => listed \subseteq considered \cup closed
  /\ stage = "data" => listed \subseteq considered

-----------------------------------------------------------------------------

\* The lesser of two numbers.
LEMMA MinOfTwo ==
  ASSUME NEW a \in Int, NEW b \in Int
  PROVE  Min({a, b}) = IF a <= b THEN a ELSE b
<1> DEFINE m == IF a <= b THEN a ELSE b
           Least(x) == x \in {a, b} /\ \A y \in {a, b} : x <= y
<1>1. Least(m)
  OBVIOUS
<1>2. \A x : Least(x) => x = m
  OBVIOUS
<1>3. Least(CHOOSE x : Least(x))
  <2> HIDE DEF Least, m
  <2> QED BY <1>1
<1>4. Min({a, b}) = CHOOSE x : Least(x)
  BY DEF Min
<1> QED BY <1>2, <1>3, <1>4

\* A beginning is a prefix.
LEMMA BeginsIsPrefix ==
  ASSUME NEW S, NEW s \in Seq(S), NEW t \in Seq(S), Begins(s, t)
  PROVE  IsPrefix(s, t)
<1>1. Len(s) \in Nat /\ Len(t) \in Nat /\ Len(s) <= Len(t)
  BY DEF Begins
<1>2. SubSeq(s, 1, Len(s)) = SubSeq(t, 1, Len(s))
  BY <1>1 DEF Begins
<1> QED BY <1>1, <1>2 DEF IsPrefix

\* Appending keeps a beginning one.
LEMMA BeginsAppend ==
  ASSUME NEW S, NEW s \in Seq(S), NEW t \in Seq(S), NEW x \in S, Begins(s, t)
  PROVE  Begins(s, Append(t, x))
BY DEF Begins

\* A page: the forwards after the cursor, as many as fit or are there.
LEMMA PageIs ==
  ASSUME forwards \in Seq(Forward), offset \in Nat, offset <= Len(forwards)
  PROVE  /\ Page \in Seq(Forward)
         /\ Len(Page) = IF offset + PageSize <= Len(forwards) THEN PageSize
                        ELSE Len(forwards) - offset
         /\ \A i \in 1..Len(Page) : Page[i] = forwards[offset + i]
<1> DEFINE hi == IF offset + PageSize <= Len(forwards) THEN offset + PageSize ELSE Len(forwards)
<1>1. PageSize \in Nat /\ PageSize >= 1 /\ Len(forwards) \in Nat
  BY AbilityAssumption
<1>2. Page = SubSeq(forwards, offset + 1, hi)
  BY <1>1, MinOfTwo DEF Page
<1>3. hi \in Nat /\ offset <= hi /\ hi <= Len(forwards)
  BY <1>1
<1> HIDE DEF hi
<1>4. /\ Page \in Seq(Forward) /\ Len(Page) = hi - offset
      /\ \A i \in 1..Len(Page) : Page[i] = forwards[offset + i]
  BY <1>2, <1>3
<1> QED BY <1>1, <1>4 DEF hi

\* A page continues what was gathered up to the cursor.
LEMMA PageContinues ==
  ASSUME Gathering, stage = "forwards"
  PROVE  /\ fetched \o Page \in Seq(Forward)
         /\ Begins(fetched \o Page, forwards)
         /\ Len(fetched \o Page) = offset + Len(Page)
         /\ Len(Page) \in Nat /\ Len(Page) <= PageSize
         /\ Len(Page) < PageSize => Len(fetched \o Page) = Len(forwards)
<1>1. /\ forwards \in Seq(Forward) /\ fetched \in Seq(Forward) /\ offset \in Nat
      /\ Len(fetched) = offset /\ Len(fetched) <= Len(forwards)
      /\ \A i \in 1..Len(fetched) : fetched[i] = forwards[i]
  BY DEF Gathering, Begins
<1>2. /\ Page \in Seq(Forward)
      /\ Len(Page) = IF offset + PageSize <= Len(forwards) THEN PageSize ELSE Len(forwards) - offset
      /\ \A i \in 1..Len(Page) : Page[i] = forwards[offset + i]
  BY <1>1, PageIs
<1>3. PageSize \in Nat /\ PageSize >= 1 /\ Len(forwards) \in Nat
  BY <1>1, AbilityAssumption
<1> DEFINE p == Page
<1> HIDE DEF p
<1>4. p \in Seq(Forward) /\ (\A i \in 1..Len(p) : p[i] = forwards[offset + i])
  BY <1>2 DEF p
<1>5. fetched \o p \in Seq(Forward) /\ Len(fetched \o p) = offset + Len(p)
  <2>1. Len(fetched \o p) = Len(fetched) + Len(p)
    BY <1>1, <1>4, ConcatProperties
  <2>2. fetched \o p \in Seq(Forward)
    BY <1>1, <1>4, ConcatProperties
  <2> QED BY <1>1, <2>1, <2>2
<1>6. \A i \in 1..Len(fetched \o p) : (fetched \o p)[i] = forwards[i]
  <2> TAKE i \in 1..Len(fetched \o p)
  <2>1. CASE i <= offset
    BY <1>1, <1>4, <2>1
  <2>2. CASE ~(i <= offset)
    <3>1. i - offset \in 1..Len(p)
      BY <1>1, <1>4, <1>5, <2>2
    <3>2. (fetched \o p)[i] = p[i - offset]
      BY <1>1, <1>4, <2>2
    <3>3. forwards[offset + (i - offset)] = forwards[i]
      BY <1>1, <1>5, <3>1
    <3> QED BY <1>4, <3>1, <3>2, <3>3
  <2> QED BY <2>1, <2>2
<1>7. Len(p) <= PageSize /\ offset + Len(p) <= Len(forwards)
      /\ (Len(p) < PageSize => offset + Len(p) = Len(forwards))
  BY <1>1, <1>2, <1>3 DEF p
<1>8. Begins(fetched \o p, forwards)
  BY <1>5, <1>6, <1>7 DEF Begins
<1> QED BY <1>4, <1>5, <1>7, <1>8 DEF p
-----------------------------------------------------------------------------
(* Forwards. *)

\* A server that has not read anything, and a caller that is none.
LEMMA GatheringInit == Init \/ LibraryCall => Gathering
<1> SUFFICES ASSUME Init \/ LibraryCall PROVE Gathering
  OBVIOUS
<1>1. /\ forwards = <<>> /\ fetched = <<>> /\ offset = 0 /\ owed = 0
      /\ stage \in {"idle", "encode"}
  BY DEF Init, LibraryCall, Fresh
<1>2. forwards \in Seq(Forward) /\ fetched \in Seq(Forward) /\ Len(forwards) = 0
  BY <1>1
<1>3. owed <= Len(forwards) /\ offset <= Len(fetched) /\ Begins(fetched, forwards)
  BY <1>1, <1>2 DEF Begins
<1> QED BY <1>1, <1>2, <1>3 DEF Gathering

\* Nothing that the gathering is about changes.
LEMMA GatheringSame ==
  ASSUME Gathering, UNCHANGED <<forwards, offset, fetched, owed>>,
         \/ stage' = stage
         \/ stage' \notin {"idle", "map", "forwards", "open", "closed", "data"}
         \/ stage \in {"open", "closed"} /\ stage' \in {"closed", "data"}
  PROVE  Gathering'
BY DEF Gathering, Begins

\* A forward that lnd makes meanwhile is behind every page and keeps the
\* invariant.
LEMMA GatheringForward ==
  ASSUME Gathering, NEW in \in Chans, NEW out \in Chans, NEW msat \in Msat,
         LndForwards(in, out, msat)
  PROVE  Gathering'
<1> DEFINE f == [in |-> in, out |-> out, msat |-> msat]
<1>1. f \in Forward
  BY DEF Forward
<1>2. /\ forwards' = Append(forwards, f)
      /\ UNCHANGED <<stage, offset, fetched, owed>>
  BY DEF LndForwards, call, history
<1> HIDE DEF f
<1>3. forwards \in Seq(Forward) /\ fetched \in Seq(Forward)
  BY DEF Gathering
<1>4. forwards' \in Seq(Forward) /\ Len(forwards') = Len(forwards) + 1
  BY <1>1, <1>2, <1>3
<1>5. Begins(fetched, forwards) => Begins(fetched', forwards')
  BY <1>1, <1>2, <1>3, BeginsAppend
<1> QED BY <1>2, <1>3, <1>4, <1>5 DEF Gathering

\* One page.  If it is the last because it is short, it reaches the end of the
\* history; if it is because the cursor did not move, no forward is owed.
LEMMA GatheringPage ==
  ASSUME Gathering, getForwardingData
  PROVE  Gathering'
<1>1. stage = "forwards" /\ fetched' = fetched \o Page /\ UNCHANGED forwards
  BY DEF getForwardingData, world
<1>2. PICK last \in {offset, offset + Len(Page)} :
        /\ offset' = IF LastPage(last) THEN offset ELSE last
        /\ stage' = IF LastPage(last) THEN "open" ELSE "forwards"
        /\ owed' = IF Len(Page) = PageSize /\ last = offset THEN 0 ELSE owed
  BY DEF getForwardingData
<1>3. /\ fetched' \in Seq(Forward) /\ Begins(fetched', forwards)
      /\ Len(fetched') = offset + Len(Page) /\ Len(Page) \in Nat /\ Len(Page) <= PageSize
      /\ Len(Page) < PageSize => Len(fetched') = Len(forwards)
  BY <1>1, PageContinues
<1>4. /\ forwards \in Seq(Forward) /\ offset \in Nat /\ owed \in Nat /\ owed <= Len(forwards)
      /\ PageSize \in Nat /\ PageSize >= 1 /\ Len(forwards) \in Nat
  BY AbilityAssumption DEF Gathering
<1>5. Begins(fetched', forwards')
  BY <1>1, <1>3
<1>6. CASE LastPage(last)
  <2>1. offset' = offset /\ stage' = "open"
    BY <1>2, <1>6
  <2>2. CASE Len(Page) < PageSize
    <3>1. owed' = owed /\ Len(fetched') = Len(forwards)
      BY <1>2, <1>3, <1>4, <2>2
    <3> QED BY <1>1, <1>3, <1>4, <1>5, <2>1, <3>1 DEF Gathering
  <2>3. CASE ~(Len(Page) < PageSize)
    <3>1. Len(Page) = PageSize /\ last = offset
      BY <1>2, <1>3, <1>4, <1>6, <2>3 DEF LastPage
    <3>2. owed' = 0
      BY <1>2, <3>1
    <3>3. Len(fetched') \in Nat
      BY <1>3, <1>4
    <3> QED BY <1>1, <1>3, <1>4, <1>5, <2>1, <3>2, <3>3 DEF Gathering
  <2> QED BY <2>2, <2>3
<1>7. CASE ~LastPage(last)
  <2>1. offset' = offset + Len(Page) /\ stage' = "forwards" /\ owed' = owed
    BY <1>2, <1>3, <1>4, <1>7 DEF LastPage
  <2>2. offset' = Len(fetched') /\ offset' \in Nat
    BY <1>3, <1>4, <2>1
  <2> QED BY <1>1, <1>3, <1>4, <1>5, <2>1, <2>2 DEF Gathering
<1> QED BY <1>6, <1>7

\* Every step keeps the invariant on the forwards gathered.
LEMMA GatheringNext == Gathering /\ [Next]_vars => Gathering'
<1> SUFFICES ASSUME Gathering, [Next]_vars PROVE Gathering'
  OBVIOUS
<1>1. ASSUME NEW c \in Chans, ChannelOpens(c) \/ ChannelCloses(c) \/ MonitorRecords(c)
      PROVE  Gathering'
  BY <1>1, GatheringSame
  DEF ChannelOpens, ChannelCloses, MonitorRecords, World, call, history
<1>2. ASSUME NEW in \in Chans, NEW out \in Chans, NEW msat \in Msat, LndForwards(in, out, msat)
      PROVE  Gathering'
  BY <1>2, GatheringForward
<1>3. ASSUME NEW start \in Times, NEW end \in Times, NEW threshold \in Thresholds,
             Request(start, end, threshold)
      PROVE  Gathering'
  BY <1>3 DEF Request, Gathering, Begins, world
<1>4. ASSUME NEW start \in Times, NEW end \in Times, NEW threshold \in Thresholds,
             Refuse(start, end, threshold)
      PROVE  Gathering'
  BY <1>4, GatheringSame DEF Refuse, world, call, history
<1>5. CASE Done
  <2>1. <<>> \in Seq(Forward) /\ Len(<<>>) = 0 /\ Begins(<<>>, forwards)
    BY DEF Begins, Gathering
  <2>2. UNCHANGED forwards /\ fetched' = <<>> /\ offset' = 0 /\ owed' = 0 /\ stage' = "idle"
    BY <1>5 DEF Done, world
  <2>3. forwards \in Seq(Forward) /\ Len(forwards) \in Nat
    BY DEF Gathering
  <2>4. Begins(fetched', forwards')
    BY <2>1, <2>2
  <2> QED BY <2>1, <2>2, <2>3, <2>4 DEF Gathering
<1>6. CASE ScidToPeerMap
  <2>1. Begins(<<>>, forwards) /\ Len(<<>>) = 0
    BY DEF Begins, Gathering
  <2> QED BY <1>6, <2>1 DEF ScidToPeerMap, Gathering, world, history
<1>7. CASE getForwardingData
  BY <1>7, GatheringPage
<1>8. CASE addActiveChannels
  BY <1>8, GatheringSame DEF addActiveChannels, world, history
<1>9. CASE calculateAllPairsUptime
  BY <1>9, GatheringSame DEF calculateAllPairsUptime, world, history
<1>10. CASE NodeDownGuard
  BY <1>10, GatheringSame DEF NodeDownGuard, world, call, history
<1>11. CASE Encode
  BY <1>11, GatheringSame DEF Encode, world, history
<1>12. CASE Decode
  BY <1>12, GatheringSame DEF Decode, world, history
<1>13. CASE ReadFails
  BY <1>13, GatheringSame DEF ReadFails, world, call, history
<1>14. CASE UNCHANGED vars
  BY <1>14, GatheringSame DEF vars, world, call, history
<1> QED
  BY <1>1, <1>2, <1>3, <1>4, <1>5, <1>6, <1>7, <1>8, <1>9, <1>10, <1>11, <1>12, <1>13, <1>14
  DEF Next, Environment, Client

\* Whatever the size of a page, however many forwards lnd adds between two of
\* them and whichever cursor it answers with, getForwardingData gathers lnd's
\* history from its beginning, without a gap and without a repetition, and as
\* far as it went when the call began (ForwardsFetchedOnce).
THEOREM ForwardsGatheredOnce == Spec => []ForwardsFetchedOnce
<1>1. Gathering => ForwardsFetchedOnce
  <2> SUFFICES ASSUME Gathering, stage \in {"open", "closed", "data"}
               PROVE  IsPrefix(fetched, forwards) /\ Len(fetched) >= owed
    BY DEF ForwardsFetchedOnce
  <2> QED BY BeginsIsPrefix DEF Gathering
<1> QED BY <1>1, GatheringInit, GatheringNext, PTL DEF Spec

-----------------------------------------------------------------------------
(* Channels. *)

\* Every step keeps the invariant on the channels listed.
LEMMA ListingNext == Listing /\ [Next]_vars => Listing'
<1> SUFFICES ASSUME Listing, [Next]_vars PROVE Listing'
  OBVIOUS
<1>1. ASSUME NEW c \in Chans, ChannelOpens(c) \/ ChannelCloses(c) \/ MonitorRecords(c)
      PROVE  Listing'
  BY <1>1 DEF ChannelOpens, ChannelCloses, MonitorRecords, World, call, history, Listing
<1>2. ASSUME NEW in \in Chans, NEW out \in Chans, NEW msat \in Msat, LndForwards(in, out, msat)
      PROVE  Listing'
  BY <1>2 DEF LndForwards, call, history, Listing
<1>3. ASSUME NEW start \in Times, NEW end \in Times, NEW threshold \in Thresholds,
             Request(start, end, threshold) \/ Refuse(start, end, threshold)
      PROVE  Listing'
  BY <1>3 DEF Request, Refuse, Listing
<1>4. CASE Decode \/ Done \/ ScidToPeerMap \/ ReadFails \/ NodeDownGuard \/ Encode
           \/ calculateAllPairsUptime
  BY <1>4
  DEF Decode, Done, ScidToPeerMap, ReadFails, NodeDownGuard, Encode, calculateAllPairsUptime,
      Listing
<1>5. CASE getForwardingData
  BY <1>5 DEF getForwardingData, Listing
<1>6. CASE addActiveChannels
  BY <1>6 DEF addActiveChannels, world, history, Listing
<1>7. CASE UNCHANGED vars
  BY <1>7 DEF vars, world, call, history, Listing
<1> QED BY <1>1, <1>2, <1>3, <1>4, <1>5, <1>6, <1>7 DEF Next, Environment, Client

\* Whatever opens and closes while addActiveChannels reads the two lists of lnd,
\* a channel that was in either of them when the first was read is considered:
\* open channels only ever become closed ones, and those are read last
\* (NoChannelMissed).
THEOREM EveryChannelConsidered == Spec => []NoChannelMissed
<1>1. Init \/ LibraryCall => Listing
  BY DEF Init, LibraryCall, Listing
<1>2. Listing => NoChannelMissed
  BY DEF Listing, NoChannelMissed
<1> QED BY <1>1, <1>2, ListingNext, PTL DEF Spec

-----------------------------------------------------------------------------
(* The codec: what is encoded is what is decoded. *)

\* A map the codec may be given.
Mapped(a) ==
  /\ DOMAIN a \in SUBSET (Keys \X Keys) /\ IsFiniteSet(DOMAIN a)
  /\ \A p \in DOMAIN a : a[p] \in [uptime : Int, sat : Int]

\* The tiers.
LEMMA TierIs ==
  ASSUME NEW a \in [uptime : Int, sat : Int], NEW m \in Int
  PROVE  /\ tier(a, m) = "entry" <=> a.sat > 0
         /\ tier(a, m) = "bit" <=> a.sat <= 0 /\ a.uptime >= m
         /\ tier(a, m) = "absent" <=> a.sat <= 0 /\ a.uptime < m
  BY DEF tier

\* Two indices of a row of n make one number, and are found in it again.
LEMMA TwoInOne ==
  ASSUME NEW n \in Nat \ {0}, NEW i \in 0..(n - 1), NEW j \in 0..(n - 1)
  PROVE  /\ (i * n + j) \div n = i /\ (i * n + j) % n = j
         /\ i * n + j \in Nat /\ i * n + j < n * n
  OBVIOUS

\* An index out of its field would be found in the other one; none is.
LEMMA UnpackPack ==
  ASSUME NEW i \in 0..(IdxValues - 1), NEW j \in 0..(IdxValues - 1)
  PROVE  Pack(i, j) \in Nat /\ Unpack(Pack(i, j)) = <<i, j>>
<1>1. IdxValues \in Nat \ {0}
  BY CodecAssumption
<1> QED BY <1>1, TwoInOne DEF Pack, Unpack

\* The entries in their order are the entries.
LEMMA ByPackedIs ==
  ASSUME NEW E, IsFiniteSet(E), \A e \in E : e.packed \in Nat,
         \A e, f \in E : e.packed = f.packed => e = f
  PROVE  /\ \A k \in DOMAIN ByPacked(E) : ByPacked(E)[k] \in E
         /\ \A e \in E : \E k \in DOMAIN ByPacked(E) : ByPacked(E)[k] = e
<1> DEFINE S == {e.packed : e \in E}
           o == InOrder(S)
<1>1. S \in SUBSET Nat /\ IsFiniteSet(S)
  <2> DEFINE pk == [e \in E |-> e.packed]
  <2>1. (\A e \in E : pk[e] \in S) /\ \A x \in S : \E e \in E : pk[e] = x
    OBVIOUS
  <2> HIDE DEF pk
  <2>2. IsFiniteSet(S)
    BY <2>1, FiniteOnto
  <2> QED BY <2>2
<1>2. ByPacked(E) = [k \in DOMAIN o |-> CHOOSE e \in E : e.packed = o[k]]
  BY DEF ByPacked
<1>3. \A x \in S : \E e \in E : e.packed = x
  OBVIOUS
<1>4. \A e \in E : e.packed \in S
  OBVIOUS
<1> HIDE DEF S
<1>5. /\ Cardinality(S) \in Nat /\ o \in Seq(S) /\ Len(o) = Cardinality(S)
      /\ \A i \in S : \E k \in 1..Cardinality(S) : o[k] = i
  BY <1>1, InOrderIs
<1> HIDE DEF o
<1>6. DOMAIN o = 1..Cardinality(S) /\ \A k \in DOMAIN o : o[k] \in S
  BY <1>5
<1>7. ASSUME NEW k \in DOMAIN o
      PROVE  ByPacked(E)[k] \in E /\ ByPacked(E)[k].packed = o[k]
  <2>1. \E e \in E : e.packed = o[k]
    BY <1>3, <1>6
  <2>2. ByPacked(E)[k] = CHOOSE e \in E : e.packed = o[k]
    BY <1>2
  <2> QED BY <2>1, <2>2
<1>8. DOMAIN ByPacked(E) = DOMAIN o
  BY <1>2
<1>9. ASSUME NEW e \in E PROVE \E k \in DOMAIN o : ByPacked(E)[k] = e
  <2>1. PICK k \in DOMAIN o : o[k] = e.packed
    BY <1>4, <1>5, <1>6
  <2> QED BY <1>7, <2>1
<1> QED BY <1>7, <1>8, <1>9

\* The entry of a pair, with the index of each of its peers.
EntryOf(a, ix, p) ==
  [packed |-> Pack(ix[p[1]], ix[p[2]]), uptime |-> a[p].uptime, sat |-> a[p].sat]

\* An answer, as far as a decoder looks at it: each kept pair has two indices, and
\* an entry or a bit at them.
Encoded(r, a, m, s, e, ix) ==
  LET n == Len(r.peers)
      K == Kept(a, m)
  IN  /\ n \in Nat /\ n < IdxValues
      /\ \A p \in K : \A j \in {1, 2} :
           ix[p[j]] \in 0..(n - 1) /\ r.peers[ix[p[j]] + 1] = RawOf[p[j]]
      /\ \A i \in DOMAIN r.entries :
           \E p \in K : a[p].sat > 0 /\ r.entries[i] = EntryOf(a, ix, p)
      /\ \A p \in K : a[p].sat > 0 =>
           \E i \in DOMAIN r.entries : r.entries[i] = EntryOf(a, ix, p)
      /\ r.bits = {BitIndex(ix[p[1]], ix[p[2]], n) : p \in {q \in K : a[q].sat <= 0}}
      /\ r.bytes \in {0, MaskBytes(n)} /\ r.start = s /\ r.end = e

\* Two kept pairs are never spellings of one.
Distinct(a, m) == \A p, q \in Kept(a, m) : Raw(p) = Raw(q) => p = q

\* What EncodeForwardingAbility returns.
LEMMA EncodeIs ==
  ASSUME NEW a, Mapped(a), NEW s \in Int, NEW e \in Int, NEW t,
         MinQualifyingUptime(t, e - s) \in Int,
         EncodeForwardingAbility(a, s, e, t) # Error
  PROVE  LET m == MinQualifyingUptime(t, e - s)
         IN  /\ Distinct(a, m)
             /\ \E ix : Encoded(EncodeForwardingAbility(a, s, e, t), a, m, s, e, ix)
<1> DEFINE m == MinQualifyingUptime(t, e - s)
           K == Kept(a, m)
           R == RawPeers(K)
           peers == InOrder(R)
           n == Len(peers)
           index(k) == (CHOOSE i \in DOMAIN peers : peers[i] = RawOf[k]) - 1
           ofTier(x) == {p \in K : tier(a[p], m) = x}
           entry(p) == [packed |-> Pack(index(p[1]), index(p[2])),
                        uptime |-> a[p].uptime, sat |-> a[p].sat]
           r == EncodeForwardingAbility(a, s, e, t)
           ix == [k \in Keys |-> index(k)]
<1>1. /\ NotHex \notin R /\ ~(n > maxPackedPeers) /\ ~Collides(K)
      /\ r = [peers     |-> peers,
              entries   |-> ByPacked({entry(p) : p \in ofTier("entry")}),
              bytes     |-> IF ofTier("bit") = {} THEN 0 ELSE MaskBytes(n),
              bits      |-> {BitIndex(index(p[1]), index(p[2]), n) : p \in ofTier("bit")},
              start     |-> s, end |-> e, threshold |-> t]
  BY Zenon DEF EncodeForwardingAbility
<1>min. m \in Int
  OBVIOUS
<1> HIDE DEF m
<1>2. /\ K \in SUBSET (Keys \X Keys) /\ IsFiniteSet(K)
      /\ \A p \in K : /\ a[p] \in [uptime : Int, sat : Int] /\ p[1] \in Keys /\ p[2] \in Keys
                      /\ p = <<p[1], p[2]>>
  <2>1. K \in SUBSET DOMAIN a
    BY DEF Kept
  <2>2. DOMAIN a \in SUBSET (Keys \X Keys) /\ IsFiniteSet(DOMAIN a)
    BY DEF Mapped
  <2>3. IsFiniteSet(K)
    BY <2>1, <2>2, FS_Subset
  <2> HIDE DEF K
  <2> QED BY <2>1, <2>2, <2>3 DEF Mapped
<1>3. \A p \in K : /\ tier(a[p], m) = "entry" <=> a[p].sat > 0
                   /\ tier(a[p], m) = "bit" <=> a[p].sat <= 0
  <2>1. \A p \in K : tier(a[p], m) # "absent"
    BY DEF Kept
  <2> HIDE DEF K
  <2>2. ASSUME NEW p \in K
        PROVE  /\ tier(a[p], m) = "entry" <=> a[p].sat > 0
               /\ tier(a[p], m) = "bit" <=> a[p].sat <= 0
    <3>1. a[p].sat \in Int /\ a[p].uptime \in Int
      BY <1>2
    <3> QED BY <1>2, <1>min, <2>1, <3>1, TierIs
  <2> QED BY <2>2
<1>4. \A p \in K : RawOf[p[1]] \in R /\ RawOf[p[2]] \in R
  BY DEF RawPeers
<1>5. R \in SUBSET Nat
  <2>1. \A x \in R : \E p \in K : x = RawOf[p[1]] \/ x = RawOf[p[2]]
    BY DEF RawPeers
  <2> HIDE DEF R, K
  <2>2. \A k \in Keys : RawOf[k] \in Nat \cup {NotHex}
    BY CodecAssumption
  <2> QED BY <1>1, <1>2, <2>1, <2>2
<1>6. IsFiniteSet(R)
  <2> DEFINE P == K \X {1, 2}
             of == [q \in P |-> RawOf[q[1][q[2]]]]
  <2>1. IsFiniteSet({1, 2})
    <3>1. IsFiniteSet({1}) /\ {1, 2} = {1} \cup {2}
      BY FS_Singleton
    <3> QED BY <3>1, FS_AddElement
  <2>2. IsFiniteSet(P)
    BY <1>2, <2>1, FS_Product
  <2>3. \A q \in P : of[q] \in R
    BY DEF RawPeers
  <2>4. ASSUME NEW y \in R PROVE \E q \in P : of[q] = y
    <3>1. PICK p \in K, i \in {1, 2} : y = RawOf[p[i]]
      BY DEF RawPeers
    <3>2. <<p, i>> \in P /\ of[<<p, i>>] = y
      BY <3>1
    <3> QED BY <3>2
  <2> HIDE DEF P, of, R
  <2> QED BY <2>2, <2>3, <2>4, FiniteOnto
<1>7. Distinct(a, m)
  <2>1. \A p, q \in K : Raw(p) = Raw(q) => p = q
    BY <1>1 DEF Collides, Raw
  <2> QED BY <2>1 DEF Distinct
<1> HIDE DEF R, K
<1>8. /\ n \in Nat /\ peers \in Seq(R) /\ DOMAIN peers = 1..n
      /\ \A x \in R : \E i \in DOMAIN peers : peers[i] = x
  <2>1. /\ Cardinality(R) \in Nat /\ peers \in Seq(R) /\ n = Cardinality(R)
        /\ \A x \in R : \E i \in 1..Cardinality(R) : peers[i] = x
    BY <1>5, <1>6, InOrderIs
  <2> HIDE DEF peers
  <2> QED BY <2>1
<1>9. \A k \in Keys : ix[k] = index(k)
  OBVIOUS
<1> HIDE DEF peers
<1>10. ASSUME NEW k \in Keys, RawOf[k] \in R
       PROVE  ix[k] \in 0..(n - 1) /\ peers[ix[k] + 1] = RawOf[k]
  <2>1. PICK i \in DOMAIN peers : i = CHOOSE j \in DOMAIN peers : peers[j] = RawOf[k]
    BY <1>8, <1>10
  <2>2. peers[i] = RawOf[k]
    BY <1>8, <1>10, <2>1
  <2>3. ix[k] = i - 1
    BY <1>9, <2>1
  <2> HIDE DEF ix
  <2>4. i \in 1..n /\ ix[k] + 1 = i /\ ix[k] \in 0..(n - 1)
    BY <1>8, <2>3
  <2> QED BY <2>2, <2>4
<1>11. n < IdxValues /\ IdxValues \in Nat
  <2>1. IdxValues \in Nat
    BY CodecAssumption
  <2> HIDE DEF n
  <2> QED BY <1>1, <1>8, <2>1 DEF maxPackedPeers
<1>12. \A p \in K : entry(p) = EntryOf(a, ix, p)
  BY <1>2, <1>9 DEF EntryOf
<1> HIDE DEF ix
<1>13. \A p \in K : \A j \in {1, 2} : ix[p[j]] \in 0..(n - 1) /\ peers[ix[p[j]] + 1] = RawOf[p[j]]
  BY <1>2, <1>4, <1>10
<1>ixs. ASSUME NEW p \in K
        PROVE  ix[p[1]] \in 0..(IdxValues - 1) /\ ix[p[2]] \in 0..(IdxValues - 1)
  <2>1. ix[p[1]] \in 0..(n - 1) /\ ix[p[2]] \in 0..(n - 1)
    BY <1>13
  <2>2. n \in Nat
    BY <1>8
  <2> HIDE DEF n
  <2> QED BY ONLY <1>11, <2>1, <2>2
<1> DEFINE E == {entry(p) : p \in ofTier("entry")}
<1>14. \A p \in K : a[p].sat > 0 <=> p \in ofTier("entry")
  BY <1>3
<1>15. \A x \in E : \E p \in K : a[p].sat > 0 /\ x = EntryOf(a, ix, p)
  BY <1>12, <1>14
<1>16. \A p \in K : a[p].sat > 0 => EntryOf(a, ix, p) \in E
  BY <1>12, <1>14
<1> HIDE DEF E, entry
<1>17. IsFiniteSet(E)
  <2> DEFINE T == ofTier("entry")
             f == [p \in T |-> EntryOf(a, ix, p)]
  <2>1. T \in SUBSET K /\ IsFiniteSet(T)
    <3>1. T \in SUBSET K
      OBVIOUS
    <3> QED BY <1>2, <3>1, FS_Subset
  <2>2. \A p \in T : f[p] \in E
    BY <1>14, <1>16, <2>1
  <2>3. \A x \in E : \E p \in T : f[p] = x
    BY <1>14, <1>15
  <2> HIDE DEF T, f
  <2> QED BY <2>1, <2>2, <2>3, FiniteOnto
<1>18. \A x \in E : x.packed \in Nat
  <2>1. ASSUME NEW p \in K PROVE EntryOf(a, ix, p).packed \in Nat
    <3>1. ix[p[1]] \in 0..(IdxValues - 1) /\ ix[p[2]] \in 0..(IdxValues - 1)
      BY <1>ixs
    <3> QED BY <3>1, UnpackPack DEF EntryOf
  <2> QED BY <1>15, <2>1
<1>19. \A p, q \in K : EntryOf(a, ix, p).packed = EntryOf(a, ix, q).packed => p = q
  <2>1. ASSUME NEW p \in K, NEW q \in K, EntryOf(a, ix, p).packed = EntryOf(a, ix, q).packed
        PROVE  p = q
    <3>1. /\ ix[p[1]] \in 0..(IdxValues - 1) /\ ix[p[2]] \in 0..(IdxValues - 1)
          /\ ix[q[1]] \in 0..(IdxValues - 1) /\ ix[q[2]] \in 0..(IdxValues - 1)
      BY <1>ixs
    <3>2. Pack(ix[p[1]], ix[p[2]]) = Pack(ix[q[1]], ix[q[2]])
      BY <2>1 DEF EntryOf
    <3>3. ix[p[1]] = ix[q[1]] /\ ix[p[2]] = ix[q[2]]
      <4>1. <<ix[p[1]], ix[p[2]]>> = <<ix[q[1]], ix[q[2]]>>
        BY <3>1, <3>2, UnpackPack
      <4> QED BY <4>1
    <3>4. RawOf[p[1]] = RawOf[q[1]] /\ RawOf[p[2]] = RawOf[q[2]]
      BY <1>13, <3>3
    <3>5. Raw(p) = Raw(q)
      BY <3>4 DEF Raw
    <3> QED BY <1>7, <3>5 DEF Distinct, K
  <2> QED BY <2>1
<1>20. \A x, y \in E : x.packed = y.packed => x = y
  BY <1>15, <1>19
<1>21. /\ \A i \in DOMAIN ByPacked(E) : ByPacked(E)[i] \in E
       /\ \A x \in E : \E i \in DOMAIN ByPacked(E) : ByPacked(E)[i] = x
  BY <1>17, <1>18, <1>20, ByPackedIs
<1>22. /\ r.peers = peers /\ r.entries = ByPacked(E) /\ r.start = s /\ r.end = e
       /\ r.bytes \in {0, MaskBytes(n)}
       /\ r.bits = {BitIndex(index(p[1]), index(p[2]), n) : p \in ofTier("bit")}
  BY <1>1 DEF E
<1> HIDE DEF r
<1>23. r.bits = {BitIndex(ix[p[1]], ix[p[2]], n) : p \in {q \in K : a[q].sat <= 0}}
  <2>1. ofTier("bit") = {q \in K : a[q].sat <= 0}
    BY <1>3
  <2>2. \A p \in K : index(p[1]) = ix[p[1]] /\ index(p[2]) = ix[p[2]]
    BY <1>2, <1>9
  <2> HIDE DEF index
  <2> QED BY <1>22, <2>1, <2>2
<1>24. Encoded(r, a, m, s, e, ix)
  <2>1. \A i \in DOMAIN r.entries : \E p \in K : a[p].sat > 0 /\ r.entries[i] = EntryOf(a, ix, p)
    BY <1>15, <1>21, <1>22
  <2>2. \A p \in K : a[p].sat > 0 => \E i \in DOMAIN r.entries : r.entries[i] = EntryOf(a, ix, p)
    BY <1>16, <1>21, <1>22
  <2>3. Len(r.peers) = n
    BY <1>22
  <2> HIDE DEF n, ofTier, index
  <2>4. \A p \in K : \A j \in {1, 2} :
          ix[p[j]] \in 0..(n - 1) /\ r.peers[ix[p[j]] + 1] = RawOf[p[j]]
    BY <1>13, <1>22
  <2>5. n \in Nat /\ n < IdxValues /\ r.bytes \in {0, MaskBytes(n)} /\ r.start = s /\ r.end = e
    BY <1>8, <1>11, <1>22
  <2> QED BY <1>23, <2>1, <2>2, <2>3, <2>4, <2>5, Zenon DEF Encoded, K
<1> QED BY <1>7, <1>24 DEF r, m

\* What DecodeForwardingAbility makes of it.
LEMMA DecodeIs ==
  ASSUME NEW a, Mapped(a), NEW m \in Int, Distinct(a, m), NEW s \in Int, NEW e \in Int,
         NEW r, NEW ix, Encoded(r, a, m, s, e, ix)
  PROVE  LET d == DecodeForwardingAbility(r)
         IN  /\ d # Error
             /\ DOMAIN d.abilities = {Raw(p) : p \in Kept(a, m)}
             /\ \A p \in Kept(a, m) : d.abilities[Raw(p)] = Seen(a[p], e - s)
<1> DEFINE K == Kept(a, m)
           n == Len(r.peers)
           D == DOMAIN r.entries
           pair(idx) == <<r.peers[idx[1] + 1], r.peers[idx[2] + 1]>>
           of(i) == pair(Unpack(r.entries[i].packed))
           outside == \E i \in D : \E j \in {1, 2} : Unpack(r.entries[i].packed)[j] >= n
           full == {of(i) : i \in D}
           idle == {pair(<<k \div n, k % n>>) : k \in {b \in r.bits : b < n * n}}
           entry(p) == r.entries[CHOOSE i \in D : of(i) = p]
           g == [p \in full \cup idle |->
                   IF p \in full THEN [uptime |-> entry(p).uptime, sat |-> entry(p).sat]
                   ELSE [uptime |-> r.end - r.start, sat |-> 0]]
<1>1. DecodeForwardingAbility(r) =
        IF n > maxPackedPeers \/ outside \/ (r.bytes # 0 /\ r.bytes # MaskBytes(n))
        THEN Error ELSE [abilities |-> g]
  BY Zenon DEF DecodeForwardingAbility
<1>2. /\ n \in Nat /\ n < IdxValues /\ IdxValues \in Nat \ {0}
      /\ r.bytes \in {0, MaskBytes(n)} /\ r.start = s /\ r.end = e
      /\ r.bits = {BitIndex(ix[p[1]], ix[p[2]], n) : p \in {q \in K : a[q].sat <= 0}}
  BY CodecAssumption, Zenon DEF Encoded
<1>3. /\ \A p \in K : \A j \in {1, 2} :
           ix[p[j]] \in 0..(n - 1) /\ r.peers[ix[p[j]] + 1] = RawOf[p[j]]
      /\ \A i \in D : \E p \in K : a[p].sat > 0 /\ r.entries[i] = EntryOf(a, ix, p)
      /\ \A p \in K : a[p].sat > 0 => \E i \in D : r.entries[i] = EntryOf(a, ix, p)
  BY Zenon DEF Encoded
<1>4. \A p \in K : a[p] \in [uptime : Int, sat : Int]
  BY DEF Mapped, Kept
<1>5. \A p, q \in K : Raw(p) = Raw(q) => p = q
  BY DEF Distinct
<1> HIDE DEF K, n
<1>6. ASSUME NEW p \in K
      PROVE  /\ ix[p[1]] \in 0..(n - 1) /\ ix[p[2]] \in 0..(n - 1)
             /\ ix[p[1]] \in 0..(IdxValues - 1) /\ ix[p[2]] \in 0..(IdxValues - 1)
             /\ pair(<<ix[p[1]], ix[p[2]]>>) = Raw(p)
  <2>1. /\ ix[p[1]] \in 0..(n - 1) /\ ix[p[2]] \in 0..(n - 1)
        /\ r.peers[ix[p[1]] + 1] = RawOf[p[1]] /\ r.peers[ix[p[2]] + 1] = RawOf[p[2]]
    BY <1>3
  <2>2. ix[p[1]] \in 0..(IdxValues - 1) /\ ix[p[2]] \in 0..(IdxValues - 1)
    BY ONLY <1>2, <2>1
  <2> QED BY <2>1, <2>2 DEF Raw
<1>7. ASSUME NEW i \in D, NEW p \in K, r.entries[i] = EntryOf(a, ix, p)
      PROVE  /\ Unpack(r.entries[i].packed) = <<ix[p[1]], ix[p[2]]>> /\ of(i) = Raw(p)
             /\ r.entries[i].uptime = a[p].uptime /\ r.entries[i].sat = a[p].sat
  <2>1. /\ r.entries[i].packed = Pack(ix[p[1]], ix[p[2]])
        /\ r.entries[i].uptime = a[p].uptime /\ r.entries[i].sat = a[p].sat
    BY <1>7 DEF EntryOf
  <2>2. Unpack(r.entries[i].packed) = <<ix[p[1]], ix[p[2]]>>
    BY <1>6, <2>1, UnpackPack
  <2>3. of(i) = pair(<<ix[p[1]], ix[p[2]]>>)
    BY <2>2
  <2> QED BY <1>6, <2>1, <2>2, <2>3
<1>8. ~outside
  <2>1. ASSUME NEW i \in D, NEW j \in {1, 2} PROVE ~(Unpack(r.entries[i].packed)[j] >= n)
    <3>1. PICK p \in K : r.entries[i] = EntryOf(a, ix, p)
      BY <1>3
    <3>2. Unpack(r.entries[i].packed) = <<ix[p[1]], ix[p[2]]>>
      BY <1>7, <3>1
    <3>3. Unpack(r.entries[i].packed)[j] \in 0..(n - 1)
      BY <1>6, <3>2
    <3> QED BY ONLY <1>2, <3>3
  <2> QED BY <2>1
<1>9. ~(n > maxPackedPeers)
  BY ONLY <1>2 DEF maxPackedPeers
<1>10. DecodeForwardingAbility(r) = [abilities |-> g]
  BY <1>1, <1>2, <1>8, <1>9, Zenon
<1>11. \A x \in full : \E i \in D : x = of(i)
  OBVIOUS
<1>12. ASSUME NEW p \in K, a[p].sat > 0
       PROVE  /\ Raw(p) \in full
              /\ entry(Raw(p)).uptime = a[p].uptime /\ entry(Raw(p)).sat = a[p].sat
  <2>1. PICK i \in D : r.entries[i] = EntryOf(a, ix, p)
    BY <1>3, <1>12
  <2>2. of(i) = Raw(p)
    BY <1>7, <2>1
  <2>3. PICK k \in D : /\ k = CHOOSE j \in D : of(j) = Raw(p)
                       /\ of(k) = Raw(p)
    BY <2>2
  <2>4. PICK q \in K : r.entries[k] = EntryOf(a, ix, q)
    BY <1>3
  <2>5. of(k) = Raw(q) /\ r.entries[k].uptime = a[q].uptime /\ r.entries[k].sat = a[q].sat
    BY <1>7, <2>4
  <2>6. q = p
    BY <1>5, <2>3, <2>5
  <2>7. entry(Raw(p)) = r.entries[k]
    BY <2>3
  <2>8. Raw(p) \in full
    BY <2>2
  <2> QED BY <2>5, <2>6, <2>7, <2>8
<1>13. \A x \in full : \E p \in K : a[p].sat > 0 /\ x = Raw(p)
  <2>1. ASSUME NEW i \in D PROVE \E p \in K : a[p].sat > 0 /\ of(i) = Raw(p)
    <3>1. PICK p \in K : a[p].sat > 0 /\ r.entries[i] = EntryOf(a, ix, p)
      BY <1>3
    <3>2. of(i) = Raw(p)
      BY <1>7, <3>1
    <3> QED BY <3>1, <3>2
  <2> QED BY <1>11, <2>1
<1>14. ASSUME NEW p \in K
       PROVE  LET b == BitIndex(ix[p[1]], ix[p[2]], n)
              IN  b < n * n /\ b \in Nat /\ pair(<<b \div n, b % n>>) = Raw(p)
  <2>1. n \in Nat \ {0}
    BY <1>2, <1>6
  <2> DEFINE b == BitIndex(ix[p[1]], ix[p[2]], n)
  <2>2. b \div n = ix[p[1]] /\ b % n = ix[p[2]] /\ b \in Nat /\ b < n * n
    BY <1>6, <2>1, TwoInOne DEF BitIndex
  <2> HIDE DEF b
  <2>3. pair(<<b \div n, b % n>>) = pair(<<ix[p[1]], ix[p[2]]>>)
    BY <2>2
  <2>4. pair(<<b \div n, b % n>>) = Raw(p)
    BY <1>6, <2>3
  <2> QED BY <2>2, <2>4 DEF b
<1>15. \A p \in K : a[p].sat <= 0 => Raw(p) \in idle
  <2>1. ASSUME NEW p \in K, a[p].sat <= 0 PROVE Raw(p) \in idle
    <3>1. PICK b : b = BitIndex(ix[p[1]], ix[p[2]], n)
      OBVIOUS
    <3>2. b \in r.bits
      BY <1>2, <2>1, <3>1
    <3>3. b < n * n /\ pair(<<b \div n, b % n>>) = Raw(p)
      BY <1>14, <3>1
    <3> QED BY <3>2, <3>3
  <2> QED BY <2>1
<1>16. \A x \in idle : \E p \in K : a[p].sat <= 0 /\ x = Raw(p)
  <2>1. ASSUME NEW b \in r.bits
        PROVE  \E p \in K : a[p].sat <= 0 /\ pair(<<b \div n, b % n>>) = Raw(p)
    <3>1. PICK p \in K : a[p].sat <= 0 /\ b = BitIndex(ix[p[1]], ix[p[2]], n)
      BY <1>2
    <3> QED BY <1>14, <3>1
  <2> QED BY <2>1
<1>17. DOMAIN g = full \cup idle
  OBVIOUS
<1>18. \A p \in K : (a[p].sat > 0 \/ a[p].sat <= 0) /\ ~(a[p].sat > 0 /\ a[p].sat <= 0)
  <2>1. ASSUME NEW p \in K PROVE a[p].sat \in Int
    BY <1>4
  <2> QED BY <2>1
<1>19. DOMAIN g = {Raw(p) : p \in K}
  <2> HIDE DEF full, idle, g, entry
  <2>1. \A p \in K : Raw(p) \in full \cup idle
    BY <1>12, <1>15, <1>18
  <2>2. \A x \in full \cup idle : \E p \in K : x = Raw(p)
    BY <1>13, <1>16
  <2> QED BY <1>17, <2>1, <2>2
<1>20. ASSUME NEW p \in K PROVE g[Raw(p)] = Seen(a[p], e - s)
  <2>1. g[Raw(p)] = IF Raw(p) \in full
                    THEN [uptime |-> entry(Raw(p)).uptime, sat |-> entry(Raw(p)).sat]
                    ELSE [uptime |-> r.end - r.start, sat |-> 0]
    <3>1. Raw(p) \in full \cup idle
      <4> HIDE DEF full, idle, g
      <4> QED BY <1>17, <1>19
    <3> QED BY <3>1
  <2>2. CASE a[p].sat > 0
    <3>1. /\ Raw(p) \in full
          /\ entry(Raw(p)).uptime = a[p].uptime /\ entry(Raw(p)).sat = a[p].sat
      BY <1>12, <2>2
    <3> HIDE DEF full, idle, g, entry
    <3>2. g[Raw(p)] = [uptime |-> a[p].uptime, sat |-> a[p].sat]
      BY <2>1, <3>1
    <3>3. a[p] = [uptime |-> a[p].uptime, sat |-> a[p].sat]
      BY <1>4
    <3>4. Seen(a[p], e - s) = a[p]
      BY <2>2 DEF Seen
    <3> QED BY <3>2, <3>3, <3>4
  <2>3. CASE a[p].sat <= 0
    <3> HIDE DEF full, idle, g, entry
    <3>1. Raw(p) \notin full
      BY <1>5, <1>13, <1>18, <2>3
    <3>2. Seen(a[p], e - s) = [uptime |-> e - s, sat |-> 0]
      BY <1>18, <2>3 DEF Seen
    <3> QED BY <1>2, <2>1, <3>1, <3>2
  <2> QED BY <1>18, <2>2, <2>3
<1> HIDE DEF g
<1>21. [abilities |-> g] # Error /\ [abilities |-> g].abilities = g
  BY DEF Error
<1> QED BY <1>10, <1>19, <1>20, <1>21 DEF K

-----------------------------------------------------------------------------
(* The call as a whole. *)

Stages == {"idle", "map", "forwards", "open", "closed", "data", "guard", "encode",
           "answered", "decoded", "failed"}

\* Before the walk, after it, and once its result has passed the guard.
Reading  == stage \in {"idle", "map", "forwards", "open", "closed", "data"}
Walked   == stage \in {"guard", "encode", "answered", "decoded"}
Guarded  == stage \in {"encode", "answered", "decoded"}
HasReply == stage \in {"answered", "decoded"}

\* lnd, the store and what the call has read of them.
WorldOK ==
  /\ open \subseteq Chans /\ closed \subseteq Chans /\ open \cap closed = {}
  /\ store \subseteq open \cup closed
  /\ Len(forwards) <= MaxForwards /\ changes \in Nat /\ changes <= MaxChanges
  /\ scids \subseteq store /\ listed \subseteq Chans /\ considered \subseteq Chans
  /\ stage \in Stages

\* The window of a request is not empty the wrong way round.
WindowOK ==
  /\ win \in Windows
  /\ byServer => win.start * Ticks <= win.endTicks /\ win.end = win.endTicks \div Ticks

\* The peers of every forward over known channels have a pair.
PairsOver(S) ==
  \A i \in DOMAIN fetched :
    Known(fetched[i]) => {PeerOf[fetched[i].in], PeerOf[fetched[i].out]} \subseteq S

\* The map of a server: all pairs of some peers, with what was forwarded.
Measured ==
  \E S \in SUBSET {PeerOf[c] : c \in Chans} :
    /\ DOMAIN nested = S \X S /\ PairsOver(S)
    /\ \A p \in DOMAIN nested : nested[p].sat = pairForwardedTotal(p[1], p[2])

\* The map that is passed to the codec.
MapOK ==
  /\ Reading => nested = <<>>
  /\ stage \in {"open", "closed", "data"} =>
       \A i \in DOMAIN fetched :
         Known(fetched[i]) => {fetched[i].in, fetched[i].out} \subseteq considered
  /\ Mapped(nested)
  /\ byServer => \A p \in DOMAIN nested : nested[p].uptime \in 0..(win.end - win.start)
  /\ byServer /\ Walked => Measured
  /\ byServer /\ Guarded => Qualifying # {}

\* The codec's answers.
AnswerOK ==
  /\ resp # Error => HasReply
  /\ HasReply => /\ resp # Error
                 /\ resp = EncodeForwardingAbility(nested, win.start, win.end, win.threshold)
  /\ stage = "decoded" => decoded = DecodeForwardingAbility(resp)

\* The server and its channels at the start.
LEMMA WorldInit == Init \/ LibraryCall => WorldOK
<1>1. MaxForwards \in Nat /\ MaxChanges \in Nat /\ Len(<<>>) = 0
  BY AbilityAssumption
<1> QED BY <1>1 DEF Init, LibraryCall, Fresh, WorldOK, Stages

\* Every step keeps them.
LEMMA WorldNext == Gathering /\ WorldOK /\ [Next]_vars => WorldOK'
<1> SUFFICES ASSUME Gathering, WorldOK, [Next]_vars PROVE WorldOK'
  OBVIOUS
<1> USE DEF WorldOK, Stages
<1>1. ASSUME NEW c \in Chans, ChannelOpens(c) \/ ChannelCloses(c) \/ MonitorRecords(c)
      PROVE  WorldOK'
  <2>1. MaxChanges \in Nat
    BY AbilityAssumption
  <2>2. changes < MaxChanges /\ changes' = changes + 1 /\ UNCHANGED <<stage, call, history, forwards>>
    BY <1>1 DEF ChannelOpens, ChannelCloses, MonitorRecords, World
  <2>3. changes' \in Nat /\ changes' <= MaxChanges
    BY <2>1, <2>2
  <2>4. /\ open' \subseteq Chans /\ closed' \subseteq Chans /\ open' \cap closed' = {}
        /\ store' \subseteq open' \cup closed' /\ store \subseteq store'
    BY <1>1 DEF ChannelOpens, ChannelCloses, MonitorRecords, World
  <2> QED BY <2>2, <2>3, <2>4 DEF call, history
<1>2. ASSUME NEW in \in Chans, NEW out \in Chans, NEW msat \in Msat, LndForwards(in, out, msat)
      PROVE  WorldOK'
  <2>1. forwards \in Seq(Forward) /\ MaxForwards \in Nat
    BY AbilityAssumption DEF Gathering
  <2>2. PICK f : forwards' = Append(forwards, f) /\ f \in Forward
    BY <1>2 DEF LndForwards, Forward
  <2>3. Len(forwards') = Len(forwards) + 1 /\ Len(forwards) \in Nat
    BY <2>1, <2>2
  <2>4. Len(forwards') <= MaxForwards
    BY <1>2, <2>1, <2>3 DEF LndForwards
  <2> QED BY <1>2, <2>4 DEF LndForwards, call, history
<1>3. ASSUME NEW start \in Times, NEW end \in Times, NEW threshold \in Thresholds,
             Request(start, end, threshold) \/ Refuse(start, end, threshold)
      PROVE  WorldOK'
  BY <1>3 DEF Request, Refuse, world, call, history
<1>4. CASE Done
  BY <1>4 DEF Done, world
<1>5. CASE Decode \/ ReadFails \/ NodeDownGuard \/ Encode \/ calculateAllPairsUptime
  BY <1>5 DEF Decode, ReadFails, NodeDownGuard, Encode, calculateAllPairsUptime,
              world, call, history
<1>6. CASE ScidToPeerMap
  BY <1>6 DEF ScidToPeerMap, world, history
<1>7. CASE getForwardingData
  <2>1. fetched' \in Seq(Forward)
    BY <1>7, GatheringPage DEF Gathering
  <2>2. \A f \in Range(fetched') : f.in \in Chans /\ f.out \in Chans
    <3>1. \A i \in DOMAIN fetched' : fetched'[i] \in Forward
      BY <2>1
    <3> QED BY <3>1 DEF Range, Forward
  <2>3. considered' \subseteq Chans
    <3>1. considered' \in {considered, UNION {{f.in, f.out} : f \in {g \in Range(fetched') : Known(g)}}}
      BY <1>7 DEF getForwardingData
    <3>2. UNION {{f.in, f.out} : f \in {g \in Range(fetched') : Known(g)}} \subseteq Chans
      BY <2>2
    <3> QED BY <3>1, <3>2
  <2>4. UNCHANGED <<world, scids, listed>> /\ stage' \in Stages
    BY <1>7 DEF getForwardingData
  <2> QED BY <2>3, <2>4 DEF world
<1>8. CASE addActiveChannels
  BY <1>8 DEF addActiveChannels, world, history
<1>9. CASE UNCHANGED vars
  BY <1>9 DEF vars, world, call, history
<1> QED BY <1>1, <1>2, <1>3, <1>4, <1>5, <1>6, <1>7, <1>8, <1>9 DEF Next, Environment, Client

\* No request, or one of a library's caller.
LEMMA WindowInit == Init \/ LibraryCall => WindowOK
<1>1. ASSUME Init PROVE WindowOK
  <2>1. Scale \in Nat /\ 0 \in 0..Scale
    BY CodecAssumption
  <2>2. win = NoWindow /\ byServer = FALSE
    BY <1>1 DEF Init, Fresh
  <2> QED BY <2>1, <2>2 DEF NoWindow, WindowOK, Windows
<1>2. ASSUME LibraryCall PROVE WindowOK
  <2>1. /\ Scale \in Nat /\ Scale \in 0..Scale /\ DefaultThreshold \in 0..Scale
        /\ Times \subseteq Nat /\ Ticks \in Nat
    BY CodecAssumption, AbilityAssumption
  <2>2. PICK end \in Times, threshold \in {DefaultThreshold, Scale} :
          win = [start |-> 0, end |-> end, threshold |-> threshold, endTicks |-> end * Ticks]
    BY <1>2 DEF LibraryCall
  <2>3. end \in Nat /\ end * Ticks \in Nat
    BY <2>1
  <2>4. byServer = FALSE
    BY <1>2 DEF LibraryCall, Fresh
  <2> QED BY <2>1, <2>2, <2>3, <2>4 DEF WindowOK, Windows
<1> QED BY <1>1, <1>2

\* Every step keeps the window.
LEMMA WindowNext == WindowOK /\ [Next]_vars => WindowOK'
<1> SUFFICES ASSUME WindowOK, [Next]_vars PROVE WindowOK'
  OBVIOUS
<1>1. ASSUME UNCHANGED <<win, byServer>> PROVE WindowOK'
  BY <1>1 DEF WindowOK
<1>2. ASSUME NEW c \in Chans, ChannelOpens(c) \/ ChannelCloses(c) \/ MonitorRecords(c)
      PROVE  WindowOK'
  BY <1>1, <1>2 DEF ChannelOpens, ChannelCloses, MonitorRecords, World, call, history
<1>3. ASSUME NEW in \in Chans, NEW out \in Chans, NEW msat \in Msat, LndForwards(in, out, msat)
      PROVE  WindowOK'
  BY <1>1, <1>3 DEF LndForwards, call, history
<1>4. ASSUME NEW start \in Times, NEW end \in Times, NEW threshold \in Thresholds,
             Refuse(start, end, threshold)
      PROVE  WindowOK'
  BY <1>1, <1>4 DEF Refuse, call, history
<1>5. ASSUME NEW start \in Times, NEW end \in Times, NEW threshold \in Thresholds,
             Request(start, end, threshold)
      PROVE  WindowOK'
  <2>1. /\ start \in Nat /\ end \in Nat /\ Ticks \in Nat \ {0} /\ NowTicks \in Nat
        /\ DefaultThreshold \in 0..Scale
    BY AbilityAssumption
  <2> DEFINE w == Window(start, end, threshold)
  <2>2. win' = w /\ ~Refused(start, end, threshold)
    BY <1>5 DEF Request
  <2>3. threshold \in 0..Scale /\ ~(start * Ticks > w.endTicks)
    BY <2>2 DEF Refused
  <2>4. /\ w.start = start /\ w.endTicks = (IF end = 0 THEN NowTicks ELSE end * Ticks)
        /\ w.end = w.endTicks \div Ticks
        /\ w.threshold = (IF threshold = 0 THEN DefaultThreshold ELSE threshold)
        /\ w = [start |-> w.start, endTicks |-> w.endTicks, end |-> w.end, threshold |-> w.threshold]
    BY DEF Window
  <2> HIDE DEF w
  <2>5. end * Ticks \in Nat
    BY <2>1
  <2>6. w.endTicks \in Nat
    BY <2>1, <2>4, <2>5
  <2>7. w.end \in Nat
    BY <2>1, <2>4, <2>6
  <2>8. w.threshold \in 0..Scale /\ w.start \in Nat
    BY <2>1, <2>3, <2>4
  <2>9. w \in Windows
    BY <2>4, <2>6, <2>7, <2>8 DEF Windows
  <2>10. start * Ticks <= w.endTicks
    <3>1. start * Ticks \in Nat
      BY <2>1
    <3> QED BY <2>3, <2>6, <3>1
  <2> QED BY <2>2, <2>4, <2>9, <2>10 DEF WindowOK
<1>6. CASE Done
  <2>1. Scale \in Nat /\ 0 \in 0..Scale
    BY CodecAssumption
  <2> QED BY <1>6, <2>1 DEF Done, NoWindow, WindowOK, Windows
<1>7. CASE Decode \/ ReadFails \/ NodeDownGuard \/ Encode \/ calculateAllPairsUptime
           \/ ScidToPeerMap \/ getForwardingData \/ addActiveChannels
  BY <1>1, <1>7 DEF Decode, ReadFails, NodeDownGuard, Encode, calculateAllPairsUptime,
                    ScidToPeerMap, getForwardingData, addActiveChannels, call, history
<1>8. CASE UNCHANGED vars
  BY <1>1, <1>8 DEF vars, call, history
<1> QED BY <1>2, <1>3, <1>4, <1>5, <1>6, <1>7, <1>8 DEF Next, Environment, Client

\* What one pair of peers forwarded, of some forwards over some channels.
TotalOf(list, known, in, out) ==
  LET of == {i \in DOMAIN list : /\ {list[i].in, list[i].out} \subseteq known
                                 /\ PeerOf[list[i].in] = in /\ PeerOf[list[i].out] = out}
  IN  AddUp([i \in of |-> list[i].msat \div MsatPerSat])

LEMMA TotalIs == \A in, out : pairForwardedTotal(in, out) = TotalOf(fetched, scids, in, out)
  BY DEF pairForwardedTotal, TotalOf, Known

\* Whole satoshis, and some only when there is a forward.
LEMMA TotalType ==
  ASSUME NEW list \in Seq(Forward), NEW known, NEW in, NEW out
  PROVE  /\ TotalOf(list, known, in, out) \in Nat
         /\ TotalOf(list, known, in, out) > 0 =>
              \E i \in DOMAIN list : /\ {list[i].in, list[i].out} \subseteq known
                                     /\ PeerOf[list[i].in] = in /\ PeerOf[list[i].out] = out
<1> DEFINE of == {i \in DOMAIN list : /\ {list[i].in, list[i].out} \subseteq known
                                      /\ PeerOf[list[i].in] = in /\ PeerOf[list[i].out] = out}
           f == [i \in of |-> list[i].msat \div MsatPerSat]
<1>1. TotalOf(list, known, in, out) = AddUp(f)
  BY DEF TotalOf
<1>2. of \in SUBSET (1..Len(list)) /\ Len(list) \in Nat
  OBVIOUS
<1>3. IsFiniteSet(of)
  <2>1. PICK n \in Nat : n = Len(list)
    BY <1>2
  <2>2. IsFiniteSet(1..n)
    BY FS_Interval
  <2> HIDE DEF of
  <2> QED BY <1>2, <2>1, <2>2, FS_Subset
<1>4. ASSUME NEW i \in of PROVE list[i].msat \div MsatPerSat \in Nat
  <2>1. list[i].msat \in Nat /\ MsatPerSat \in Nat \ {0}
    <3>1. list[i] \in Forward
      OBVIOUS
    <3>2. list[i].msat \in Msat
      BY <3>1 DEF Forward
    <3> QED BY <3>2, AbilityAssumption
  <2>2. PICK x \in Nat : x = list[i].msat
    BY <2>1
  <2>3. x \div MsatPerSat \in Nat
    BY ONLY x \in Nat, <2>1
  <2> QED BY <2>2, <2>3
<1>5. f \in [of -> Nat]
  BY <1>4
<1>6. of = {} => AddUp(f) = 0
  <2> HIDE DEF of
  <2>1. AddUp(f) = Over(f, of)
    BY <1>3, <1>5, AddUpType
  <2>2. \A i \in of : f[i] \in Nat
    BY <1>5
  <2>3. Over(f, {}) = 0
    <3> HIDE DEF f
    <3> QED BY <1>3, <2>2, OverIs
  <2> QED BY <2>1, <2>3
<1>7. AddUp(f) \in Nat
  <2> HIDE DEF of, f
  <2> QED BY <1>3, <1>5, AddUpType
<1>8. ASSUME AddUp(f) > 0 PROVE \E i \in of : TRUE
  BY <1>6, <1>7, <1>8
<1> QED BY <1>1, <1>7, <1>8

\* The least uptime that qualifies.
LEMMA MinIs ==
  ASSUME NEW t \in 0..Scale, NEW w \in Int
  PROVE  /\ MinQualifyingUptime(t, w) \in Nat \ {0}
         /\ w > 0 => MinQualifyingUptime(t, w) * Scale >= t * w
<1>1. Scale \in Nat \ {0} /\ MaxInt64 \in Nat \ {0} /\ t \in Nat
  BY CodecAssumption
<1>2. CASE w <= 0
  BY <1>1, <1>2 DEF MinQualifyingUptime
<1>3. CASE ~(w <= 0)
  <2>1. PICK x \in Int : x = t * w
    BY <1>1
  <2>2. PICK y \in Int : y = x + Scale - 1
    BY <1>1
  <2>3. PICK v \in Int : v = y \div Scale
    BY <1>1, <2>2, DivMod
  <2>4. v * Scale >= x
    <3>1. PICK rem \in 0..(Scale - 1) : y = Scale * v + rem
      BY <1>1, <2>3, DivMod
    <3>2. v * Scale = Scale * v
      BY <1>1
    <3>3. PICK z \in Int : z = Scale * v
      BY <1>1
    <3>4. z >= x
      BY ONLY <1>1, <2>2, <3>1, <3>3, x \in Int, y \in Int, rem \in 0..(Scale - 1), z \in Int
    <3> QED BY <3>2, <3>3, <3>4
  <2>5. MinQualifyingUptime(t, w) = IF v < 1 THEN 1 ELSE v
    BY <1>3, <2>1, <2>2, <2>3 DEF MinQualifyingUptime
  <2>6. CASE v < 1
    <3>1. x <= 0
      <4>1. v <= 0
        BY <2>6
      <4>2. v * Scale <= 0
        BY <1>1, <4>1
      <4>3. v * Scale \in Int
        BY <1>1
      <4> QED BY <2>4, <4>2, <4>3
    <3>2. MinQualifyingUptime(t, w) = 1
      BY <2>5, <2>6
    <3> QED BY <1>1, <2>1, <3>1, <3>2
  <2>7. CASE ~(v < 1)
    <3>1. MinQualifyingUptime(t, w) = v
      BY <2>5, <2>7
    <3> QED BY <2>1, <2>4, <2>7, <3>1
  <2> QED BY <2>6, <2>7
<1> QED BY <1>2, <1>3

\* There is no map yet, or that of a library's caller.
LEMMA MapInit == Init \/ LibraryCall => MapOK
<1>1. ASSUME Init PROVE MapOK
  <2>1. nested = <<>> /\ DOMAIN nested = {} /\ stage = "idle" /\ byServer = FALSE
    BY <1>1 DEF Init, Fresh
  <2>2. Mapped(nested)
    BY <2>1, FS_EmptySet DEF Mapped
  <2> QED BY <2>1, <2>2 DEF MapOK, Reading, Walked, Guarded
<1>2. ASSUME LibraryCall PROVE MapOK
  <2>1. PICK p, q \in Keys \X Keys : nested \in [{p, q} -> LibraryAbilities]
    BY <1>2 DEF LibraryCall
  <2>2. IsFiniteSet({p, q})
    <3>1. IsFiniteSet({p}) /\ {p, q} = {p} \cup {q}
      BY FS_Singleton
    <3> QED BY <3>1, FS_AddElement
  <2>3. DOMAIN nested = {p, q} /\ \A x \in DOMAIN nested : nested[x] \in [uptime : Int, sat : Int]
    BY <2>1, AbilityAssumption
  <2>4. Mapped(nested)
    BY <2>2, <2>3 DEF Mapped
  <2>5. stage = "encode" /\ byServer = FALSE
    BY <1>2 DEF LibraryCall, Fresh
  <2> QED BY <2>4, <2>5 DEF MapOK, Reading, Walked, Guarded
<1> QED BY <1>1, <1>2

\* What was measured stays so while the map and its sources do.
LEMMA MeasuredSame ==
  ASSUME Measured, UNCHANGED <<nested, fetched, scids>>
  PROVE  Measured'
<1>1. PICK S \in SUBSET {PeerOf[c] : c \in Chans} :
        /\ DOMAIN nested = S \X S /\ PairsOver(S)
        /\ \A p \in DOMAIN nested : nested[p].sat = TotalOf(fetched, scids, p[1], p[2])
  BY TotalIs DEF Measured
<1>2. PairsOver(S)'
  BY <1>1 DEF PairsOver, Known
<1>3. \A p \in DOMAIN nested' : nested'[p].sat = TotalOf(fetched', scids', p[1], p[2])
  BY <1>1
<1>4. \A in, out : pairForwardedTotal(in, out)' = TotalOf(fetched', scids', in, out)
  BY DEF pairForwardedTotal, TotalOf, Known
<1> QED BY <1>1, <1>2, <1>3, <1>4 DEF Measured

\* The map is left alone, and no more is claimed of it.
LEMMA MapSame ==
  ASSUME MapOK, UNCHANGED <<nested, win, fetched, scids, considered, byServer>>,
         \/ stage' = stage
         \/ stage' = "failed"
         \/ HasReply' /\ Guarded
  PROVE  MapOK'
<1>1. Measured => Measured'
  BY MeasuredSame
<1>2. Qualifying' = Qualifying
  BY DEF Qualifying
<1>3. stage' \in {"open", "closed", "data"} => stage' = stage
  BY DEF HasReply
<1> QED BY <1>1, <1>2, <1>3 DEF MapOK, Reading, Walked, Guarded, HasReply, Known

\* The walk: a pair of peers for every forward, for their channels are considered
\* and in the store; and no uptime longer than the window.
LEMMA MapWalk ==
  ASSUME Gathering, WorldOK, WindowOK, MapOK, calculateAllPairsUptime
  PROVE  MapOK'
<1> DEFINE S == PeersWithData
           P == {PeerOf[c] : c \in Chans}
           U == {u \in Uptimes : u <= win.endTicks - win.start * Ticks}
<1>1. PICK up \in [S \X S -> U] :
        nested' = [p \in DOMAIN up |->
          [uptime |-> up[p] \div Ticks, sat |-> pairForwardedTotal(p[1], p[2])]]
  BY DEF calculateAllPairsUptime
<1>2. /\ stage = "data" /\ stage' = "guard"
      /\ UNCHANGED <<win, scids, fetched, considered, byServer>>
  BY DEF calculateAllPairsUptime, history
<1>3. S \in SUBSET P /\ P \in SUBSET Keys /\ IsFiniteSet(S)
  <2>1. S \in SUBSET P
    BY DEF WorldOK, PeersWithData
  <2>2. P \in SUBSET Keys
    BY AbilityAssumption
  <2>3. IsFiniteSet(P)
    <3>1. IsFiniteSet(Chans) /\ (\A c \in Chans : PeerOf[c] \in P)
          /\ \A k \in P : \E c \in Chans : PeerOf[c] = k
      BY AbilityAssumption
    <3> HIDE DEF P
    <3> QED BY <3>1, FiniteOnto
  <2>4. IsFiniteSet(S)
    <3> HIDE DEF S, P
    <3> QED BY <2>1, <2>3, FS_Subset
  <2> QED BY <2>1, <2>2, <2>4
<1>4. /\ DOMAIN nested' = S \X S
      /\ \A p \in S \X S : /\ up[p] \in U /\ nested'[p].uptime = up[p] \div Ticks
                           /\ nested'[p].sat = pairForwardedTotal(p[1], p[2])
                           /\ nested'[p] = [uptime |-> nested'[p].uptime, sat |-> nested'[p].sat]
  <2> HIDE DEF S, U
  <2> QED BY <1>1
<1>5. ASSUME NEW p \in S \X S
      PROVE  /\ nested'[p].uptime \in Nat /\ nested'[p].sat \in Nat
             /\ byServer => nested'[p].uptime \in 0..(win.end - win.start)
  <2>1. pairForwardedTotal(p[1], p[2]) \in Nat
    <3>1. fetched \in Seq(Forward)
      BY DEF Gathering
    <3> QED BY <3>1, TotalIs, TotalType
  <2>2. PICK u \in Nat : u = up[p] /\ u <= win.endTicks - win.start * Ticks
    BY <1>4, AbilityAssumption
  <2>3. Ticks \in Nat \ {0}
    BY AbilityAssumption
  <2>4. PICK v \in Nat : v = u \div Ticks
    BY <2>3
  <2>5. v = nested'[p].uptime
    BY <1>4, <2>2, <2>4
  <2>6. ASSUME byServer PROVE v \in 0..(win.end - win.start)
    <3>1. PICK s \in Nat, e \in Nat, k \in Nat :
            /\ s = win.start /\ e = win.end /\ k = win.endTicks
            /\ s * Ticks <= k /\ e = k \div Ticks
      BY <2>6 DEF WindowOK, Windows
    <3>2. u <= k - s * Ticks
      BY <2>2, <3>1
    <3>3. Ticks * v <= u
      BY <2>3, <2>4, DivMod
    <3>4. PICK d \in 0..(Ticks - 1) : k = Ticks * e + d
      <4>1. k \in Int
        OBVIOUS
      <4>2. k % Ticks \in 0..(Ticks - 1) /\ k = Ticks * (k \div Ticks) + (k % Ticks)
        BY ONLY <2>3, <4>1, DivMod
      <4> QED BY <3>1, <4>2, Zenon
    <3>5. Ticks * (v + s) < Ticks * (e + 1)
      <4>1. PICK a \in Int, b \in Int, c \in Int : a = Ticks * v /\ b = Ticks * s /\ c = Ticks * e
        BY <2>3
      <4>2. a + b <= c + d
        <5>1. s * Ticks = b /\ Ticks * e = c
          BY <2>3, <4>1
        <5> QED BY <3>2, <3>3, <3>4, <4>1, <5>1
      <4>3. Ticks * (v + s) = a + b /\ Ticks * (e + 1) = c + Ticks
        BY <2>3, <4>1
      <4> QED BY <2>3, <4>2, <4>3
    <3>6. v + s < e + 1
      BY ONLY <2>3, <3>5, v \in Nat, s \in Nat, e \in Nat, TimesMonotone
    <3> QED BY <3>1, <3>6
  <2> QED BY <1>4, <2>1, <2>4, <2>5, <2>6
<1>6. Mapped(nested)'
  <2>1. S \X S \in SUBSET (Keys \X Keys) /\ IsFiniteSet(S \X S)
    <3> HIDE DEF S, P
    <3> QED BY <1>3, FS_Product
  <2>2. ASSUME NEW p \in S \X S PROVE nested'[p] \in [uptime : Int, sat : Int]
    <3>1. nested'[p].uptime \in Int /\ nested'[p].sat \in Int
      BY <1>5
    <3> HIDE DEF S
    <3> QED BY <1>4, <3>1
  <2> HIDE DEF S
  <2> QED BY <1>4, <2>1, <2>2 DEF Mapped
<1>7. Measured'
  <2>1. PairsOver(S)
    <3> SUFFICES ASSUME NEW i \in DOMAIN fetched, Known(fetched[i])
                 PROVE  {PeerOf[fetched[i].in], PeerOf[fetched[i].out]} \subseteq S
      BY DEF PairsOver
    <3>1. {fetched[i].in, fetched[i].out} \subseteq considered \cap store
      BY <1>2 DEF MapOK, Known, WorldOK
    <3> QED BY <3>1 DEF PeersWithData
  <2> HIDE DEF S
  <2>2. PICK Z : Z = S
    OBVIOUS
  <2>3. Z \in SUBSET P /\ DOMAIN nested' = Z \X Z
    BY <1>3, <1>4, <2>2
  <2>4. PairsOver(Z)'
    BY <1>2, <2>1, <2>2 DEF PairsOver, Known
  <2>5. \A p \in DOMAIN nested' : nested'[p].sat = pairForwardedTotal(p[1], p[2])'
    <3>1. \A in, out : pairForwardedTotal(in, out)' = TotalOf(fetched', scids', in, out)
      BY DEF pairForwardedTotal, TotalOf, Known
    <3>2. \A p \in DOMAIN nested' : nested'[p].sat = TotalOf(fetched, scids, p[1], p[2])
      BY <1>4, TotalIs
    <3> QED BY <1>2, <3>1, <3>2
  <2> QED BY <2>3, <2>4, <2>5 DEF Measured
<1>8. byServer' => \A p \in DOMAIN nested' : nested'[p].uptime \in 0..(win'.end - win'.start)
  <2> HIDE DEF S
  <2> QED BY <1>2, <1>4, <1>5
<1> QED BY <1>2, <1>6, <1>7, <1>8 DEF MapOK, Reading, Walked, Guarded

\* Every step keeps what is known of the map.
LEMMA MapNext == Gathering /\ WorldOK /\ WindowOK /\ MapOK /\ [Next]_vars => MapOK'
<1> SUFFICES ASSUME Gathering, WorldOK, WindowOK, MapOK, [Next]_vars PROVE MapOK'
  OBVIOUS
<1>2. ASSUME NEW c \in Chans, ChannelOpens(c) \/ ChannelCloses(c) \/ MonitorRecords(c)
      PROVE  MapOK'
  BY <1>2, MapSame DEF ChannelOpens, ChannelCloses, MonitorRecords, World, call, history
<1>3. ASSUME NEW in \in Chans, NEW out \in Chans, NEW msat \in Msat, LndForwards(in, out, msat)
      PROVE  MapOK'
  BY <1>3, MapSame DEF LndForwards, call, history
<1>4. ASSUME NEW start \in Times, NEW end \in Times, NEW threshold \in Thresholds,
             Refuse(start, end, threshold)
      PROVE  MapOK'
  BY <1>4, MapSame DEF Refuse, call, history
\* While nothing is mapped, only the considered channels matter.
<1>5. ASSUME Reading, Reading', UNCHANGED nested,
             stage' \in {"open", "closed", "data"} =>
               \A i \in DOMAIN fetched' :
                 Known(fetched[i])' => {fetched'[i].in, fetched'[i].out} \subseteq considered'
      PROVE  MapOK'
  <2>1. nested' = <<>> /\ DOMAIN nested' = {} /\ Mapped(nested)'
    BY <1>5 DEF MapOK, Mapped
  <2> QED BY <1>5, <2>1 DEF MapOK, Reading, Walked, Guarded
<1>6. ASSUME NEW start \in Times, NEW end \in Times, NEW threshold \in Thresholds,
             Request(start, end, threshold)
      PROVE  MapOK'
  BY <1>5, <1>6 DEF Request, Reading
<1>7. CASE Done
  <2>1. nested' = <<>> /\ DOMAIN nested' = {} /\ stage' = "idle"
    BY <1>7 DEF Done
  <2>2. Mapped(nested)'
    BY <2>1, FS_EmptySet DEF Mapped
  <2> QED BY <2>1, <2>2 DEF MapOK, Reading, Walked, Guarded
<1>8. CASE ScidToPeerMap
  BY <1>5, <1>8 DEF ScidToPeerMap, Reading
<1>9. CASE getForwardingData
  <2>1. /\ stage = "forwards" /\ stage' \in {"forwards", "open"} /\ UNCHANGED <<nested, scids>>
        /\ stage' = "open" =>
             considered' = UNION {{f.in, f.out} : f \in {g \in Range(fetched') : Known(g)}}
    BY <1>9 DEF getForwardingData
  <2>2. ASSUME stage' = "open", NEW i \in DOMAIN fetched', Known(fetched[i])'
        PROVE  {fetched'[i].in, fetched'[i].out} \subseteq considered'
    <3>1. fetched'[i] \in Range(fetched')
      BY DEF Range
    <3>2. Known(fetched'[i])
      BY <2>1, <2>2 DEF Known
    <3> QED BY <2>1, <2>2, <3>1, <3>2
  <2> QED BY <1>5, <2>1, <2>2 DEF Reading
<1>10. CASE addActiveChannels
  <2>1. /\ stage \in {"open", "closed"} /\ stage' \in {"closed", "data"}
        /\ UNCHANGED <<nested, fetched, scids>> /\ considered \subseteq considered'
    BY <1>10 DEF addActiveChannels
  <2>2. ASSUME NEW i \in DOMAIN fetched', Known(fetched[i])'
        PROVE  {fetched'[i].in, fetched'[i].out} \subseteq considered'
    <3>1. i \in DOMAIN fetched /\ Known(fetched[i]) /\ fetched'[i] = fetched[i]
      BY <2>1, <2>2 DEF Known
    <3> QED BY <2>1, <3>1 DEF MapOK
  <2> QED BY <1>5, <2>1, <2>2 DEF Reading
<1>11. CASE calculateAllPairsUptime
  BY <1>11, MapWalk
<1>12. CASE NodeDownGuard
  <2>1. /\ stage = "guard" /\ stage' = IF Qualifying = {} THEN "failed" ELSE "encode"
        /\ UNCHANGED <<nested, win, fetched, scids, considered, byServer>>
    BY <1>12 DEF NodeDownGuard, call, history
  <2>2. CASE Qualifying = {}
    BY <2>1, <2>2, MapSame
  <2>3. CASE Qualifying # {}
    <3>1. Qualifying' = Qualifying
      BY <2>1 DEF Qualifying
    <3>2. byServer => Measured
      BY <2>1 DEF MapOK, Walked
    <3>3. byServer => Measured'
      BY <2>1, <3>2, MeasuredSame
    <3>4. stage' = "encode"
      BY <2>1, <2>3
    <3> QED BY <2>1, <2>3, <3>1, <3>3, <3>4 DEF MapOK, Reading, Walked, Guarded
  <2> QED BY <2>2, <2>3
<1>13. CASE Encode
  BY <1>13, MapSame DEF Encode, history, Guarded, HasReply
<1>14. CASE Decode
  BY <1>14, MapSame DEF Decode, history, Guarded, HasReply
<1>15. CASE ReadFails
  BY <1>15, MapSame DEF ReadFails, call, history
<1>16. CASE UNCHANGED vars
  BY <1>16, MapSame DEF vars, call, history
<1> QED
  BY <1>2, <1>3, <1>4, <1>6, <1>7, <1>8, <1>9, <1>10, <1>11, <1>12, <1>13, <1>14, <1>15, <1>16
  DEF Next, Environment, Client

\* No answer yet.
LEMMA AnswerInit == Init \/ LibraryCall => AnswerOK
  BY DEF Init, LibraryCall, Fresh, AnswerOK, HasReply

\* The answer is left alone, with what it was made from, or there is none.
LEMMA AnswerSame ==
  ASSUME AnswerOK, UNCHANGED resp,
         \/ stage' = stage /\ UNCHANGED <<nested, win, decoded>>
         \/ ~HasReply /\ ~HasReply'
  PROVE  AnswerOK'
<1>1. CASE stage' = stage /\ UNCHANGED <<nested, win, decoded>>
  BY <1>1 DEF AnswerOK, HasReply
<1>2. CASE ~HasReply /\ ~HasReply'
  BY <1>2 DEF AnswerOK, HasReply
<1> QED BY <1>1, <1>2

\* Every step keeps what is known of the answer.
LEMMA AnswerNext == AnswerOK /\ [Next]_vars => AnswerOK'
<1> SUFFICES ASSUME AnswerOK, [Next]_vars PROVE AnswerOK'
  OBVIOUS
<1>1. ASSUME NEW c \in Chans, ChannelOpens(c) \/ ChannelCloses(c) \/ MonitorRecords(c)
      PROVE  AnswerOK'
  BY <1>1, AnswerSame DEF ChannelOpens, ChannelCloses, MonitorRecords, World, call
<1>2. ASSUME NEW in \in Chans, NEW out \in Chans, NEW msat \in Msat, LndForwards(in, out, msat)
      PROVE  AnswerOK'
  BY <1>2, AnswerSame DEF LndForwards, call
<1>3. ASSUME NEW start \in Times, NEW end \in Times, NEW threshold \in Thresholds,
             Request(start, end, threshold) \/ Refuse(start, end, threshold)
      PROVE  AnswerOK'
  BY <1>3, AnswerSame DEF Request, Refuse, call, HasReply
<1>4. CASE Done
  BY <1>4 DEF Done, AnswerOK, HasReply
<1>5. CASE ReadFails \/ NodeDownGuard \/ calculateAllPairsUptime
           \/ ScidToPeerMap \/ getForwardingData \/ addActiveChannels
  <2>1. UNCHANGED resp /\ ~HasReply /\ ~HasReply'
    BY <1>5 DEF ReadFails, NodeDownGuard, calculateAllPairsUptime, ScidToPeerMap,
                getForwardingData, addActiveChannels, call, HasReply
  <2> QED BY <2>1, AnswerSame
<1>6. CASE Encode
  <2>1. /\ resp' = EncodeForwardingAbility(nested, win.start, win.end, win.threshold)
        /\ UNCHANGED <<nested, win>>
    BY <1>6 DEF Encode
  <2>2. stage' \in {"failed", "answered"} /\ (stage' = "failed" <=> resp' = Error)
    BY <1>6 DEF Encode
  <2>3. resp' = EncodeForwardingAbility(nested', win'.start, win'.end, win'.threshold)
    BY <2>1
  <2> QED BY <2>2, <2>3 DEF AnswerOK, HasReply
<1>7. CASE Decode
  <2>1. /\ stage = "answered" /\ stage' = "decoded" /\ UNCHANGED <<nested, win, resp>>
        /\ decoded' = DecodeForwardingAbility(resp)
    BY <1>7 DEF Decode
  <2> QED BY <2>1 DEF AnswerOK, HasReply
<1>8. CASE UNCHANGED vars
  BY <1>8, AnswerSame DEF vars, call
<1> QED BY <1>1, <1>2, <1>3, <1>4, <1>5, <1>6, <1>7, <1>8 DEF Next, Environment, Client

\* All that is known of the call.
CallOK == Gathering /\ WorldOK /\ WindowOK /\ MapOK /\ AnswerOK

LEMMA CallAlwaysOK == Spec => []CallOK
<1>1. Init \/ LibraryCall => CallOK
  BY GatheringInit, WorldInit, WindowInit, MapInit, AnswerInit DEF CallOK
<1>2. CallOK /\ [Next]_vars => CallOK'
  BY GatheringNext, WorldNext, WindowNext, MapNext, AnswerNext DEF CallOK
<1> QED BY <1>1, <1>2, PTL DEF Spec

\* What the codec needs holds of the map and the window.
LEMMA CodecReady ==
  ASSUME CallOK
  PROVE  /\ Mapped(nested) /\ win.start \in Nat /\ win.end \in Nat /\ win.threshold \in 0..Scale
         /\ MinQualifyingUptime(win.threshold, win.end - win.start) \in Nat \ {0}
<1>1. Mapped(nested) /\ win.start \in Nat /\ win.end \in Nat /\ win.threshold \in 0..Scale
  BY DEF CallOK, MapOK, WindowOK, Windows
<1>2. PICK t \in 0..Scale, w \in Int : t = win.threshold /\ w = win.end - win.start
  BY <1>1
<1>3. MinQualifyingUptime(t, w) \in Nat \ {0}
  BY MinIs
<1> QED BY <1>1, <1>2, <1>3

\* An answer is what the encoder makes of the map.
LEMMA AnswerIs ==
  ASSUME CallOK, HasReply
  PROVE  LET m == MinQualifyingUptime(win.threshold, win.end - win.start)
         IN  /\ Distinct(nested, m)
             /\ \E ix : Encoded(resp, nested, m, win.start, win.end, ix)
<1>1. /\ Mapped(nested) /\ win.start \in Int /\ win.end \in Int
      /\ MinQualifyingUptime(win.threshold, win.end - win.start) \in Int
  BY CodecReady
<1>2. /\ resp = EncodeForwardingAbility(nested, win.start, win.end, win.threshold)
      /\ resp # Error
  BY DEF CallOK, AnswerOK
<1>3. EncodeForwardingAbility(nested, win.start, win.end, win.threshold) # Error
  BY <1>2
<1>4. LET m == MinQualifyingUptime(win.threshold, win.end - win.start)
      IN  /\ Distinct(nested, m)
          /\ \E ix : Encoded(EncodeForwardingAbility(nested, win.start, win.end, win.threshold),
                             nested, m, win.start, win.end, ix)
  BY <1>1, <1>3, EncodeIs, Zenon
<1> QED BY <1>2, <1>4, Zenon

\* The bits of an answer are positions of its bitmask.
LEMMA AnswerFits ==
  ASSUME CallOK, HasReply
  PROVE  /\ \A b \in resp.bits : b \in 0..(Len(resp.peers) * Len(resp.peers) - 1)
         /\ Len(resp.peers) <= maxPackedPeers
<1> DEFINE m == MinQualifyingUptime(win.threshold, win.end - win.start)
           K == Kept(nested, m)
<1>1. PICK ix : Encoded(resp, nested, m, win.start, win.end, ix)
  BY AnswerIs
<1>2. PICK n \in Nat : n = Len(resp.peers) /\ n < IdxValues
  BY <1>1 DEF Encoded
<1>3. \A p \in K : ix[p[1]] \in 0..(n - 1) /\ ix[p[2]] \in 0..(n - 1)
  BY <1>1, <1>2 DEF Encoded
<1>4. \A b \in resp.bits : \E p \in K : b = BitIndex(ix[p[1]], ix[p[2]], n)
  BY <1>1, <1>2 DEF Encoded
<1> HIDE DEF K, m
<1>5. ASSUME NEW b \in resp.bits PROVE b \in 0..(n * n - 1)
  <2>1. PICK p \in K : b = BitIndex(ix[p[1]], ix[p[2]], n)
    BY <1>4
  <2>2. PICK i \in 0..(n - 1), j \in 0..(n - 1) : i = ix[p[1]] /\ j = ix[p[2]]
    BY <1>3
  <2>3. n \in Nat \ {0}
    OBVIOUS
  <2>4. i * n + j \in Nat /\ i * n + j < n * n
    BY <2>3, TwoInOne
  <2>5. b = i * n + j
    BY <2>1, <2>2 DEF BitIndex
  <2>6. PICK z \in Int : z = n * n
    OBVIOUS
  <2> QED BY <2>4, <2>5, <2>6
<1>6. IdxValues \in Nat
  BY CodecAssumption
<1>7. n <= maxPackedPeers
  BY <1>2, <1>6 DEF maxPackedPeers
<1> QED BY <1>2, <1>5, <1>7

\* The variables have their types; what the analyzer measures is within the
\* window, and what the encoder packs within the fields it packs it into.
THEOREM AbilityTypes == Spec => []TypeOK
<1>1. ASSUME CallOK PROVE TypeOK
  <2>1. offset \in 0..Len(forwards) /\ owed \in 0..Len(forwards)
    <3>1. /\ offset \in Nat /\ owed \in Nat /\ Len(forwards) \in Nat /\ Len(fetched) \in Nat
          /\ owed <= Len(forwards) /\ offset <= Len(fetched) /\ Len(fetched) <= Len(forwards)
      BY <1>1 DEF CallOK, Gathering, Begins
    <3> QED BY <3>1
  <2>2. /\ DOMAIN nested \subseteq Keys \X Keys
        /\ byServer => \A p \in DOMAIN nested : nested[p].uptime \in 0..(win.end - win.start)
    BY <1>1 DEF CallOK, MapOK, Mapped
  <2>3. resp # Error => /\ \A b \in resp.bits : b \in 0..(Len(resp.peers) * Len(resp.peers) - 1)
                        /\ Len(resp.peers) <= maxPackedPeers
    <3>1. resp # Error => HasReply
      BY <1>1 DEF CallOK, AnswerOK
    <3> QED BY <1>1, <3>1, AnswerFits
  <2>4. win \in Windows
    BY <1>1 DEF CallOK, WindowOK
  <2>5. /\ store \subseteq open \cup closed /\ open \cap closed = {}
        /\ Len(forwards) <= MaxForwards /\ changes <= MaxChanges /\ stage \in Stages
        /\ scids \subseteq store /\ listed \subseteq Chans /\ considered \subseteq Chans
    BY <1>1 DEF CallOK, WorldOK
  <2> QED BY <2>1, <2>2, <2>3, <2>4, <2>5 DEF TypeOK, Stages
<1> QED BY <1>1, CallAlwaysOK, PTL

\* What a client decodes.
LEMMA DecodedIs ==
  ASSUME CallOK, stage = "decoded"
  PROVE  LET kept == Kept(nested, MinQualifyingUptime(win.threshold, win.end - win.start))
         IN  /\ decoded # Error
             /\ DOMAIN decoded.abilities = {Raw(p) : p \in kept}
             /\ \A p \in kept : decoded.abilities[Raw(p)] = Seen(nested[p], win.end - win.start)
<1> DEFINE m == MinQualifyingUptime(win.threshold, win.end - win.start)
<1>1. Mapped(nested) /\ win.start \in Int /\ win.end \in Int /\ m \in Int
  BY CodecReady
<1>2. Distinct(nested, m) /\ \E ix : Encoded(resp, nested, m, win.start, win.end, ix)
  BY AnswerIs DEF HasReply
<1>3. decoded = DecodeForwardingAbility(resp)
  BY DEF CallOK, AnswerOK
<1> HIDE DEF m
<1>4. PICK ix : Encoded(resp, nested, m, win.start, win.end, ix)
  BY <1>2
<1>5. LET d == DecodeForwardingAbility(resp)
      IN  /\ d # Error
          /\ DOMAIN d.abilities = {Raw(p) : p \in Kept(nested, m)}
          /\ \A p \in Kept(nested, m) : d.abilities[Raw(p)] = Seen(nested[p], win.end - win.start)
  <2>map. PICK a : a = nested
    OBVIOUS
  <2>1. PICK s \in Int, e \in Int : s = win.start /\ e = win.end
    BY <1>1
  <2>2. Mapped(a) /\ Distinct(a, m) /\ Encoded(resp, a, m, s, e, ix)
    BY <1>1, <1>2, <1>4, <2>map, <2>1
  <2>3. LET d == DecodeForwardingAbility(resp)
        IN  /\ d # Error
            /\ DOMAIN d.abilities = {Raw(p) : p \in Kept(a, m)}
            /\ \A p \in Kept(a, m) : d.abilities[Raw(p)] = Seen(a[p], e - s)
    BY <1>1, <2>2, DecodeIs
  <2> QED BY <2>map, <2>1, <2>3
<1>6. /\ decoded # Error
      /\ DOMAIN decoded.abilities = {Raw(p) : p \in Kept(nested, m)}
      /\ \A p \in Kept(nested, m) : decoded.abilities[Raw(p)] = Seen(nested[p], win.end - win.start)
  BY <1>3, <1>5, Zenon
<1> QED BY <1>6, Zenon DEF m

\* DecodeForwardingAbility is the inverse of EncodeForwardingAbility up to what an
\* answer leaves out on purpose, for every map, every spelling of its keys and
\* every number of peers the packed indices have room for.
THEOREM CodecRoundTrips == Spec => []RoundTrip
<1>1. ASSUME CallOK PROVE RoundTrip
  BY <1>1, DecodedIs, Zenon DEF RoundTrip
<1> QED BY <1>1, CallAlwaysOK, PTL

\* A pair that qualifies is kept, and seen by the client as up for at least the
\* least uptime.
LEMMA QualifyingSeen ==
  ASSUME CallOK, stage = "decoded", byServer,
         NEW p \in Qualifying
  PROVE  LET u == decoded.abilities[Raw(p)].uptime
         IN  /\ Raw(p) \in DOMAIN decoded.abilities /\ u \in Int /\ u >= 1
             /\ u * Scale >= win.threshold * (win.end - win.start)
<1>1. PICK t \in 0..Scale, w \in Int : t = win.threshold /\ w = win.end - win.start
  BY CodecReady
<1>2. PICK m \in Nat \ {0} : m = MinQualifyingUptime(t, w) /\ (w > 0 => m * Scale >= t * w)
  BY MinIs
<1>3. p \in DOMAIN nested /\ nested[p].uptime >= m
  BY <1>1, <1>2 DEF Qualifying
<1>4. nested[p] \in [uptime : Int, sat : Int] /\ nested[p].uptime \in 0..w
  BY <1>1, <1>3 DEF CallOK, MapOK, Mapped
<1>5. w >= 1 /\ w \in Nat
  BY <1>3, <1>4
<1>6. p \in Kept(nested, m)
  <2>1. tier(nested[p], m) # "absent"
    <3>1. m \in Int /\ ~(nested[p].uptime < m)
      BY <1>3, <1>4
    <3> QED BY <1>4, <3>1, TierIs
  <2> QED BY <1>3, <2>1 DEF Kept
<1>7. /\ Raw(p) \in DOMAIN decoded.abilities
      /\ decoded.abilities[Raw(p)] = Seen(nested[p], w)
  <2>1. /\ DOMAIN decoded.abilities = {Raw(q) : q \in Kept(nested, m)}
        /\ \A q \in Kept(nested, m) : decoded.abilities[Raw(q)] = Seen(nested[q], w)
    BY <1>1, <1>2, DecodedIs
  <2> QED BY <1>6, <2>1
<1>8. PICK u \in Int : u = decoded.abilities[Raw(p)].uptime /\ (u = w \/ u >= m)
  BY <1>3, <1>4, <1>7 DEF Seen
<1>9. Scale \in Nat \ {0} /\ t \in Nat /\ t <= Scale
  BY CodecAssumption
<1>10. u >= 1 /\ u * Scale >= t * w
  <2>1. CASE u = w
    <3>1. w * t <= w * Scale
      BY ONLY <1>5, <1>9, TimesMonotone, w \in Int, t \in Nat
    <3>2. w * t = t * w
      BY <1>9
    <3> QED BY <1>5, <2>1, <3>1, <3>2
  <2>2. CASE u >= m
    <3>1. Scale * m <= Scale * u
      BY ONLY <1>9, <2>2, TimesMonotone, u \in Int, m \in Nat \ {0}
    <3>2. Scale * m = m * Scale /\ Scale * u = u * Scale
      BY <1>9
    <3>3. m * Scale >= t * w
      BY <1>2, <1>5
    <3>4. PICK x \in Int, y \in Int, z \in Int : x = m * Scale /\ y = u * Scale /\ z = t * w
      BY <1>9
    <3>5. y >= z
      BY <3>1, <3>2, <3>3, <3>4
    <3> QED BY <2>2, <3>4, <3>5
  <2> QED BY <1>8, <2>1, <2>2
<1> QED BY <1>1, <1>7, <1>8, <1>10

\* An answer of the server is never empty: NodeDownGuard looks at the uptimes the
\* encoder looks at, so that a pair that passes it reaches the client.
THEOREM AnswerHasSignal == Spec => []SomeSignal
<1>1. ASSUME CallOK PROVE SomeSignal
  <2> SUFFICES ASSUME stage = "decoded", byServer
               PROVE  \E p \in DOMAIN decoded.abilities :
                        /\ decoded.abilities[p].uptime >= 1
                        /\ decoded.abilities[p].uptime * Scale
                             >= win.threshold * (win.end - win.start)
    BY DEF SomeSignal
  <2>1. PICK p : p \in Qualifying
    BY <1>1 DEF CallOK, MapOK, Guarded
  <2>2. LET u == decoded.abilities[Raw(p)].uptime
        IN  /\ Raw(p) \in DOMAIN decoded.abilities /\ u >= 1
            /\ u * Scale >= win.threshold * (win.end - win.start)
    BY <1>1, <2>1, QualifyingSeen
  <2> QED BY <2>2
<1> QED BY <1>1, CallAlwaysOK, PTL

\* What lnd forwarded is what was fetched.
LEMMA VolumeIs ==
  ASSUME Gathering, NEW in, NEW out
  PROVE  Volume(in, out) = TotalOf(fetched, scids, in, out)
<1> DEFINE A == {i \in 1..Len(fetched) : /\ {forwards[i].in, forwards[i].out} \subseteq scids
                                         /\ PeerOf[forwards[i].in] = in
                                         /\ PeerOf[forwards[i].out] = out}
           B == {i \in DOMAIN fetched : /\ {fetched[i].in, fetched[i].out} \subseteq scids
                                        /\ PeerOf[fetched[i].in] = in
                                        /\ PeerOf[fetched[i].out] = out}
<1>1. DOMAIN fetched = 1..Len(fetched) /\ \A i \in DOMAIN fetched : fetched[i] = forwards[i]
  BY DEF Gathering, Begins
<1>2. A = B /\ \A i \in A : fetched[i] = forwards[i]
  BY <1>1
<1>3. Volume(in, out) = AddUp([i \in A |-> forwards[i].msat \div MsatPerSat])
  BY DEF Volume
<1>4. TotalOf(fetched, scids, in, out) = AddUp([i \in B |-> fetched[i].msat \div MsatPerSat])
  BY DEF TotalOf
<1> HIDE DEF A, B
<1>5. [i \in A |-> forwards[i].msat \div MsatPerSat] = [i \in B |-> fetched[i].msat \div MsatPerSat]
  BY <1>2
<1> QED BY <1>3, <1>4, <1>5

\* The client of a successful call sees the satoshis of every forward over the
\* channels the call knew, under their pair and direction: what getForwardingData,
\* addActiveChannels, getPeerChannelData, the encoder and the decoder each do to
\* them loses nothing, whatever changes in lnd and in the store between two reads.
THEOREM VolumeAlwaysReachesClient == Spec => []VolumeReachesClient
<1>1. ASSUME CallOK PROVE VolumeReachesClient
  <2> SUFFICES ASSUME stage = "decoded", byServer,
                      NEW in \in {PeerOf[c] : c \in Chans}, NEW out \in {PeerOf[c] : c \in Chans}
               PROVE  LET pair == Raw(<<in, out>>)
                      IN  IF Volume(in, out) > 0
                          THEN /\ pair \in DOMAIN decoded.abilities
                               /\ decoded.abilities[pair].sat = Volume(in, out)
                          ELSE pair \in DOMAIN decoded.abilities => decoded.abilities[pair].sat = 0
    BY DEF VolumeReachesClient
  <2> DEFINE P == {PeerOf[c] : c \in Chans}
  <2>1. fetched \in Seq(Forward) /\ Gathering
    BY <1>1 DEF CallOK, Gathering
  <2>2. PICK total \in Nat : total = TotalOf(fetched, scids, in, out) /\ Volume(in, out) = total
    BY <2>1, TotalType, VolumeIs
  <2>3. PICK S \in SUBSET P :
          /\ DOMAIN nested = S \X S /\ PairsOver(S)
          /\ \A p \in DOMAIN nested : nested[p].sat = TotalOf(fetched, scids, p[1], p[2])
    BY <1>1, TotalIs DEF CallOK, MapOK, Walked, Measured
  <2>4. PICK m \in Nat : m = MinQualifyingUptime(win.threshold, win.end - win.start)
    BY <1>1, CodecReady
  <2>5. PICK w \in Int : w = win.end - win.start
    BY <1>1, CodecReady
  <2>6. /\ DOMAIN decoded.abilities = {Raw(q) : q \in Kept(nested, m)}
        /\ \A q \in Kept(nested, m) : decoded.abilities[Raw(q)] = Seen(nested[q], w)
    BY <1>1, <2>4, <2>5, DecodedIs
  <2>7. \A q \in Kept(nested, m) : q \in DOMAIN nested
    BY DEF Kept
  <2>8. \A q \in DOMAIN nested : nested[q] \in [uptime : Int, sat : Int]
    BY <1>1 DEF CallOK, MapOK, Mapped
  <2>9. CASE total > 0
    <3>1. <<in, out>> \in DOMAIN nested
      <4>1. PICK i \in DOMAIN fetched : /\ {fetched[i].in, fetched[i].out} \subseteq scids
                                        /\ PeerOf[fetched[i].in] = in
                                        /\ PeerOf[fetched[i].out] = out
        BY <2>1, <2>2, <2>9, TotalType
      <4>2. in \in S /\ out \in S
        BY <2>3, <4>1 DEF PairsOver, Known
      <4> QED BY <2>3, <4>2
    <3>2. nested[<<in, out>>].sat = total
      BY <2>2, <2>3, <3>1
    <3>3. <<in, out>> \in Kept(nested, m)
      <4>1. tier(nested[<<in, out>>], m) = "entry"
        BY <2>8, <2>9, <3>1, <3>2, TierIs
      <4> QED BY <3>1, <4>1 DEF Kept
    <3>4. decoded.abilities[Raw(<<in, out>>)] = nested[<<in, out>>]
      BY <2>6, <2>9, <3>2, <3>3 DEF Seen
    <3> QED BY <2>2, <2>6, <2>9, <3>2, <3>3, <3>4
  <2>10. CASE ~(total > 0)
    <3>1. ASSUME Raw(<<in, out>>) \in DOMAIN decoded.abilities
          PROVE  decoded.abilities[Raw(<<in, out>>)].sat = 0
      <4>1. PICK q \in Kept(nested, m) : Raw(q) = Raw(<<in, out>>)
        BY <2>6, <3>1
      <4>2. PICK a \in S, b \in S : q = <<a, b>>
        BY <2>3, <2>7
      <4>3. RawOf[a] = RawOf[in] /\ RawOf[b] = RawOf[out]
        BY <4>1, <4>2 DEF Raw
      <4>4. a = in /\ b = out
        <5>1. \A x, y \in P : RawOf[x] = RawOf[y] => x = y
          BY AbilityAssumption
        <5> QED BY <4>3, <5>1
      <4>5. q = <<in, out>> /\ nested[q].sat = total
        BY <2>2, <2>3, <2>7, <4>2, <4>4
      <4>6. decoded.abilities[Raw(q)] = [uptime |-> w, sat |-> 0]
        BY <2>6, <2>10, <4>5 DEF Seen
      <4> QED BY <4>1, <4>6
    <3> QED BY <2>2, <2>10, <3>1
  <2> QED BY <2>9, <2>10
<1> QED BY <1>1, CallAlwaysOK, PTL
=============================================================================
