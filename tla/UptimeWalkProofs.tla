-------------------------- MODULE UptimeWalkProofs --------------------------
(***************************************************************************)
(* Proofs about UptimeWalk, for every window, pair of peers, floor and log *)
(* of events: the walk's running sums are the sums of the online balances, *)
(* and the uptime it adds up is the time during which they sufficed.       *)
(***************************************************************************)
EXTENDS UptimeWalk, CommonProofs

-----------------------------------------------------------------------------
(* The walk's sums. *)

\* f gives the parts of the channels of h in a sum.
Parts(f, h, field, S) == f \in [S -> Nat] /\ \A c \in S : f[c] = Online(h[c], field)

\* What the sums of the walk are.
LEMMA SumOfIs ==
  ASSUME NEW S, IsFiniteSet(S), NEW h, DOMAIN h = S, NEW field, NEW f, Parts(f, h, field, S)
  PROVE  SumsTo(SumOf(h, field), f, S)
<1> DEFINE K(k) == k = [s \in SUBSET S |->
                      IF s = {} THEN 0 ELSE Online(h[Pick(s)], field) + k[s \ {Pick(s)}]]
           k0 == CHOOSE k : K(k)
<1>0. f \in [S -> Nat] /\ \A c \in S : f[c] = Online(h[c], field)
  BY DEF Parts
<1>1. SumOf(h, field) = k0[S]
  BY DEF SumOf, MapThenSumSet, MapThenFoldSet, Pick
<1>2. PICK g \in [SUBSET S -> Nat] : IsSum(g, f, S)
  BY <1>0, SumExists
<1>3. \A s \in SUBSET S : s # {} => Pick(s) \in S
  BY PickOne
<1>4. \A s \in SUBSET S :
         g[s] = IF s = {} THEN 0 ELSE Online(h[Pick(s)], field) + g[s \ {Pick(s)}]
  BY <1>0, <1>2, <1>3 DEF IsSum, SumStep
<1>5. K(g)
  BY <1>4
<1>6. K(k0)
  BY <1>5
<1> HIDE DEF k0
<1>7. IsSum(k0, f, S)
  BY <1>0, <1>3, <1>6 DEF IsSum, SumStep
<1>8. \A s \in SUBSET S : k0[s] = g[s]
  BY <1>2, <1>7, SumAgree
<1> QED BY <1>1, <1>2, <1>8 DEF SumsTo

\* When one channel changes, the sum changes by what the channel's part does:
\* taking the channel out and putting it back is exact.
LEMMA SumOfMoved ==
  ASSUME NEW S, IsFiniteSet(S), NEW c \in S, NEW field,
         NEW h, DOMAIN h = S, \A x \in S : Online(h[x], field) \in Nat,
         NEW j, DOMAIN j = S, \A x \in S : Online(j[x], field) \in Nat,
         \A x \in S \ {c} : j[x] = h[x]
  PROVE  /\ SumOf(h, field) \in Nat /\ SumOf(j, field) \in Nat
         /\ SumOf(j, field) = SumOf(h, field) - Online(h[c], field) + Online(j[c], field)
<1> DEFINE f == [x \in S |-> Online(h[x], field)]
           e == [x \in S |-> Online(j[x], field)]
<1>1. Parts(f, h, field, S) /\ Parts(e, j, field, S) /\ f \in [S -> Nat] /\ e \in [S -> Nat]
  BY DEF Parts
<1>2. \A x \in S \ {c} : f[x] = e[x]
  OBVIOUS
<1>3. f[c] = Online(h[c], field) /\ e[c] = Online(j[c], field)
  OBVIOUS
<1> HIDE DEF f, e
<1>4. SumsTo(SumOf(h, field), f, S) /\ SumsTo(SumOf(j, field), e, S)
  BY <1>1, SumOfIs
<1> DEFINE v == SumOf(h, field)
           w == SumOf(j, field)
<1> HIDE DEF v, w
<1>5. v \in Nat /\ w \in Nat /\ w = v - f[c] + e[c]
  <2>1. SumsTo(v, f, S) /\ SumsTo(w, e, S)
    BY <1>4 DEF v, w
  <2> QED BY <1>1, <1>2, <2>1, SumMoved
<1> QED BY <1>3, <1>5 DEF v, w

\* The sums of the walk are naturals.
LEMMA SumOfType ==
  ASSUME NEW S, IsFiniteSet(S), NEW field,
         NEW h, DOMAIN h = S, \A x \in S : Online(h[x], field) \in Nat
  PROVE  SumOf(h, field) \in Nat
<1> DEFINE f == [x \in S |-> Online(h[x], field)]
<1>1. Parts(f, h, field, S)
  BY DEF Parts
<1> HIDE DEF f
<1>2. SumsTo(SumOf(h, field), f, S)
  BY <1>1, SumOfIs
<1> QED BY <1>2 DEF SumsTo

-----------------------------------------------------------------------------
(* The inductive invariant.                                                  *)

\* The events of c that side s has been through, and the updates among them.
Seen(s, c)    == {i \in DOMAIN log : log[i].chan = c /\ i <= pos[s]}
SeenUpd(s, c) == {i \in Seen(s, c) : log[i].type = "update"}

Owners(c) == {s \in Sides : c \in chans[s]}

\* What the events R, or the updates U among them, make of c.
OnlineBy(c, R) == IF R = {} THEN first[c].online ELSE log[Max(R)].type # "offline"
BalanceBy(c, U) == IF U = {} THEN first[c] ELSE log[Max(U)].bal

\* A self pair goes through every event twice, first as A's and then, after
\* all of A's events of the same time, as B's: in between the copies of a
\* channel's state may be behind.  They are right when both sides have been
\* through the same events of the channel.
OnlineFollows(x, c) ==
  (\A s, r \in Owners(c) : Seen(s, c) = Seen(r, c)) =>
    states[x][c].online = OnlineBy(c, Seen(x, c))

BalanceFollows(x, c) ==
  (\A s, r \in Owners(c) : SeenUpd(s, c) = SeenUpd(r, c)) =>
    /\ states[x][c].local  = BalanceBy(c, SeenUpd(x, c)).local
    /\ states[x][c].remote = BalanceBy(c, SeenUpd(x, c)).remote

States == [online : BOOLEAN, local : Nat, remote : Nat]

InputOK ==
  /\ chans \in [Sides -> SUBSET Chans] /\ floor \in Int
  /\ log \in Logs /\ first \in [Chans -> InitialStates]

StatesOK ==
  /\ \A x \in Sides : states[x] \in [chans[x] -> States]
  /\ sums = [x \in Sides |-> [local  |-> SumOf(states[x], "local"),
                              remote |-> SumOf(states[x], "remote")]]
  /\ \A x \in Sides : \A c \in chans[x] : OnlineFollows(x, c) /\ BalanceFollows(x, c)

\* What has been gone through is no later, and what is left no earlier, than
\* lastTimestamp.
Merged ==
  /\ pos \in [Sides -> 0..Len(log)] /\ last \in StartTime..EndTime /\ done \in BOOLEAN
  /\ \A x \in Sides : \A i \in slice(x) :
       /\ i <= pos[x] => log[i].ts <= last
       /\ i > pos[x] => log[i].ts >= last
  /\ done => Rest("A") = {} /\ Rest("B") = {}

\* The seconds before a time during which a direction could forward.
Good(t, d)   == Qualifies(Liquidity(SumsAt(t), d))
GoodIn(a, b, d) == {t \in a..(b - 1) : Good(t, d)}

Counted ==
  uptime = [d \in Directions |->
              Cardinality(GoodIn(StartTime, IF done THEN EndTime ELSE last, d))]

WalkInv == InputOK /\ StatesOK /\ Merged /\ Counted

-----------------------------------------------------------------------------
(* What is known of the log. *)

\* Events of the log have their type, and are in the order of their times.
LEMMA LogFacts ==
  ASSUME InputOK
  PROVE  /\ Len(log) \in Nat /\ DOMAIN log = 1..Len(log)
         /\ \A i \in DOMAIN log :
              /\ log[i].chan \in Chans /\ log[i].ts \in StartTime..(EndTime - 1)
              /\ log[i].type \in {"online", "offline", "update"}
              /\ log[i].type = "update" => log[i].bal \in [local : Nat, remote : Nat]
         /\ \A i, j \in DOMAIN log : i <= j => log[i].ts <= log[j].ts
<1>1. PICK n \in 0..MaxLog : log \in [1..n -> Events]
  BY DEF InputOK, Logs
<1>2. n \in Nat /\ DOMAIN log = 1..n
  BY <1>1, WalkAssumption
<1>3. Len(log) = n
  <2>1. log \in Seq(Events)
    BY <1>1, <1>2
  <2> QED BY <1>2, <2>1
<1>4. ASSUME NEW i \in DOMAIN log
      PROVE  /\ log[i].chan \in Chans /\ log[i].ts \in StartTime..(EndTime - 1)
             /\ log[i].type \in {"online", "offline", "update"}
             /\ log[i].type = "update" => log[i].bal \in [local : Nat, remote : Nat]
  <2>1. log[i] \in Events
    BY <1>1, <1>2
  <2> QED BY <2>1, WalkAssumption DEF Events
<1>5. ASSUME NEW i \in DOMAIN log, NEW j \in DOMAIN log, i <= j
      PROVE  log[i].ts <= log[j].ts
  <2>1. i < j => log[i].ts <= log[j].ts
    BY DEF InputOK, Logs
  <2>2. i \in Int /\ j \in Int /\ log[i].ts \in Int
    BY <1>2, <1>4, WalkAssumption
  <2> QED BY <1>5, <2>1, <2>2
<1> QED BY <1>2, <1>3, <1>4, <1>5

\* The least element of a set of integers, once found ...
LEMMA MinIs ==
  ASSUME NEW R, R \subseteq Int, NEW m \in R, \A i \in R : m <= i
  PROVE  Min(R) = m
<1>1. Min(R) \in R /\ \A y \in R : Min(R) =< y
  BY DEF Min
<1>2. Min(R) \in Int /\ m \in Int /\ Min(R) <= m /\ m <= Min(R)
  BY <1>1
<1> QED BY <1>2

\* ... and the greatest.
LEMMA MaxIs ==
  ASSUME NEW R, R \subseteq Int, NEW m \in R, \A i \in R : i <= m
  PROVE  Max(R) = m
<1>1. \E x \in R : \A y \in R : x >= y
  OBVIOUS
<1>2. Max(R) \in R /\ \A y \in R : Max(R) >= y
  BY <1>1 DEF Max
<1>3. Max(R) \in Int /\ m \in Int /\ Max(R) <= m /\ m <= Max(R)
  BY <1>2
<1> QED BY <1>3

\* mergeEventSlices yields the earliest event left.
LEMMA FrontFacts ==
  ASSUME InputOK, Merged, Left("A") \/ Left("B"), NEW s, s = NextSide, NEW k, k = Front(s)
  PROVE  /\ s \in Sides /\ k \in Rest(s)
         /\ \A i \in Rest(s) : k <= i
         /\ \A x \in Sides : \A i \in Rest(x) : log[k].ts <= log[i].ts
<1>1. ASSUME NEW x \in Sides, Left(x)
      PROVE  /\ Front(x) \in Rest(x)
             /\ \A i \in Rest(x) : Front(x) <= i /\ log[Front(x)].ts <= log[i].ts
  <2>1. Rest(x) \in SUBSET Nat /\ Rest(x) # {} /\ Rest(x) \subseteq DOMAIN log
    BY <1>1, LogFacts DEF Rest, slice, Left
  <2>2. PICK m \in Rest(x) : \A i \in Rest(x) : m <= i
    BY <2>1, LeastNatural
  <2>3. Front(x) = m
    BY <2>1, <2>2, MinIs DEF Front
  <2> QED BY <2>1, <2>2, <2>3, LogFacts
<1>2. s \in Sides /\ Left(s)
  BY DEF NextSide, Sides
<1>3. k \in Rest(s) /\ \A i \in Rest(s) : k <= i /\ log[k].ts <= log[i].ts
  BY <1>1, <1>2
<1>4. ASSUME NEW x \in Sides, NEW i \in Rest(x) PROVE log[k].ts <= log[i].ts
  <2>1. Left(x) /\ Front(x) \in DOMAIN log /\ i \in DOMAIN log /\ k \in DOMAIN log
    BY <1>1, <1>3, <1>4 DEF Left, Rest, slice
  <2>2. log[Front(x)].ts <= log[i].ts
    BY <1>1, <2>1
  <2>3. log[k].ts \in Int /\ log[i].ts \in Int /\ log[Front(x)].ts \in Int
    BY <2>1, LogFacts, WalkAssumption
  <2>4. log[k].ts <= log[Front(x)].ts
    <3>1. CASE x = s
      BY <1>3, <2>1, <2>3, <3>1
    <3>2. CASE x # s
      <4>1. Left("A") /\ Left("B")
        BY <1>2, <2>1, <3>2 DEF Sides
      <4>2. /\ log[Front("A")].ts \in Int /\ log[Front("B")].ts \in Int
        <5>1. Front("A") \in DOMAIN log /\ Front("B") \in DOMAIN log
          BY <1>1, <4>1 DEF Sides, Rest, slice
        <5> QED BY <5>1, LogFacts, WalkAssumption
      <4> QED BY <1>2, <3>2, <4>1, <4>2 DEF NextSide, Sides
    <3> QED BY <3>1, <3>2
  <2> QED BY <2>2, <2>3, <2>4
<1> QED BY <1>2, <1>3, <1>4

-----------------------------------------------------------------------------
(* Between two events. *)

\* Until the next event, the walk's sums are those of the reference: every side
\* has been through the same events, which are all there are up to then.
LEMMA SumsRight ==
  ASSUME InputOK, StatesOK, Merged, NEW to \in Int, NEW t \in last..(to - 1),
         \A x \in Sides : \A i \in Rest(x) : to <= log[i].ts
  PROVE  SumsAt(t) = sums
<1>1. t \in Int /\ last <= t /\ t < to /\ last \in Int
  BY WalkAssumption DEF Merged
<1>2. ASSUME NEW x \in Sides, NEW c \in chans[x] PROVE Seen(x, c) = UpTo(c, t)
  <2>1. ASSUME NEW i \in DOMAIN log, log[i].chan = c
        PROVE  i <= pos[x] <=> log[i].ts <= t
    <3>1. i \in slice(x) /\ i \in Int /\ log[i].ts \in Int /\ pos[x] \in Int
      BY <2>1, LogFacts, WalkAssumption DEF slice, Merged
    <3>2. CASE i <= pos[x]
      BY <1>1, <3>1, <3>2 DEF Merged
    <3>3. CASE i > pos[x]
      <4>1. i \in Rest(x)
        BY <3>1, <3>3 DEF Rest
      <4>2. to <= log[i].ts
        BY <4>1
      <4> QED BY <1>1, <3>1, <3>3, <4>2
    <3> QED BY <3>1, <3>2, <3>3
  <2> QED BY <2>1 DEF Seen, UpTo
<1>3. ASSUME NEW x \in Sides, NEW c \in chans[x] PROVE states[x][c] = StateAt(c, t)
  <2>1. \A s \in Owners(c) : Seen(s, c) = UpTo(c, t)
    BY <1>2 DEF Owners
  <2>2. \A s \in Owners(c) : SeenUpd(s, c) = {i \in UpTo(c, t) : log[i].type = "update"}
    BY <2>1 DEF SeenUpd
  <2>3. x \in Owners(c)
    BY DEF Owners
  <2>4. OnlineFollows(x, c) /\ BalanceFollows(x, c)
    BY DEF StatesOK
  <2>5. states[x][c].online = OnlineBy(c, UpTo(c, t))
    BY <2>1, <2>3, <2>4 DEF OnlineFollows
  <2> DEFINE U == {i \in UpTo(c, t) : log[i].type = "update"}
  <2>6. /\ states[x][c].local = BalanceBy(c, U).local
        /\ states[x][c].remote = BalanceBy(c, U).remote
    BY <2>2, <2>3, <2>4 DEF BalanceFollows
  <2>7. states[x][c] \in States
    BY DEF StatesOK
  <2>8. states[x][c] = [online |-> states[x][c].online, local |-> states[x][c].local,
                        remote |-> states[x][c].remote]
    BY <2>7 DEF States
  <2>9. StateAt(c, t) = [online |-> OnlineBy(c, UpTo(c, t)), local |-> BalanceBy(c, U).local,
                         remote |-> BalanceBy(c, U).remote]
    BY DEF StateAt, OnlineBy, BalanceBy
  <2> QED BY <2>5, <2>6, <2>8, <2>9
<1>4. ASSUME NEW x \in Sides PROVE [c \in chans[x] |-> StateAt(c, t)] = states[x]
  <2>1. states[x] \in [chans[x] -> States]
    BY DEF StatesOK
  <2> QED BY <1>3, <2>1
<1>5. ASSUME NEW x \in Sides PROVE SumsAt(t)[x] = sums[x]
  <2>1. SumsAt(t)[x] = [local  |-> SumOf([c \in chans[x] |-> StateAt(c, t)], "local"),
                        remote |-> SumOf([c \in chans[x] |-> StateAt(c, t)], "remote")]
    BY DEF SumsAt
  <2> QED BY <1>4, <2>1 DEF StatesOK
<1>6. SumsAt(t) = [x \in Sides |-> SumsAt(t)[x]]
  BY DEF SumsAt
<1>7. sums = [x \in Sides |-> sums[x]]
  BY DEF StatesOK
<1> QED BY <1>5, <1>6, <1>7

\* Seconds are counted interval by interval.
LEMMA CountSplit ==
  ASSUME NEW a \in Int, NEW b \in Int, NEW c \in Int, a <= b, b <= c, NEW d
  PROVE  /\ Cardinality(GoodIn(a, b, d)) \in Nat /\ Cardinality(GoodIn(b, c, d)) \in Nat
         /\ Cardinality(GoodIn(a, c, d)) = Cardinality(GoodIn(a, b, d)) + Cardinality(GoodIn(b, c, d))
<1>1. IsFiniteSet(GoodIn(a, b, d)) /\ IsFiniteSet(GoodIn(b, c, d))
  <2>1. IsFiniteSet(a..(b - 1)) /\ IsFiniteSet(b..(c - 1))
    BY FS_Interval
  <2>2. GoodIn(a, b, d) \subseteq a..(b - 1) /\ GoodIn(b, c, d) \subseteq b..(c - 1)
    BY DEF GoodIn
  <2> QED BY <2>1, <2>2, FS_Subset
<1>2. GoodIn(a, c, d) = GoodIn(a, b, d) \cup GoodIn(b, c, d)
  BY DEF GoodIn
<1>3. GoodIn(a, b, d) \cap GoodIn(b, c, d) = {}
  BY DEF GoodIn
<1>4. /\ Cardinality(GoodIn(a, b, d)) \in Nat /\ Cardinality(GoodIn(b, c, d)) \in Nat
  BY <1>1, FS_CardinalityType
<1>5. Cardinality(GoodIn(a, b, d) \cup GoodIn(b, c, d))
        = Cardinality(GoodIn(a, b, d)) + Cardinality(GoodIn(b, c, d))
          - Cardinality(GoodIn(a, b, d) \cap GoodIn(b, c, d))
  BY <1>1, FS_Union
<1>6. Cardinality(GoodIn(a, b, d) \cap GoodIn(b, c, d)) = 0
  BY <1>3, FS_EmptySet
<1> QED BY <1>2, <1>4, <1>5, <1>6

\* accumulate adds the seconds since lastTimestamp during which the direction
\* could forward.
LEMMA AccumulateExact ==
  ASSUME WalkInv, ~done, NEW to \in Int, last <= to, accumulate(to - last),
         \A x \in Sides : \A i \in Rest(x) : to <= log[i].ts
  PROVE  uptime' = [d \in Directions |-> Cardinality(GoodIn(StartTime, to, d))]
<1>1. uptime' = [d \in Directions |-> uptime'[d]]
  BY DEF accumulate
<1>2. StartTime \in Int /\ last \in Int /\ StartTime <= last
  BY WalkAssumption DEF WalkInv, Merged
<1>3. ASSUME NEW d \in Directions PROVE uptime'[d] = Cardinality(GoodIn(StartTime, to, d))
  <2>1. uptime[d] = Cardinality(GoodIn(StartTime, last, d))
    BY DEF WalkInv, Counted
  <2>2. /\ uptime[d] \in Nat
        /\ Cardinality(GoodIn(StartTime, to, d)) = uptime[d] + Cardinality(GoodIn(last, to, d))
    BY <1>2, <2>1, CountSplit
  <2>3. uptime'[d] = IF to - last > 0 /\ Qualifies(Liquidity(sums, d))
                     THEN uptime[d] + (to - last) ELSE uptime[d]
    BY DEF accumulate
  <2>4. \A t \in last..(to - 1) : Good(t, d) <=> Qualifies(Liquidity(sums, d))
    BY SumsRight DEF Good, WalkInv
  <2>5. CASE Qualifies(Liquidity(sums, d))
    <3>1. GoodIn(last, to, d) = last..(to - 1)
      BY <2>4, <2>5 DEF GoodIn
    <3>2. Cardinality(last..(to - 1)) = to - last
      BY <1>2, FS_Interval
    <3> QED BY <1>2, <2>2, <2>3, <2>5, <3>1, <3>2
  <2>6. CASE ~Qualifies(Liquidity(sums, d))
    <3>1. GoodIn(last, to, d) = {}
      BY <2>4, <2>6 DEF GoodIn
    <3>2. Cardinality(GoodIn(last, to, d)) = 0
      BY <3>1, FS_EmptySet
    <3> QED BY <2>2, <2>3, <2>6, <3>2
  <2> QED BY <2>5, <2>6
<1> QED BY <1>1, <1>3

\* The reference depends on the input only.
LEMMA GoodUnchanged ==
  ASSUME UNCHANGED input
  PROVE  \A t, d : Good(t, d)' <=> Good(t, d)
BY DEF input, Good, Qualifies, Liquidity, SumsAt, StateAt, UpTo

-----------------------------------------------------------------------------
(* One event of the walk. *)

\* The copies of the states, and the sums, after an event.
LEMMA WalkTypes ==
  ASSUME InputOK, StatesOK, Merged, Walk, NEW s, s = NextSide, NEW k, k = Front(s)
  PROVE  /\ \A x \in Sides : states'[x] \in [chans[x] -> States]
         /\ sums' = [x \in Sides |-> [local  |-> SumOf(states'[x], "local"),
                                      remote |-> SumOf(states'[x], "remote")]]
         /\ \A x \in Sides : \A c \in chans[x] :
              states'[x][c] = IF c = log[k].chan THEN applyEvent(states[x][c], log[k])
                              ELSE states[x][c]
<1> DEFINE e == log[k]
<1>1. k \in DOMAIN log
  BY FrontFacts DEF Walk, Rest, slice
<1>2. /\ e.type \in {"online", "offline", "update"}
      /\ e.type = "update" => e.bal \in [local : Nat, remote : Nat]
  BY <1>1, LogFacts
<1>3. /\ states' = [x \in Sides |->
           IF e.chan \in chans[x]
           THEN [states[x] EXCEPT ![e.chan] = applyEvent(states[x][e.chan], e)] ELSE states[x]]
      /\ sums' = [x \in Sides |->
           IF e.chan \in chans[x]
           THEN [local |-> Moved(x, e, "local"), remote |-> Moved(x, e, "remote")]
           ELSE sums[x]]
  BY DEF Walk
<1> HIDE DEF e
<1>4. ASSUME NEW st \in States PROVE applyEvent(st, e) \in States
  <2>1. CASE e.type = "online" BY <2>1 DEF applyEvent, States
  <2>2. CASE e.type = "offline" BY <2>2 DEF applyEvent, States
  <2>3. CASE e.type = "update" BY <1>2, <2>3 DEF applyEvent, States
  <2> QED BY <1>2, <2>1, <2>2, <2>3
<1>5. ASSUME NEW x \in Sides
      PROVE  /\ states'[x] \in [chans[x] -> States]
             /\ \A c \in chans[x] :
                  states'[x][c] = IF c = e.chan THEN applyEvent(states[x][c], e)
                                  ELSE states[x][c]
  <2>1. states[x] \in [chans[x] -> States]
    BY DEF StatesOK
  <2>2. states'[x] = IF e.chan \in chans[x]
                     THEN [states[x] EXCEPT ![e.chan] = applyEvent(states[x][e.chan], e)]
                     ELSE states[x]
    BY <1>3
  <2> QED BY <1>4, <2>1, <2>2
<1>6. \A st \in States : Online(st, "local") \in Nat /\ Online(st, "remote") \in Nat
  BY DEF States, Online
<1>7. ASSUME NEW x \in Sides
      PROVE  sums'[x] = [local  |-> SumOf(states'[x], "local"),
                         remote |-> SumOf(states'[x], "remote")]
  <2>1. sums[x] = [local  |-> SumOf(states[x], "local"), remote |-> SumOf(states[x], "remote")]
    BY DEF StatesOK
  <2>2. CASE e.chan \notin chans[x]
    BY <1>3, <2>1, <2>2
  <2>3. CASE e.chan \in chans[x]
    <3>1. IsFiniteSet(chans[x])
      BY WalkAssumption, FS_Subset DEF InputOK
    <3>2. states[x] \in [chans[x] -> States] /\ states'[x] \in [chans[x] -> States]
      BY <1>5 DEF StatesOK
    <3>3. ASSUME NEW field \in {"local", "remote"}
          PROVE  SumOf(states'[x], field) = Moved(x, e, field)
      <4>1. /\ \A c \in chans[x] : Online(states[x][c], field) \in Nat
            /\ \A c \in chans[x] : Online(states'[x][c], field) \in Nat
            /\ \A c \in chans[x] \ {e.chan} : states'[x][c] = states[x][c]
            /\ DOMAIN states[x] = chans[x] /\ DOMAIN states'[x] = chans[x]
        BY <1>5, <1>6, <3>2
      <4>2. SumOf(states'[x], field) = SumOf(states[x], field)
              - Online(states[x][e.chan], field) + Online(states'[x][e.chan], field)
        BY <2>3, <3>1, <4>1, SumOfMoved
      <4>3. sums[x][field] = SumOf(states[x], field)
        BY <2>1
      <4> QED BY <1>5, <2>3, <4>2, <4>3 DEF Moved
    <3> QED BY <1>3, <2>3, <3>3
  <2> QED BY <2>2, <2>3
<1>8. sums' = [x \in Sides |-> sums'[x]]
  BY <1>3
<1> QED BY <1>5, <1>7, <1>8 DEF e

\* What each side has been through after an event.
LEMMA WalkSeen ==
  ASSUME InputOK, Merged, Walk, NEW s, s = NextSide, NEW k, k = Front(s)
  PROVE  /\ pos' = [pos EXCEPT ![s] = k] /\ UNCHANGED <<input, done>> /\ last' = log[k].ts
         /\ \A c : \A x \in Owners(c) :
              Seen(x, c)' = IF x = s /\ c = log[k].chan THEN Seen(x, c) \cup {k} ELSE Seen(x, c)
<1>1. /\ s \in Sides /\ k \in DOMAIN log /\ k > pos[s] /\ log[k].chan \in chans[s]
      /\ \A i \in slice(s) : i > pos[s] => k <= i
  BY FrontFacts DEF Walk, Rest, slice
<1>2. pos' = [pos EXCEPT ![s] = k] /\ UNCHANGED <<input, done>> /\ last' = log[k].ts
  BY DEF Walk
<1>3. ASSUME NEW c, NEW x \in Owners(c)
      PROVE  Seen(x, c)' = IF x = s /\ c = log[k].chan THEN Seen(x, c) \cup {k} ELSE Seen(x, c)
  <2>1. x \in Sides /\ pos \in [Sides -> 0..Len(log)] /\ Len(log) \in Nat /\ DOMAIN log = 1..Len(log)
    BY LogFacts DEF Owners, Merged
  <2>2. log' = log
    BY <1>2 DEF input
  <2>3. CASE x # s
    BY <1>1, <1>2, <2>1, <2>2, <2>3 DEF Seen
  <2>4. CASE x = s
    <3>1. pos'[s] = k
      BY <1>1, <1>2, <2>1
    <3>2. ASSUME NEW i \in DOMAIN log, log[i].chan = c
          PROVE  i <= k <=> i <= pos[s] \/ i = k
      <4>1. i \in slice(s)
        BY <2>4, <3>2 DEF slice, Owners
      <4>2. i \in Int /\ k \in Int /\ pos[s] \in Int
        BY <1>1, <2>1
      <4> QED BY <1>1, <4>1, <4>2
    <3> QED BY <1>1, <2>2, <2>4, <3>1, <3>2 DEF Seen
  <2> QED BY <2>3, <2>4
<1> QED BY <1>2, <1>3

\* A channel whose owners have been through the same events after this one has
\* the state the last of them, this one, made it.
LEMMA WalkFollows ==
  ASSUME InputOK, StatesOK, Merged, Walk, NEW s, s = NextSide, NEW k, k = Front(s),
         NEW e, e = log[k]
  PROVE  \A x \in Sides : \A c \in chans[x] : OnlineFollows(x, c)' /\ BalanceFollows(x, c)'
<1>1. /\ s \in Sides /\ k \in DOMAIN log /\ k > pos[s] /\ e.chan \in chans[s]
  BY FrontFacts DEF Walk, Rest, slice
<1>2. /\ \A x \in Sides : \A c \in chans[x] :
           states'[x][c] = IF c = e.chan THEN applyEvent(states[x][c], e) ELSE states[x][c]
      /\ \A x \in Sides : states[x] \in [chans[x] -> States]
  BY WalkTypes DEF StatesOK
<1>3. /\ chans' = chans /\ log' = log /\ first' = first
      /\ \A c : \A x \in Owners(c) :
           Seen(x, c)' = IF x = s /\ c = e.chan THEN Seen(x, c) \cup {k} ELSE Seen(x, c)
  BY WalkSeen DEF input
<1>4. /\ e.type \in {"online", "offline", "update"} /\ DOMAIN log \subseteq Int
      /\ pos[s] \in Int
  BY <1>1, LogFacts DEF Merged
<1>5. \A c : Owners(c)' = Owners(c)
  BY <1>3 DEF Owners
<1>6. \A c : \A x \in Owners(c) :
         SeenUpd(x, c)' = IF x = s /\ c = e.chan /\ e.type = "update"
                          THEN SeenUpd(x, c) \cup {k} ELSE SeenUpd(x, c)
  <2> SUFFICES ASSUME NEW c, NEW x \in Owners(c)
               PROVE  SeenUpd(x, c)' = IF x = s /\ c = e.chan /\ e.type = "update"
                                       THEN SeenUpd(x, c) \cup {k} ELSE SeenUpd(x, c)
    OBVIOUS
  <2>1. SeenUpd(x, c)' = {i \in Seen(x, c)' : log[i].type = "update"}
    BY <1>3 DEF SeenUpd
  <2> QED BY <1>3, <2>1 DEF SeenUpd
<1>7. ASSUME NEW x \in Sides, NEW c \in chans[x], c # e.chan
      PROVE  OnlineFollows(x, c)' /\ BalanceFollows(x, c)'
  <2>1. /\ x \in Owners(c)
        /\ \A r \in Owners(c) : Seen(r, c)' = Seen(r, c) /\ SeenUpd(r, c)' = SeenUpd(r, c)
    BY <1>3, <1>6, <1>7 DEF Owners
  <2>2. states'[x][c] = states[x][c] /\ Owners(c)' = Owners(c)
    BY <1>2, <1>5, <1>7
  <2>3. OnlineFollows(x, c) /\ BalanceFollows(x, c)
    BY DEF StatesOK
  <2>4. OnlineBy(c, Seen(x, c))' = OnlineBy(c, Seen(x, c))
    BY <1>3, <2>1 DEF OnlineBy
  <2>5. BalanceBy(c, SeenUpd(x, c))' = BalanceBy(c, SeenUpd(x, c))
    BY <1>3, <2>1 DEF BalanceBy
  <2> QED BY <2>1, <2>2, <2>3, <2>4, <2>5 DEF OnlineFollows, BalanceFollows
<1>8. ASSUME NEW x \in Sides, NEW c \in chans[x], c = e.chan
      PROVE  OnlineFollows(x, c)' /\ BalanceFollows(x, c)'
  <2>1. x \in Owners(c) /\ s \in Owners(c) /\ Owners(c)' = Owners(c)
    BY <1>1, <1>5, <1>8 DEF Owners
  <2>2. states'[x][c] = applyEvent(states[x][c], e) /\ states[x][c] \in States
    BY <1>2, <1>8
  <2>3. Seen(s, c)' = Seen(s, c) \cup {k} /\ Seen(s, c) \subseteq {i \in Int : i <= k}
    BY <1>1, <1>3, <1>4, <1>8, <2>1 DEF Seen
  <2>4. Max(Seen(s, c)') = k
    BY <1>1, <1>4, <2>3, MaxIs
  <2>5. OnlineFollows(x, c)'
    <3> SUFFICES ASSUME (\A r, q \in Owners(c) : Seen(r, c) = Seen(q, c))'
                 PROVE  (states[x][c].online = OnlineBy(c, Seen(x, c)))'
      BY DEF OnlineFollows
    <3>1. Seen(x, c)' = Seen(s, c)'
      BY <2>1
    <3>2. OnlineBy(c, Seen(x, c))' = (e.type # "offline")
      BY <1>3, <2>3, <2>4, <3>1 DEF OnlineBy
    <3>3. applyEvent(states[x][c], e).online = (e.type # "offline")
      BY <1>4, <2>2 DEF applyEvent, States
    <3> QED BY <2>2, <3>2, <3>3
  <2>6. BalanceFollows(x, c)'
    <3> SUFFICES ASSUME (\A r, q \in Owners(c) : SeenUpd(r, c) = SeenUpd(q, c))'
                 PROVE  (/\ states[x][c].local  = BalanceBy(c, SeenUpd(x, c)).local
                         /\ states[x][c].remote = BalanceBy(c, SeenUpd(x, c)).remote)'
      BY DEF BalanceFollows
    <3>1. SeenUpd(x, c)' = SeenUpd(s, c)'
      BY <2>1
    <3>2. CASE e.type = "update"
      <4>1. SeenUpd(s, c)' = SeenUpd(s, c) \cup {k} /\ SeenUpd(s, c) \subseteq {i \in Int : i <= k}
        BY <1>6, <1>8, <2>1, <2>3, <3>2 DEF SeenUpd
      <4>2. Max(SeenUpd(s, c)') = k
        BY <1>1, <1>4, <4>1, MaxIs
      <4>3. BalanceBy(c, SeenUpd(x, c))' = e.bal
        BY <1>3, <3>1, <4>1, <4>2 DEF BalanceBy
      <4>4. /\ applyEvent(states[x][c], e).local = e.bal.local
            /\ applyEvent(states[x][c], e).remote = e.bal.remote
        BY <3>2 DEF applyEvent
      <4> QED BY <2>2, <4>3, <4>4
    <3>3. CASE e.type # "update"
      <4>1. \A r \in Owners(c) : SeenUpd(r, c)' = SeenUpd(r, c)
        BY <1>6, <3>3
      <4>2. BalanceFollows(x, c)
        BY DEF StatesOK
      <4>3. /\ states[x][c].local  = BalanceBy(c, SeenUpd(x, c)).local
            /\ states[x][c].remote = BalanceBy(c, SeenUpd(x, c)).remote
        BY <2>1, <4>1, <4>2 DEF BalanceFollows
      <4>4. BalanceBy(c, SeenUpd(x, c))' = BalanceBy(c, SeenUpd(x, c))
        BY <1>3, <2>1, <4>1 DEF BalanceBy
      <4>5. /\ applyEvent(states[x][c], e).local = states[x][c].local
            /\ applyEvent(states[x][c], e).remote = states[x][c].remote
        BY <1>4, <2>2, <3>3 DEF applyEvent, States
      <4> QED BY <2>2, <4>3, <4>4, <4>5
    <3> QED BY <3>2, <3>3
  <2> QED BY <2>5, <2>6
<1> QED BY <1>7, <1>8

\* The events left are still no earlier than lastTimestamp.
LEMMA WalkMerged ==
  ASSUME InputOK, Merged, Walk
  PROVE  Merged' /\ last <= last' /\ ~done
<1> DEFINE s == NextSide
           k == Front(s)
<1>1. /\ s \in Sides /\ k \in Rest(s) /\ \A i \in Rest(s) : k <= i
      /\ \A x \in Sides : \A i \in Rest(x) : log[k].ts <= log[i].ts
  BY FrontFacts DEF Walk
<1>2. pos' = [pos EXCEPT ![s] = k] /\ UNCHANGED <<input, done>> /\ last' = log[k].ts
  BY WalkSeen
<1>3. ~done
  BY DEF Walk, Merged, Left
<1> HIDE DEF s, k
<1>4. /\ k \in DOMAIN log /\ DOMAIN log = 1..Len(log) /\ Len(log) \in Nat
      /\ \A i \in DOMAIN log : log[i].ts \in StartTime..(EndTime - 1)
  BY <1>1, LogFacts DEF Rest, slice
<1>5. /\ last \in Int /\ pos \in [Sides -> 0..Len(log)] /\ done \in BOOLEAN
      /\ last <= log[k].ts
  <2>1. k \in slice(s) /\ k > pos[s]
    BY <1>1 DEF Rest
  <2> QED BY <1>1, <2>1, WalkAssumption DEF Merged
<1>6. \A x \in Sides : slice(x)' = slice(x)
  BY <1>2 DEF input, slice
<1>7. ASSUME NEW x \in Sides, NEW i \in slice(x)
      PROVE  /\ i <= pos'[x] => log[i].ts <= log[k].ts
             /\ i > pos'[x] => log[i].ts >= log[k].ts
  <2>1. i \in DOMAIN log /\ i \in Int /\ pos[x] \in Int /\ k \in Int
        /\ log[i].ts \in Int /\ log[k].ts \in Int
    BY <1>4, <1>5, WalkAssumption DEF slice
  <2>2. CASE i <= pos[x]
    <3>1. log[i].ts <= last
      BY <2>2 DEF Merged
    <3>2. i <= pos'[x] /\ pos'[x] \in Int
      <4>1. pos[x] <= pos'[x]
        BY <1>1, <1>2, <1>4, <1>5 DEF Rest
      <4>2. pos'[x] \in Int
        BY <1>2, <1>4, <1>5
      <4> QED BY <2>1, <2>2, <4>1, <4>2
    <3> QED BY <1>5, <2>1, <2>2, <3>1, <3>2
  <2>3. CASE i > pos[x]
    <3>1. i \in Rest(x)
      BY <2>3 DEF Rest
    <3>2. log[k].ts <= log[i].ts
      BY <1>1, <3>1
    <3>3. i <= pos'[x] => i = k
      BY <1>1, <1>2, <1>5, <2>1, <2>3, <3>1
    <3> QED BY <2>1, <3>2, <3>3
  <2> QED BY <2>1, <2>2, <2>3
<1>8. log[k].ts \in StartTime..EndTime
  BY <1>4, WalkAssumption
<1>9. pos' \in [Sides -> 0..Len(log)]
  BY <1>1, <1>2, <1>4, <1>5
<1>10. log' = log /\ done' = done
  BY <1>2 DEF input
<1>11. Merged'
  BY <1>2, <1>3, <1>5, <1>6, <1>7, <1>8, <1>9, <1>10 DEF Merged
<1> QED BY <1>2, <1>3, <1>5, <1>11

-----------------------------------------------------------------------------
(* The invariant, and the theorems. *)

\* Before the first event nothing is counted and every state is the first.
LEMMA InitWalkInv == Init => WalkInv
<1> SUFFICES ASSUME Init PROVE WalkInv
  OBVIOUS
<1>1. InputOK
  <2>1. PICK p \in Pairs : chans = [s \in Sides |-> IF s = "A" THEN p[1] ELSE p[2]]
    BY DEF Init
  <2>2. p \in (SUBSET Chans) \X (SUBSET Chans)
    BY WalkAssumption
  <2>3. p[1] \in SUBSET Chans /\ p[2] \in SUBSET Chans
    BY <2>2
  <2>4. chans \in [Sides -> SUBSET Chans]
    BY <2>1, <2>3
  <2> QED BY <2>4, WalkAssumption DEF Init, InputOK
<1>2. /\ pos = [s \in Sides |-> 0] /\ last = StartTime /\ done = FALSE
      /\ states = [s \in Sides |-> [c \in chans[s] |-> first[c]]]
      /\ uptime = [d \in Directions |-> 0]
  BY DEF Init
<1>3. \A x \in Sides : \A c \in chans[x] : first[c] \in States
  BY <1>1, WalkAssumption DEF InputOK, States
<1>4. \A c : \A x \in Sides : Seen(x, c) = {} /\ SeenUpd(x, c) = {}
  BY <1>1, <1>2, LogFacts DEF Seen, SeenUpd
<1>5. StatesOK
  <2>1. ASSUME NEW x \in Sides PROVE states[x] \in [chans[x] -> States]
    BY <1>2, <1>3
  <2>2. ASSUME NEW x \in Sides, NEW c \in chans[x]
        PROVE  OnlineFollows(x, c) /\ BalanceFollows(x, c)
    <3>1. states[x][c] = first[c]
      BY <1>2
    <3> QED BY <1>4, <3>1 DEF OnlineFollows, BalanceFollows, OnlineBy, BalanceBy
  <2>3. sums = [x \in Sides |-> [local  |-> SumOf(states[x], "local"),
                                 remote |-> SumOf(states[x], "remote")]]
    BY DEF Init
  <2> QED BY <2>1, <2>2, <2>3 DEF StatesOK
<1>6. Merged
  <2>1. ASSUME NEW x \in Sides, NEW i \in slice(x)
        PROVE  ~(i <= pos[x]) /\ log[i].ts >= StartTime
    BY <1>1, <1>2, LogFacts, WalkAssumption DEF slice
  <2>2. pos \in [Sides -> 0..Len(log)]
    BY <1>1, <1>2, LogFacts
  <2>3. last \in StartTime..EndTime
    BY <1>2, WalkAssumption
  <2> QED BY <1>2, <2>1, <2>2, <2>3 DEF Merged
<1>7. Counted
  <2>1. ASSUME NEW d \in Directions PROVE Cardinality(GoodIn(StartTime, StartTime, d)) = 0
    <3>1. GoodIn(StartTime, StartTime, d) = {}
      BY WalkAssumption DEF GoodIn
    <3> QED BY <3>1, FS_EmptySet
  <2> QED BY <1>2, <2>1 DEF Counted
<1> QED BY <1>1, <1>5, <1>6, <1>7 DEF WalkInv

\* An event keeps the invariant.
LEMMA WalkWalkInv ==
  ASSUME WalkInv, Walk
  PROVE  WalkInv'
<1>1. PICK s : s = NextSide
  OBVIOUS
<1>2. PICK k : k = Front(s)
  OBVIOUS
<1>3. PICK e : e = log[k]
  OBVIOUS
<1>4. InputOK /\ StatesOK /\ Merged
  BY DEF WalkInv
<1>5. UNCHANGED <<input, done>> /\ last' = e.ts
  BY <1>1, <1>2, <1>3, <1>4, WalkSeen
<1>6. InputOK'
  BY <1>4, <1>5 DEF input, InputOK, Logs
<1>7. StatesOK'
  <2>1. /\ \A x \in Sides : states'[x] \in [chans[x] -> States]
        /\ sums' = [x \in Sides |-> [local  |-> SumOf(states'[x], "local"),
                                     remote |-> SumOf(states'[x], "remote")]]
    BY <1>1, <1>2, <1>4, WalkTypes
  <2>2. \A x \in Sides : \A c \in chans[x] : OnlineFollows(x, c)' /\ BalanceFollows(x, c)'
    BY <1>1, <1>2, <1>3, <1>4, WalkFollows
  <2> QED BY <1>5, <2>1, <2>2 DEF StatesOK, input
<1>8. Merged' /\ last <= e.ts /\ ~done
  BY <1>4, <1>5, WalkMerged
<1>9. Counted'
  <2>1. e.ts \in Int
    BY <1>5, <1>8, WalkAssumption DEF Merged
  <2>2. \A x \in Sides : \A i \in Rest(x) : e.ts <= log[i].ts
    BY <1>1, <1>2, <1>3, <1>4, FrontFacts DEF Walk
  <2>3. accumulate(e.ts - last)
    BY <1>1, <1>2, <1>3 DEF Walk
  <2>4. uptime' = [d \in Directions |-> Cardinality(GoodIn(StartTime, e.ts, d))]
    BY <1>8, <2>1, <2>2, <2>3, AccumulateExact
  <2>5. \A t, d : Good(t, d)' <=> Good(t, d)
    BY <1>5, GoodUnchanged
  <2>6. ~done'
    BY <1>5, <1>8
  <2>7. \A d : GoodIn(StartTime, e.ts, d) = {t \in StartTime..(e.ts - 1) : Good(t, d)'}
    BY <2>5 DEF GoodIn
  <2> QED BY <1>5, <2>4, <2>6, <2>7 DEF Counted, GoodIn
<1> QED BY <1>6, <1>7, <1>8, <1>9 DEF WalkInv

\* The last interval leaves the states alone.
LEMMA StatesUnchanged ==
  ASSUME StatesOK, UNCHANGED <<input, pos, states, sums>>
  PROVE  StatesOK'
<1>1. UNCHANGED <<chans, log, first, pos, states, sums>>
  BY DEF input
<1>2. \A c : \A x \in Sides : Seen(x, c)' = Seen(x, c) /\ SeenUpd(x, c)' = SeenUpd(x, c)
  BY <1>1 DEF Seen, SeenUpd
<1>3. \A c : Owners(c)' = Owners(c) /\ Owners(c) \subseteq Sides
  BY <1>1 DEF Owners
<1>4. ASSUME NEW x \in Sides, NEW c \in chans[x]
      PROVE  OnlineFollows(x, c)' /\ BalanceFollows(x, c)'
  <2>1. OnlineFollows(x, c) /\ BalanceFollows(x, c)
    BY DEF StatesOK
  <2>2. /\ OnlineBy(c, Seen(x, c))' = OnlineBy(c, Seen(x, c))
        /\ BalanceBy(c, SeenUpd(x, c))' = BalanceBy(c, SeenUpd(x, c))
    BY <1>1, <1>2 DEF OnlineBy, BalanceBy
  <2> QED BY <1>1, <1>2, <1>3, <2>1, <2>2 DEF OnlineFollows, BalanceFollows
<1> QED BY <1>1, <1>4 DEF StatesOK

\* The last interval keeps the invariant.
LEMMA FinishWalkInv ==
  ASSUME WalkInv, Finish
  PROVE  WalkInv'
<1>1. /\ ~done /\ Rest("A") = {} /\ Rest("B") = {} /\ done' = TRUE
      /\ accumulate(EndTime - last) /\ UNCHANGED <<input, pos, states, sums, last>>
  BY DEF Finish, Left
<1>2. InputOK /\ StatesOK /\ Merged
  BY DEF WalkInv
<1>3. InputOK'
  BY <1>1, <1>2 DEF input, InputOK, Logs
<1>4. StatesOK'
  BY <1>1, <1>2, StatesUnchanged
<1>5. Merged'
  BY <1>1, <1>2 DEF input, Merged, slice, Rest
<1>6. Counted'
  <2>1. EndTime \in Int /\ last <= EndTime
    BY <1>2, WalkAssumption DEF Merged
  <2>2. \A x \in Sides : \A i \in Rest(x) : EndTime <= log[i].ts
    BY <1>1 DEF Sides
  <2>3. uptime' = [d \in Directions |-> Cardinality(GoodIn(StartTime, EndTime, d))]
    BY <1>1, <2>1, <2>2, AccumulateExact
  <2>4. \A t, d : Good(t, d)' <=> Good(t, d)
    BY <1>1, GoodUnchanged
  <2>5. \A d : GoodIn(StartTime, EndTime, d) = {t \in StartTime..(EndTime - 1) : Good(t, d)'}
    BY <2>4 DEF GoodIn
  <2> QED BY <1>1, <2>3, <2>5 DEF Counted, GoodIn
<1> QED BY <1>3, <1>4, <1>5, <1>6 DEF WalkInv

\* The invariant always holds.
LEMMA WalkInvariance == Spec => []WalkInv
<1>1. ASSUME WalkInv, UNCHANGED vars PROVE WalkInv'
  <2>1. \A t, d : Good(t, d)' <=> Good(t, d)
    BY <1>1, GoodUnchanged DEF vars
  <2>2. Counted'
    BY <1>1, <2>1 DEF vars, WalkInv, Counted, GoodIn
  <2>3. InputOK' /\ Merged'
    BY <1>1 DEF vars, input, WalkInv, InputOK, Logs, Merged, slice, Rest
  <2>4. StatesOK'
    BY <1>1, StatesUnchanged DEF vars, WalkInv
  <2> QED BY <2>2, <2>3, <2>4 DEF WalkInv
<1>2. WalkInv /\ [Next]_vars => WalkInv'
  BY <1>1, WalkWalkInv, FinishWalkInv DEF Next
<1> QED BY <1>2, InitWalkInv, PTL DEF Spec

\* The walk's state keeps its types: in particular the running sums never go
\* below zero, although every event subtracts from them, and no direction is up
\* for longer than the window.
THEOREM WalkTypeCorrect == Spec => []TypeOK
<1>1. ASSUME WalkInv PROVE TypeOK
  <2>1. InputOK /\ StatesOK /\ Merged /\ Counted
    BY <1>1 DEF WalkInv
  <2>2. ASSUME NEW x \in Sides, NEW field \in {"local", "remote"}
        PROVE  SumOf(states[x], field) \in Nat
    <3>1. IsFiniteSet(chans[x])
      BY <2>1, WalkAssumption, FS_Subset DEF InputOK
    <3>2. states[x] \in [chans[x] -> States]
      BY <2>1 DEF StatesOK
    <3>3. \A c \in chans[x] : Online(states[x][c], field) \in Nat
      BY <3>2 DEF States, Online
    <3> QED BY <3>1, <3>2, <3>3, SumOfType
  <2>3. sums \in [Sides -> [local : Nat, remote : Nat]]
    BY <2>1, <2>2 DEF StatesOK
  <2>4. ASSUME NEW d \in Directions PROVE uptime[d] \in 0..(EndTime - StartTime)
    <3> DEFINE b == IF done THEN EndTime ELSE last
    <3>1. b \in StartTime..EndTime
      BY <2>1, WalkAssumption DEF Merged
    <3>2. uptime[d] = Cardinality(GoodIn(StartTime, b, d))
      BY <2>1 DEF Counted
    <3> HIDE DEF b
    <3>3. GoodIn(StartTime, b, d) \subseteq StartTime..(b - 1)
      BY DEF GoodIn
    <3>4. StartTime \in Int /\ b \in Int /\ EndTime \in Int /\ StartTime <= b /\ b <= EndTime
      BY <3>1, WalkAssumption
    <3>5. /\ IsFiniteSet(StartTime..(b - 1)) /\ Cardinality(StartTime..(b - 1)) = b - StartTime
      <4> DEFINE m == b - 1
      <4>1. m \in Int /\ m = b - 1
        BY <3>4
      <4> HIDE DEF m
      <4>2. IsFiniteSet(StartTime..m)
            /\ Cardinality(StartTime..m) = IF StartTime > m THEN 0 ELSE m - StartTime + 1
        BY <3>4, <4>1, FS_Interval
      <4>3. IF StartTime > m THEN b - StartTime = 0 ELSE m - StartTime + 1 = b - StartTime
        BY <3>4, <4>1
      <4> QED BY <4>1, <4>2, <4>3
    <3>6. /\ IsFiniteSet(GoodIn(StartTime, b, d))
          /\ Cardinality(GoodIn(StartTime, b, d)) <= b - StartTime
      BY <3>3, <3>5, FS_Subset
    <3>7. Cardinality(GoodIn(StartTime, b, d)) \in Nat
      BY <3>6, FS_CardinalityType
    <3> QED BY <3>2, <3>4, <3>6, <3>7
  <2>5. uptime \in [Directions -> 0..(EndTime - StartTime)]
    <3>1. uptime = [d \in Directions |-> uptime[d]]
      BY <2>1 DEF Counted
    <3> QED BY <2>4, <3>1
  <2> QED BY <2>1, <2>3, <2>5 DEF TypeOK, StatesOK, Merged, States
<1> QED BY <1>1, WalkInvariance, PTL

\* What calculateBothDirectionsUptime returns for a direction is the number of
\* seconds of the window during which the pair could have forwarded at least
\* the floor: for any two peers, the same one twice included, and any number
\* of channels and events, however their times tie and interleave.
THEOREM UptimeIsExact == Spec => []UptimeExact
<1>1. WalkInv => UptimeExact
  BY DEF WalkInv, Counted, UptimeExact, GoodIn, Good
<1> QED BY <1>1, WalkInvariance, PTL
=============================================================================
