----------------------------- MODULE UptimeWalk -----------------------------
(***************************************************************************)
(* The effective-uptime walk of chanevents/analyzer.go: for one pair of    *)
(* peers, mergeEventSlices interleaves the two peers' events and           *)
(* calculateBothDirectionsUptime keeps running sums of the online          *)
(* balances, adding an interval to a direction's uptime when the sums say  *)
(* that it could forward.  A self pair walks the same slice against itself *)
(* and so sees every event twice.                                          *)
(***************************************************************************)
EXTENDS Integers, Sequences, FiniteSets, FiniteSetsExt

CONSTANTS
  StartTime, EndTime,  \* the window [StartTime, EndTime)
  Chans,               \* channels
  Pairs,               \* pairs <<channels of peer A, channels of peer B>>
  Floors,              \* liquidity floors
  InitialStates,       \* states getInitialChannelState may return
  Snapshots,           \* [local, remote] an update may carry
  MaxLog               \* bound: events in the window

ASSUME WalkAssumption ==
  /\ StartTime \in Int /\ EndTime \in Int /\ StartTime <= EndTime
  /\ IsFiniteSet(Chans)
  /\ \A p \in Pairs : p \in (SUBSET Chans) \X (SUBSET Chans)
  /\ Floors \subseteq Int
  /\ InitialStates \subseteq [online : BOOLEAN, local : Nat, remote : Nat]
  /\ Snapshots \subseteq [local : Nat, remote : Nat]
  /\ MaxLog \in Nat

Sides == {"A", "B"}
Directions == {<<"A", "B">>, <<"B", "A">>}   \* <<incoming, outgoing>>

VARIABLES
  chans,   \* per side, the peer's channels
  floor,   \* liquidityFloor
  log,     \* the recorded events of the window, oldest first
  first,   \* per channel, the state when the window opens
  pos,     \* per side, how far its slice is read (i and j), as a position in the log
  states,  \* per side, the walk's copy of the channel states
  sums,    \* per side, the running sums of the online balances
  uptime,  \* per direction
  last,    \* lastTimestamp
  done

input == <<chans, floor, log, first>>
vars  == <<input, pos, states, sums, uptime, last, done>>

-----------------------------------------------------------------------------

\* What an event may be, and the logs the store may hold for the window: ids
\* are positions, so the order of ids is that of the timestamps.
Events ==
  [chan : Chans, type : {"online", "offline"}, ts : StartTime..(EndTime - 1)]
    \cup [chan : Chans, type : {"update"}, ts : StartTime..(EndTime - 1), bal : Snapshots]

Logs ==
  {l \in UNION {[1..n -> Events] : n \in 0..MaxLog} :
     \A i, j \in DOMAIN l : i < j => l[i].ts <= l[j].ts}

\* loadPeerEvents: a peer's events, sorted by timestamp and then id.  A slice is
\* the set of its positions in the log.
slice(s) == {i \in DOMAIN log : log[i].chan \in chans[s]}

\* A channel's part in its peer's sums.
Online(st, field) == IF st.online THEN st[field] ELSE 0

SumOf(stateOf, field) == MapThenSumSet(LAMBDA c : Online(stateOf[c], field), DOMAIN stateOf)

\* applyEvent: an update implies online and overwrites the balances.
applyEvent(st, e) ==
  CASE e.type = "offline" -> [st EXCEPT !.online = FALSE]
    [] e.type = "online"  -> [st EXCEPT !.online = TRUE]
    [] e.type = "update"  -> [online |-> TRUE, local |-> e.bal.local, remote |-> e.bal.remote]

\* Mutant of NextSide: one slice after the other instead of merged.
NextSideConcat == IF \E i \in slice("A") : i > pos["A"] THEN "A" ELSE "B"

\* mergeEventSlices: what is left of a slice, the first of it, and the side that
\* yields next.  A goes first on a tie.
Rest(s)  == {i \in slice(s) : i > pos[s]}
Left(s)  == Rest(s) # {}
Front(s) == Min(Rest(s))

NextSide ==
  IF Left("A") /\ Left("B")
  THEN IF log[Front("A")].ts > log[Front("B")].ts THEN "B" ELSE "A"
  ELSE IF Left("A") THEN "A" ELSE "B"

\* What a direction could forward, by sums of incoming and outgoing balances.
Liquidity(sm, d) == Min({sm[d[1]].remote, sm[d[2]].local})

Qualifies(liq) == liq >= floor /\ liq > 0

\* A side's sum after an event of one of its channels: the channel is taken
\* out, the event applied, and the channel put back.
Moved(s, e, field) ==
  sums[s][field] - Online(states[s][e.chan], field)
    + Online(applyEvent(states[s][e.chan], e), field)

accumulate(interval) ==
  uptime' = [d \in Directions |->
    IF interval > 0 /\ Qualifies(Liquidity(sums, d))
    THEN uptime[d] + interval ELSE uptime[d]]

-----------------------------------------------------------------------------

Init ==
  /\ \E p \in Pairs : chans = [s \in Sides |-> IF s = "A" THEN p[1] ELSE p[2]]
  /\ floor \in Floors
  /\ log \in Logs
  /\ first \in [Chans -> InitialStates]
  /\ pos = [s \in Sides |-> 0]
  /\ states = [s \in Sides |-> [c \in chans[s] |-> first[c]]]
  /\ sums = [s \in Sides |-> [local  |-> SumOf(states[s], "local"),
                              remote |-> SumOf(states[s], "remote")]]
  /\ uptime = [d \in Directions |-> 0]
  /\ last = StartTime
  /\ done = FALSE

\* One event of the merged stream: account for the time up to it, then apply
\* it to the states and the sums.
Walk ==
  /\ Left("A") \/ Left("B")
  /\ LET s == NextSide
         e == log[Front(s)]
     IN  /\ accumulate(e.ts - last)
         /\ states' = [x \in Sides |->
              IF e.chan \in chans[x]
              THEN [states[x] EXCEPT ![e.chan] = applyEvent(@, e)] ELSE states[x]]
         /\ sums' = [x \in Sides |->
              IF e.chan \in chans[x]
              THEN [local |-> Moved(x, e, "local"), remote |-> Moved(x, e, "remote")]
              ELSE sums[x]]
         /\ pos' = [pos EXCEPT ![s] = Front(s)]
         /\ last' = e.ts
  /\ UNCHANGED <<input, done>>

\* Mutant of Finish: the last interval is counted from the window's start.
FinishFromStart ==
  /\ ~done /\ ~Left("A") /\ ~Left("B")
  /\ accumulate(EndTime - StartTime)
  /\ done' = TRUE
  /\ UNCHANGED <<input, pos, states, sums, last>>

\* The interval after the last event.
Finish ==
  /\ ~done /\ ~Left("A") /\ ~Left("B")
  /\ accumulate(EndTime - last)
  /\ done' = TRUE
  /\ UNCHANGED <<input, pos, states, sums, last>>

Next == Walk \/ Finish

Spec == Init /\ [][Next]_vars

-----------------------------------------------------------------------------
(* Properties. *)

TypeOK ==
  /\ pos \in [Sides -> 0..Len(log)]
  /\ \A s \in Sides : states[s] \in [chans[s] -> [online : BOOLEAN, local : Nat, remote : Nat]]
  /\ sums \in [Sides -> [local : Nat, remote : Nat]]
  /\ uptime \in [Directions -> 0..(EndTime - StartTime)]
  /\ last \in StartTime..EndTime
  /\ done \in BOOLEAN

\* The reference: the state of a channel during the second that starts at t is
\* what the newest events up to t made it.
UpTo(c, t) == {i \in DOMAIN log : log[i].chan = c /\ log[i].ts <= t}

StateAt(c, t) ==
  LET all     == UpTo(c, t)
      updates == {i \in all : log[i].type = "update"}
      from    == IF updates = {} THEN first[c] ELSE log[Max(updates)].bal
  IN  [online |-> IF all = {} THEN first[c].online ELSE log[Max(all)].type # "offline",
       local  |-> from.local,
       remote |-> from.remote]

SumsAt(t) ==
  [s \in Sides |->
     LET at == [c \in chans[s] |-> StateAt(c, t)]
     IN  [local |-> SumOf(at, "local"), remote |-> SumOf(at, "remote")]]

\* When the walk ends, a direction's effective uptime is the number of seconds
\* of the window during which the pair could have forwarded at least the
\* floor, however the events of the two peers tie or interleave.
UptimeExact ==
  done => \A d \in Directions :
    uptime[d] = Cardinality({t \in StartTime..(EndTime - 1) : Qualifies(Liquidity(SumsAt(t), d))})
=============================================================================
