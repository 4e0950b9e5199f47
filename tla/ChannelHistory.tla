--------------------------- MODULE ChannelHistory ---------------------------
(***************************************************************************)
(* The read side of the channel_events table: the queries of store.go and  *)
(* the reconstruction of a channel's state that analyzer.go builds on      *)
(* them, as operators over a table E (a set of event records).             *)
(*                                                                         *)
(* An event record is [id, chan, type, ts, bal].  "chan" is the channel    *)
(* point (the surrogate channel id is in bijection with it: channels are   *)
(* never deleted and channel_point is UNIQUE).  "bal" stands for the       *)
(* (local, remote) pair, which every writer sets together; NoBalance is    *)
(* the pair of NULLs of an online or offline event.  is_sync only labels a *)
(* row and is left out.                                                    *)
(***************************************************************************)
EXTENDS Integers, FiniteSets

CONSTANTS
  NoBalance,      \* the balances of a row that carries none
  ResidualLimit   \* residualEventLimit, 1024 in the code

ASSUME HistoryAssumption == ResidualLimit \in Nat \ {0}

EventTypes == {"online", "offline", "update"}

-----------------------------------------------------------------------------
(* store.go *)

\* GetChannelEvents selects before its LIMIT: rows of a channel with
\* id > after and start <= ts < end.
Matching(E, c, after, start, end) ==
  {e \in E : e.chan = c /\ e.id > after /\ start <= e.ts /\ e.ts < end}

\* ORDER BY id ASC LIMIT limit: a row is returned when fewer than limit
\* matching rows have a smaller id.
GetChannelEvents(E, c, after, start, end, limit) ==
  LET M == Matching(E, c, after, start, end)
  IN  {e \in M : Cardinality({f \in M : f.id < e.id}) < limit}

UpdatesBefore(E, c, before) ==
  {e \in E : e.chan = c /\ e.type = "update" /\ e.ts < before}

\* Mutant of NotAfter: ORDER BY timestamp alone.
NotAfterNoTieBreak(f, e) == f.ts <= e.ts

\* The row order of GetLatestChannelEventBefore (timestamp DESC, id DESC),
\* read as "f comes no later in time than e".
NotAfter(f, e) == f.ts < e.ts \/ (f.ts = e.ts /\ f.id <= e.id)

\* The empty set, or the one row the query returns.
GetLatestChannelUpdateBefore(E, c, before) ==
  {e \in UpdatesBefore(E, c, before) :
     \A f \in UpdatesBefore(E, c, before) : NotAfter(f, e)}

-----------------------------------------------------------------------------
(* analyzer.go, getInitialChannelState *)

\* A channel with no update before the window.
Unseeded == [err |-> FALSE, online |-> FALSE, bal |-> NoBalance]

Residual(E, c, seed, start) ==
  GetChannelEvents(E, c, seed.id, seed.ts, start, ResidualLimit)

\* Replaying the residual rows by ascending id: the last row that is not an
\* update decides, and the seed update itself implies online.
OnlineAfter(R) ==
  \A e \in R : (e.type # "update" /\ \A f \in R : f.type # "update" => f.id <= e.id)
                  => e.type = "online"

StateFrom(seed, R) ==
  [err    |-> \/ Cardinality(R) = ResidualLimit
              \/ \E e \in R : e.type = "update" /\ e.ts # seed.ts,
   online |-> OnlineAfter(R),
   bal    |-> seed.bal]

getInitialChannelState(E, c, start) ==
  LET Seeds == GetLatestChannelUpdateBefore(E, c, start)
      seed  == CHOOSE e \in Seeds : TRUE
  IN  IF Seeds = {} THEN Unseeded
      ELSE StateFrom(seed, Residual(E, c, seed, start))
=============================================================================
