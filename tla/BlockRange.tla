----------------------------- MODULE BlockRange -----------------------------
(***************************************************************************)
(* The block heights a node audit asks lnd for (frdrpcserver/node_audit.go,*)
(* resolveBlockHeightRange): one binary search by block time for the start *)
(* of the window and one for its end, each moved outwards by a buffer,     *)
(* because the times of blocks are only roughly ascending.  Heights are    *)
(* unsigned: a search that goes below the first block wraps around, asks   *)
(* for a block nobody has, fails, and the audit reads all of the history   *)
(* (NewOnChainConfig).                                                     *)
(***************************************************************************)
EXTENDS Integers

CONSTANTS
  MaxHeight,   \* bound: the chain's last block
  Chains,      \* block times by height, blocks still to be mined included
  Skew,        \* by how much an earlier block's time may be the later one
  Buffer,      \* blockTimeRangeBuffer
  Wrap         \* 2^32

Heights == 0..MaxHeight

\* Times of blocks are positive, and out of order by less than the buffer.
ASSUME BlockAssumption ==
  /\ MaxHeight \in Nat /\ Wrap \in Nat /\ 2 * MaxHeight + 2 < Wrap
  /\ Skew \in Nat /\ Buffer \in Nat /\ Skew < Buffer
  /\ Chains \subseteq [Heights -> Nat \ {0}]
  /\ \A c \in Chains : \A i, j \in Heights : i < j => c[i] <= c[j] + Skew

VARIABLES
  blockTime,    \* the chain, a member of Chains
  tip,          \* blocks up to this height are mined
  latest,       \* info.BlockHeight, read before the searches
  win,          \* startTime and endTime of the audit
  search,       \* "idle", the search under way ("start", "end"), or "done"
  low, high,    \* its range
  startHeight,  \* what the first search found
  heights       \* the answer, [start, end]; end 0 is no upper limit

chain  == <<blockTime, tip>>
bsVars == <<latest, win, search, low, high, startHeight, heights>>

AllHistory == [start |-> 0, end |-> 0]

\* lnd's reading of the heights of ListTransactions (external).
Queried(h) == heights.start <= h /\ (heights.end = 0 \/ h <= heights.end)

InitRange ==
  /\ blockTime \in Chains
  /\ tip \in Heights
  /\ latest = 0 /\ win = [start |-> 0, end |-> 0]
  /\ search = "idle" /\ low = 0 /\ high = 0 /\ startHeight = 0
  /\ heights = AllHistory

\* A block is mined, at any moment (external).
Mine ==
  /\ tip < MaxHeight
  /\ tip' = tip + 1
  /\ UNCHANGED <<blockTime, bsVars>>

\* The audit of w; without a start or an end time there is nothing to look up.
BeginLookup(w, timeRangeSet) ==
  /\ search = "idle"
  /\ latest' = tip /\ win' = w
  /\ low' = 0 /\ high' = tip
  /\ search' = IF timeRangeSet THEN "start" ELSE "done"
  /\ heights' = AllHistory
  /\ UNCHANGED <<chain, startHeight>>

\* Mutant of Target: the window's end is not moved outwards.
TargetNoBuffer == IF search = "start"
                  THEN IF win.start < Buffer THEN 0 ELSE win.start - Buffer
                  ELSE win.end

\* bufferedStartTime, not before 1970, and bufferedEndTime.
Target == IF search = "start"
          THEN IF win.start < Buffer THEN 0 ELSE win.start - Buffer
          ELSE win.end + Buffer

\* A search returns h.
Found(h) ==
  IF search = "start"
  THEN /\ startHeight' = h
       /\ search' = "end" /\ low' = 0 /\ high' = latest
       /\ UNCHANGED heights
  ELSE /\ heights' = IF startHeight > h THEN AllHistory
                     ELSE [start |-> startHeight, end |-> h]
       /\ search' = "done"
       /\ UNCHANGED <<low, high, startHeight>>

\* A search fails: NewOnChainConfig reads everything.
FallBack ==
  /\ search' = "done" /\ heights' = AllHistory
  /\ UNCHANGED <<low, high, startHeight>>

Mid == ((low + high) % Wrap) \div 2

\* One turn of findFirstBlockBeforeTimestamp's loop, with its two calls.
Probe ==
  /\ search \in {"start", "end"}
  /\ low <= high
  /\ \/ Mid \notin 0..tip /\ FallBack
     \/ /\ Mid \in 0..tip /\ blockTime[Mid] < Target
        /\ low' = Mid + 1
        /\ UNCHANGED <<high, search, startHeight, heights>>
     \/ /\ Mid \in 0..tip /\ blockTime[Mid] > Target
        /\ high' = (Mid - 1) % Wrap
        /\ UNCHANGED <<low, search, startHeight, heights>>
     \/ Mid \in 0..tip /\ blockTime[Mid] = Target /\ Found(Mid)
  /\ UNCHANGED <<chain, latest, win>>

\* The loop ends: the closest block before the target.
Exhausted ==
  /\ search \in {"start", "end"}
  /\ low > high
  /\ Found(high)
  /\ UNCHANGED <<chain, latest, win>>

\* GetBlockHash or GetBlockHeader fails.
LookupFails ==
  /\ search \in {"start", "end"}
  /\ FallBack
  /\ UNCHANGED <<chain, latest, win>>

LookupStep == Probe \/ Exhausted \/ LookupFails

RangeNext ==
  \/ Mine
  \/ \E w \in [start : Nat, end : Nat], set \in BOOLEAN : BeginLookup(w, set)
  \/ LookupStep

RangeSpec == InitRange /\ [][RangeNext]_<<chain, bsVars>>

-----------------------------------------------------------------------------
(* Correctness. *)

\* RangeCovers: whatever the searches found, wherever they wrapped or failed,
\* a block known when the audit began and timed within its window is in the
\* heights it reads ("too large rather than too small, so that all relevant
\* transactions are fetched").
RangeCovers ==
  search = "done" =>
    \A h \in 0..latest :
      (win.start <= blockTime[h] /\ blockTime[h] < win.end) => Queried(h)
=============================================================================
