-------------------------- MODULE NodeAuditProofs ---------------------------
(***************************************************************************)
(* Facts about audits of every size.  The whole call, with everything lnd  *)
(* does meanwhile, only takes steps of BlockRange as far as heights are    *)
(* concerned, so its heights cover its window.  Every time of the window   *)
(* finds a price point no older than the granularity it asked for.  And    *)
(* the answer is followed back, through rpcReportResponse and the two      *)
(* reports, to the lists it was made from: the channel's transactions are  *)
(* recognised however it moves between the lists, the entries of a         *)
(* transaction add up to what it did to the wallet, an invoice is reported *)
(* once, and payments to ourselves, and only those, are circular.          *)
(***************************************************************************)
EXTENDS NodeAudit, CommonProofs, SequenceTheorems

-----------------------------------------------------------------------------
(* The search for the heights, for every chain whose blocks are out of order *)
(* by less than the buffer.  RangeInv says what its loop knows: the blocks   *)
(* just outside [low, high] are on the two sides of the target, or the range *)
(* has wrapped, and then its middle is beyond any block.                     *)

RangeType ==
  /\ blockTime \in Chains
  /\ tip \in Heights /\ latest \in 0..tip
  /\ win \in [start : Nat, end : Nat]
  /\ search \in {"idle", "start", "end", "done"}
  /\ low \in Nat /\ high \in Nat /\ startHeight \in Nat
  /\ heights \in [start : Nat, end : Nat]

Searching == search \in {"start", "end"}

Wrapped == low = 0 /\ high = Wrap - 1

Bracketed ==
  /\ low <= high + 1 /\ high <= latest
  /\ low > 0 => blockTime[low - 1] < Target
  /\ high < latest => blockTime[high + 1] > Target

StartFound == startHeight <= latest /\ blockTime[startHeight] + Buffer <= win.start

RangeInv ==
  /\ RangeType
  /\ Searching => Wrapped \/ Bracketed
  /\ search = "end" => StartFound
  /\ RangeCovers

\* Blocks are in order up to Skew, which is less than Buffer (what the code
\* relies on, comment at blockTimeRangeBuffer).
LEMMA ChainFacts ==
  ASSUME RangeType
  PROVE  /\ \A h \in Heights : blockTime[h] \in Nat /\ blockTime[h] > 0
         /\ \A i, j \in Heights : i < j => blockTime[i] <= blockTime[j] + Skew
         /\ Skew \in Nat /\ Buffer \in Nat /\ Skew < Buffer
         /\ tip \in Nat /\ latest \in Nat /\ latest <= tip /\ tip <= MaxHeight
         /\ win.start \in Nat /\ win.end \in Nat
         /\ MaxHeight \in Nat /\ Wrap \in Nat /\ 2 * MaxHeight + 2 < Wrap
         /\ Target \in Nat
  BY BlockAssumption DEF RangeType, Heights, Target

\* The sum of two heights does not wrap.
LEMMA SmallMod == \A a, b \in Nat : a < b => a % b = a
  OBVIOUS

\* What either search returns: a block not later than its target, after
\* which only blocks later than the target come at once.
Landed(h) ==
  /\ h \in 0..latest
  /\ blockTime[h] <= Target
  /\ h < latest => blockTime[h] = Target \/ blockTime[h + 1] > Target

\* The middle of a range that has not wrapped is a known block within it; the
\* middle of one that has is none (findFirstBlockBeforeTimestamp).
LEMMA MidFacts ==
  ASSUME RangeType, Wrapped \/ Bracketed, low <= high
  PROVE  /\ Mid \in 0..tip => Bracketed /\ low <= Mid /\ Mid <= high
         /\ Mid \in Nat
<1> USE ChainFacts DEF RangeType
<1>1. CASE Wrapped
  <2>1. Mid = (Wrap - 1) \div 2
    BY <1>1 DEF Wrapped, Mid
  <2>2. Mid \in Nat /\ Mid > tip
    BY <2>1, MaxHeight \in Nat
  <2> QED BY <2>2
<1>2. CASE Bracketed
  <2>1. low + high \in 0..(Wrap - 1)
    BY <1>2 DEF Bracketed
  <2>2. (low + high) % Wrap = low + high
    BY <2>1, SmallMod
  <2>3. Mid = (low + high) \div 2
    BY <2>2 DEF Mid
  <2> QED BY <1>2, <2>3 DEF Bracketed
<1> QED BY <1>1, <1>2

\* The answers of both searches cover the window (resolveBlockHeightRange).
LEMMA FoundCovers ==
  ASSUME RangeInv, Searching, NEW h, Landed(h), Found(h),
         UNCHANGED <<chain, latest, win>>
  PROVE  RangeInv'
<1> USE ChainFacts DEF RangeInv, RangeType, chain
<1>1. CASE search = "start"
  <2>1. /\ startHeight' = h /\ search' = "end" /\ low' = 0 /\ high' = latest
        /\ heights' = heights
    BY <1>1 DEF Found
  <2>2. StartFound'
    BY <1>1, <2>1 DEF Landed, Target, StartFound, Heights
  <2>3. Bracketed' /\ RangeCovers'
    BY <2>1 DEF Bracketed, RangeCovers
  <2>4. RangeType'
    BY <2>1 DEF Landed
  <2> QED BY <2>1, <2>2, <2>3, <2>4 DEF Searching
<1>2. CASE search = "end"
  <2>1. /\ heights' = IF startHeight > h THEN AllHistory
                      ELSE [start |-> startHeight, end |-> h]
        /\ search' = "done" /\ low' = low /\ high' = high /\ startHeight' = startHeight
    BY <1>2 DEF Found
  <2>2. RangeType'
    BY <2>1 DEF Landed, AllHistory
  <2>3. ASSUME NEW i \in 0..latest, win.start <= blockTime[i], blockTime[i] < win.end
        PROVE  Queried(i)'
    <3>1. i \in Heights /\ h \in Heights /\ startHeight \in Heights /\ i \in Nat /\ h \in Nat
      BY <1>2 DEF Landed, StartFound, Heights
    <3>2. startHeight <= i
      <4> SUFFICES ASSUME i < startHeight PROVE FALSE
        BY <3>1
      <4>1. blockTime[i] <= blockTime[startHeight] + Skew
        BY <3>1
      <4>2. blockTime[startHeight] + Buffer <= win.start
        BY <1>2 DEF StartFound
      <4> QED BY <2>3, <3>1, <4>1, <4>2
    <3>3. i <= h
      <4> SUFFICES ASSUME h < i PROVE FALSE
        BY <3>1
      <4>1. Target = win.end + Buffer
        BY <1>2 DEF Target
      <4>2. blockTime[h] <= blockTime[i] + Skew
        BY <3>1
      <4>3. h + 1 \in Heights /\ h < latest
        BY <3>1 DEF Heights
      <4>4. h + 1 < i => blockTime[h + 1] <= blockTime[i] + Skew
        BY <3>1, <4>3
      <4>5. blockTime[h] = Target \/ blockTime[h + 1] > Target
        BY <4>3 DEF Landed
      <4>6. h + 1 = i \/ h + 1 < i
        BY <3>1
      <4>7. blockTime[i] \in Nat /\ blockTime[h + 1] \in Nat
        BY <3>1, <4>3
      <4>8. blockTime[h + 1] <= blockTime[i] + Skew
        BY <4>4, <4>6, <4>7
      <4> QED BY <2>3, <3>1, <4>1, <4>2, <4>5, <4>7, <4>8
    <3> QED BY <2>1, <3>1, <3>2, <3>3 DEF Queried, AllHistory
  <2>4. RangeCovers'
    BY <2>3 DEF RangeCovers
  <2> QED BY <2>1, <2>2, <2>4 DEF Searching
<1> QED BY <1>1, <1>2 DEF Searching

\* A failed search reads everything (NewOnChainConfig).
LEMMA FallBackCovers ==
  ASSUME RangeInv, FallBack, UNCHANGED <<chain, latest, win>>
  PROVE  RangeInv'
BY DEF RangeInv, RangeType, FallBack, AllHistory, RangeCovers, Queried, Searching, chain

\* A turn of the loop keeps the target bracketed, returns, or fails.
LEMMA ProbeCovers ==
  ASSUME RangeInv, Probe
  PROVE  RangeInv'
<1> USE DEF RangeInv
<1> Searching /\ low <= high /\ UNCHANGED <<chain, latest, win>>
  BY DEF Probe, Searching
<1>1. CASE Mid \notin 0..tip
  BY <1>1, FallBackCovers DEF Probe
<1>2. CASE Mid \in 0..tip
  <2>1. Bracketed /\ low <= Mid /\ Mid <= high /\ Mid \in 0..latest /\ Mid \in Nat
    BY <1>2, MidFacts, ChainFacts DEF RangeType, Bracketed
  <2>2. blockTime[Mid] \in Nat /\ Target \in Nat
    BY <2>1, ChainFacts DEF Heights
  <2>3. CASE blockTime[Mid] < Target
    <3>1. /\ low' = Mid + 1
          /\ UNCHANGED <<high, search, startHeight, heights, blockTime, tip, latest, win>>
      BY <1>2, <2>2, <2>3 DEF Probe, chain
    <3>2. Target' = Target /\ RangeType'
      BY <2>1, <3>1 DEF Target, RangeType
    <3>3. Bracketed'
      BY <2>1, <2>3, <3>1, <3>2, ChainFacts DEF Bracketed, RangeType
    <3> QED BY <3>1, <3>2, <3>3 DEF Searching, StartFound, RangeCovers, Queried
  <2>4. CASE blockTime[Mid] > Target
    <3>1. /\ high' = (Mid - 1) % Wrap
          /\ UNCHANGED <<low, search, startHeight, heights, blockTime, tip, latest, win>>
      BY <1>2, <2>2, <2>4 DEF Probe, chain
    <3>2. Mid < Wrap /\ Wrap \in Nat /\ Wrap > 0
      BY <2>1, ChainFacts
    <3>3. (Mid = 0 /\ high' = Wrap - 1) \/ (Mid > 0 /\ high' = Mid - 1)
      BY <2>1, <3>1, <3>2
    <3>4. Target' = Target /\ RangeType'
      BY <2>1, <3>1, <3>2, <3>3 DEF Target, RangeType
    <3>5. Wrapped' \/ Bracketed'
      BY <2>1, <2>4, <3>1, <3>3, <3>4, ChainFacts DEF Bracketed, Wrapped, RangeType
    <3> QED BY <3>1, <3>4, <3>5 DEF Searching, StartFound, RangeCovers, Queried
  <2>5. CASE blockTime[Mid] = Target
    <3>1. Found(Mid)
      BY <1>2, <2>2, <2>5 DEF Probe
    <3>2. Landed(Mid)
      BY <2>1, <2>2, <2>5 DEF Landed
    <3> QED BY <3>1, <3>2, FoundCovers
  <2> QED BY <2>2, <2>3, <2>4, <2>5
<1> QED BY <1>1, <1>2

\* When the loop ends, high is the block before the target.
LEMMA ExhaustedCovers ==
  ASSUME RangeInv, Exhausted
  PROVE  RangeInv'
<1> USE DEF RangeInv
<1>1. Searching /\ low > high /\ Found(high) /\ UNCHANGED <<chain, latest, win>>
  BY DEF Exhausted, Searching
<1>2. Bracketed
  BY <1>1, ChainFacts DEF Wrapped, RangeType
<1>3. low = high + 1 /\ high \in 0..latest
  BY <1>1, <1>2 DEF Bracketed, RangeType
<1>4. blockTime[high] \in Nat /\ Target \in Nat
  BY <1>3, ChainFacts DEF Heights
<1>5. Landed(high)
  <2>1. blockTime[high] < Target
    BY <1>2, <1>3 DEF Bracketed, RangeType
  <2> QED BY <1>2, <1>3, <1>4, <2>1 DEF Bracketed, Landed
<1> QED BY <1>1, <1>5, FoundCovers

\* RangeInv is inductive.
LEMMA RangeInvStep == RangeInv /\ [RangeNext]_<<chain, bsVars>> => RangeInv'
<1> SUFFICES ASSUME RangeInv, [RangeNext]_<<chain, bsVars>> PROVE RangeInv'
  OBVIOUS
<1>1. CASE Mine
  BY <1>1, ChainFacts
  DEF Mine, RangeInv, RangeType, bsVars, Searching, Wrapped, Bracketed, Target,
      StartFound, RangeCovers, Queried, Heights
<1>2. ASSUME NEW w \in [start : Nat, end : Nat], NEW set \in BOOLEAN, BeginLookup(w, set)
      PROVE  RangeInv'
  BY <1>2, ChainFacts
  DEF BeginLookup, RangeInv, RangeType, chain, Searching, Bracketed, Target,
      RangeCovers, Queried, AllHistory
<1>3. CASE LookupStep
  <2>1. CASE LookupFails
    BY <2>1, FallBackCovers DEF LookupFails
  <2> QED BY <1>3, <2>1, ProbeCovers, ExhaustedCovers DEF LookupStep
<1>4. CASE UNCHANGED <<chain, bsVars>>
  BY <1>4
  DEF RangeInv, RangeType, chain, bsVars, Searching, Wrapped, Bracketed, Target,
      StartFound, RangeCovers, Queried
<1> QED BY <1>1, <1>2, <1>3, <1>4 DEF RangeNext

\* RangeInv holds before any lookup.
LEMMA RangeInvInit == InitRange => RangeInv
BY BlockAssumption
DEF InitRange, RangeInv, RangeType, Searching, RangeCovers, Heights, AllHistory

\* Every chain, every window, every failure: no block of the window that was
\* known when the audit began is left out (RangeCovers).
THEOREM SearchCoversWindow == RangeSpec => []RangeCovers
<1>1. RangeInv => RangeCovers
  BY DEF RangeInv
<1> QED BY <1>1, RangeInvInit, RangeInvStep, PTL DEF RangeSpec

-----------------------------------------------------------------------------
(* The whole call. *)

\* The window of the request, as validateTimes completes it.
RequestOK == req.start \in Nat /\ req.end \in Nat

\* A window of times is what BeginLookup takes.
LEMMA WindowType == RequestOK => Window \in [start : Nat, end : Nat]
BY PriceAssumption DEF RequestOK, Window

\* As far as chain and search go, a step of the call is one of BlockRange or
\* none.
LEMMA StepIsRangeStep ==
  RequestOK /\ [Next]_auditVars => [RangeNext]_<<chain, bsVars>> /\ RequestOK'
<1> SUFFICES ASSUME RequestOK, [Next]_auditVars
             PROVE  [RangeNext]_<<chain, bsVars>> /\ RequestOK'
  OBVIOUS
<1>1. CASE AuditBegins
  <2>1. BeginLookup(Window, req.start > 0 \/ req.end > 0) /\ req' = req
    BY <1>1 DEF AuditBegins, callVars
  <2>2. (req.start > 0 \/ req.end > 0) \in BOOLEAN
    OBVIOUS
  <2> QED BY <2>1, <2>2, WindowType DEF RangeNext, RequestOK
<1>2. CASE BlockMined
  BY <1>2 DEF BlockMined, RangeNext, RequestOK, callVars
<1>3. CASE SearchHeights
  BY <1>3 DEF SearchHeights, RangeNext, RequestOK, callVars
<1>4. CASE ChannelMoves \/ PaymentMoves
  BY <1>4 DEF ChannelMoves, PaymentMoves, RequestOK, callVars
<1>5. CASE AuditRefused \/ CannotAsk \/ WithoutPrices \/ FetchFails \/ Fetched
           \/ ErrReceiveWithFee \/ CallFails
  BY <1>5
  DEF AuditRefused, CannotAsk, WithoutPrices, FetchFails, Fetched, ErrReceiveWithFee, CallFails,
      Fail, To, RequestOK, callVars
<1>6. CASE AskPrices \/ Fetch \/ RatesBegin
  BY <1>6 DEF AskPrices, Fetch, RatesBegin, Fail, To, RequestOK, callVars
<1>7. CASE ListTransactions \/ PendingChannels \/ OpenChannels \/ ClosedChannels \/ ListSweeps
  BY <1>7
  DEF ListTransactions, PendingChannels, OpenChannels, ClosedChannels, ListSweeps, AddChannels,
      RequestOK
<1>8. CASE ListInvoices
  BY <1>8 DEF ListInvoices, QueryPaginated, RequestOK
<1>9. CASE ListPayments
  BY <1>9 DEF ListPayments, QueryPaginated, RequestOK
<1>10. CASE ListForwards
  BY <1>10 DEF ListForwards, QueryPaginated, RequestOK
<1>11. CASE Finished \/ UNCHANGED auditVars
  BY <1>11 DEF Finished, auditVars, callVars, RequestOK
<1> QED BY <1>1, <1>2, <1>3, <1>4, <1>5, <1>6, <1>7, <1>8, <1>9, <1>10, <1>11 DEF Next

\* The call begins like a search.
LEMMA InitIsRangeInit == Init => InitRange /\ RequestOK
BY AuditAssumption DEF Init, RequestOK

\* However the audit's calls interleave with lnd's steps, and wherever the
\* search wraps or fails, no block of the window is left out (RangeCovers).
THEOREM AuditCoversWindow == Spec => []RangeCovers
<1>1. Spec => [](RangeInv /\ RequestOK)
  <2>1. Init => RangeInv /\ RequestOK
    BY InitIsRangeInit, RangeInvInit
  <2>2. (RangeInv /\ RequestOK) /\ [Next]_auditVars => (RangeInv /\ RequestOK)'
    BY StepIsRangeStep, RangeInvStep
  <2> QED BY <2>1, <2>2, PTL DEF Spec
<1>2. RangeInv => RangeCovers
  BY DEF RangeInv
<1> QED BY <1>1, <1>2, PTL

-----------------------------------------------------------------------------

\* The entries of one transaction, of which there are at most two, taken together.
Net(entries) == CASE Len(entries) = 0 -> 0
                  [] Len(entries) = 1 -> Signed(entries[1])
                  [] OTHER            -> Signed(entries[1]) + Signed(entries[2])

\* A wallet's transaction: its fee is part of a negative amount, and only then
\* is there one.
ListedTx == {tx \in [txid : STRING, amount : Int, fee : Nat, time : Nat, conf : Nat,
                     label : STRING, ours : BOOLEAN] : tx.amount >= 0 => tx.fee = 0}

\* The sign and the absolute amount of an entry give back the signed amount
\* (newHarmonyEntry).
LEMMA SignedAmount ==
  ASSUME NEW tx, NEW amt \in Int, NEW type, NEW u
  PROVE  Signed(txEntry(tx, amt, type, u)) = amt
<1> DEFINE e == txEntry(tx, amt, type, u)
<1>1. e.credit = (amt >= 0) /\ e.amount = Abs(amt)
  BY DEF txEntry, newHarmonyEntry
<1> HIDE DEF e
<1>2. CASE amt >= 0
  <2>1. e.credit
    BY <1>1, <1>2, Zenon
  <2>2. e.amount = amt
    BY <1>1, <1>2 DEF Abs
  <2> QED BY <2>1, <2>2, Zenon DEF Signed, e
<1>3. CASE ~(amt >= 0)
  <2>1. ~e.credit
    BY <1>1, <1>3, Zenon
  <2>2. Signed(e) = -e.amount
    BY <2>1, Zenon DEF Signed
  <2>3. e.amount = -amt
    BY <1>1, <1>3 DEF Abs
  <2> QED BY <2>2, <2>3 DEF e
<1> QED BY <1>2, <1>3

\* The amount that filterOnChain leaves (the fee taken out of a send).
LEMMA FilteredTx ==
  ASSUME NEW tx \in ListedTx, NEW now
  PROVE  /\ filtered(tx, now).amount = IF tx.amount < 0 THEN tx.amount + tx.fee ELSE tx.amount
         /\ filtered(tx, now).fee = tx.fee
         /\ filtered(tx, now).ours = tx.ours
         /\ filtered(tx, now).txid = tx.txid
<1>1. tx \in [txid : STRING, amount : Int, fee : Nat, time : Nat, conf : Nat,
              label : STRING, ours : BOOLEAN]
  BY DEF ListedTx
<1> QED BY <1>1 DEF filtered

\* The net of one entry.
LEMMA NetOfOne == ASSUME NEW e PROVE Net(<<e>>) = Signed(e)
BY DEF Net

\* The net of an entry and its fee.
LEMMA NetOfTwo == ASSUME NEW e, NEW f PROVE Net(<<e, f>>) = Signed(e) + Signed(f)
BY DEF Net

\* The net of no entry.
LEMMA NetOfNone == Net(<<>>) = 0
BY DEF Net

\* Fees are counted exactly once: whatever the amount, the fee and the price
\* are, the entries of a transaction that is neither a close nor a sweep add up
\* to the amount the wallet gives for it.  A channel's funding spends more than
\* its fee; any other transaction that spends its fee alone, to an output that
\* is not ours, is the one left out (onChainEntries, "0 value transactions").
THEOREM FeesCountedOnce ==
  ASSUME NEW tx \in ListedTx, NEW now, NEW u, NEW opened_, NEW closings_, NEW sweeps_,
         tx.txid \notin DOMAIN closings_, tx.txid \notin sweeps_,
         tx.txid \in opened_ => (tx.amount < 0 => tx.amount + tx.fee < 0),
         tx.txid \notin opened_ => (tx.amount + tx.fee # 0 \/ tx.ours \/ tx.amount = 0)
  PROVE  Net(EntriesOf(filtered(tx, now), opened_, closings_, sweeps_, u))
           = satsToMsat(tx.amount)
<1> DEFINE f == filtered(tx, now)
<1>1. tx.amount \in Int /\ tx.fee \in Nat /\ (tx.amount >= 0 => tx.fee = 0)
  BY DEF ListedTx
<1>2. /\ f.amount = IF tx.amount < 0 THEN tx.amount + tx.fee ELSE tx.amount
      /\ f.fee = tx.fee /\ f.ours = tx.ours /\ f.txid = tx.txid
  BY FilteredTx
<1>3. f.amount \in Int /\ f.fee \in Nat
  BY <1>1, <1>2
<1> SUFFICES Net(EntriesOf(f, opened_, closings_, sweeps_, u)) = satsToMsat(tx.amount)
  OBVIOUS
<1> HIDE DEF f
<1>4. satsToMsat(f.amount) \in Int /\ -satsToMsat(f.fee) \in Int
  BY <1>3 DEF satsToMsat
<1>5. CASE tx.txid \in opened_
  <2>1. EntriesOf(f, opened_, closings_, sweeps_, u) = channelOpenEntries(f, u)
    BY <1>2, <1>5 DEF EntriesOf
  <2>2. CASE f.amount < 0
    <3>1. Net(channelOpenEntries(f, u)) = satsToMsat(f.amount) + (-satsToMsat(f.fee))
      BY <1>4, <2>2, NetOfTwo, SignedAmount DEF channelOpenEntries
    <3> QED BY <1>1, <1>2, <1>5, <2>1, <2>2, <3>1 DEF satsToMsat
  <2>3. CASE ~(f.amount < 0)
    <3>1. Net(channelOpenEntries(f, u)) = satsToMsat(f.amount)
      BY <1>4, <2>3, NetOfOne, SignedAmount DEF channelOpenEntries
    <3> QED BY <1>1, <1>2, <1>5, <2>1, <2>3, <3>1 DEF satsToMsat
  <2> QED BY <2>2, <2>3
<1>6. CASE tx.txid \notin opened_
  <2>1. EntriesOf(f, opened_, closings_, sweeps_, u) = onChainEntries(f, u)
    BY <1>2, <1>6 DEF EntriesOf
  <2>2. CASE f.amount = 0 /\ f.ours
    <3>1. Net(onChainEntries(f, u)) = -satsToMsat(f.fee)
      BY <1>4, <2>2, NetOfOne, SignedAmount
      DEF onChainEntries, isUtxoManagementTx, createOnchainFeeEntry
    <3> QED BY <1>1, <1>2, <2>1, <2>2, <3>1 DEF satsToMsat
  <2>3. CASE f.amount = 0 /\ ~f.ours
    <3>1. Net(onChainEntries(f, u)) = 0
      BY <2>3, NetOfNone DEF onChainEntries, isUtxoManagementTx
    <3> QED BY <1>1, <1>2, <1>6, <2>1, <2>3, <3>1 DEF satsToMsat
  <2>4. CASE f.amount # 0 /\ f.fee = 0
    <3>1. Net(onChainEntries(f, u)) = satsToMsat(f.amount)
      BY <1>4, <2>4, NetOfOne, SignedAmount DEF onChainEntries
    <3>2. f.amount = tx.amount
      BY <1>1, <1>2, <2>4
    <3> QED BY <2>1, <3>1, <3>2
  <2>5. CASE f.amount # 0 /\ f.fee # 0
    <3>1. Net(onChainEntries(f, u)) = satsToMsat(f.amount) + (-satsToMsat(f.fee))
      BY <1>4, <2>5, NetOfTwo, SignedAmount DEF onChainEntries, createOnchainFeeEntry
    <3> QED BY <1>1, <1>2, <2>1, <2>5, <3>1 DEF satsToMsat
  <2> QED BY <2>2, <2>3, <2>4, <2>5
<1> QED BY <1>5, <1>6
-----------------------------------------------------------------------------
(* Prices: the search for a latest point, and the numbers of the queries. *)

\* A set of numbers that is not empty has a least one.
LEMMA LeastOf ==
  ASSUME NEW S \in SUBSET Nat, S # {}
  PROVE  Min(S) \in S
<1> DEFINE Least(x) == x \in S /\ \A y \in S : x <= y
<1>1. \E x : Least(x)
  BY LeastNatural
<1>2. Min(S) = CHOOSE x : Least(x)
  BY DEF Min
<1>3. Least(Min(S))
  <2> HIDE DEF Least
  <2> QED BY <1>1, <1>2
<1> QED BY <1>3

\* A set of times with one that is not after ts has a latest one.
LEMMA Bounded ==
  ASSUME NEW ps \in SUBSET Int, NEW ts \in Int, NEW q \in ps, q <= ts
  PROVE  \E m \in ps : m <= ts /\ \A p \in ps : p <= ts => p <= m
<1> DEFINE T == {n \in Nat : \E p \in ps : p <= ts /\ n = ts - p}
<1>1. ts - q \in T
  OBVIOUS
<1>2. T \in SUBSET Nat /\ T # {}
  BY <1>1
<1>3. PICK x \in T : \A y \in T : x <= y
  <2> HIDE DEF T
  <2> QED BY <1>2, LeastNatural
<1> QED BY <1>3

\* The price of a time is the latest point that is not after it.
LEMMA LatestPoint ==
  ASSUME NEW ps \in SUBSET Int, NEW ts \in Int, NEW q \in ps, q <= ts
  PROVE  /\ HasPrice(ps, ts)
         /\ GetPrice(ps, ts) \in ps /\ GetPrice(ps, ts) <= ts
         /\ \A p \in ps : p <= ts => p <= GetPrice(ps, ts)
<1> DEFINE S == {p \in ps : p <= ts}
           Latest(x) == x \in S /\ \A y \in S : x >= y
<1>1. \E m : Latest(m)
  <2>1. PICK m \in ps : m <= ts /\ \A p \in ps : p <= ts => p <= m
    BY Bounded
  <2>2. m \in S /\ \A y \in S : y \in Int /\ m \in Int /\ y <= m
    BY <2>1
  <2>3. Latest(m)
    BY <2>2
  <2> QED BY <2>3
<1>2. GetPrice(ps, ts) = CHOOSE x : Latest(x)
  BY DEF GetPrice, Max
<1>3. Latest(GetPrice(ps, ts))
  <2> HIDE DEF Latest
  <2> QED BY <1>1, <1>2
<1>4. GetPrice(ps, ts) \in ps /\ GetPrice(ps, ts) <= ts
  BY <1>3
<1>5. \A p \in ps : p <= ts => p <= GetPrice(ps, ts)
  <2> HIDE DEF Latest
  <2> DEFINE g == GetPrice(ps, ts)
  <2>1. \A y \in S : g >= y
    BY <1>3 DEF Latest
  <2>2. g \in Int
    BY <1>4
  <2> HIDE DEF g
  <2>3. \A p \in ps : p <= ts => p <= g
    BY <2>1, <2>2
  <2> QED BY <2>3 DEF g
<1>6. HasPrice(ps, ts)
  BY DEF HasPrice
<1> QED BY <1>4, <1>5, <1>6

\* The multiple of unit at or before a time.
LEMMA TruncateIs ==
  ASSUME NEW t \in Int, NEW unit \in Nat \ {0}
  PROVE  /\ Truncate(t, unit) \in Int /\ Truncate(t, unit) % unit = 0
         /\ Truncate(t, unit) <= t /\ t - Truncate(t, unit) < unit
<1>1. /\ t \div unit \in Int /\ t % unit \in 0..(unit - 1)
      /\ t = unit * (t \div unit) + (t % unit)
  BY DivMod
<1>2. Truncate(t, unit) = unit * (t \div unit)
  BY <1>1 DEF Truncate
<1>3. Truncate(t, unit) % unit = 0
  BY <1>1, <1>2, MultMod
<1> QED BY <1>1, <1>3 DEF Truncate

\* and it does not come before that of an earlier time.
LEMMA TruncateMonotone ==
  ASSUME NEW s \in Int, NEW t \in Int, s <= t, NEW unit \in Nat \ {0}
  PROVE  Truncate(s, unit) <= Truncate(t, unit)
<1>1. /\ s \div unit \in Int /\ s % unit \in 0..(unit - 1)
      /\ s = unit * (s \div unit) + (s % unit)
  BY DivMod
<1>2. /\ t \div unit \in Int /\ t % unit \in 0..(unit - 1)
      /\ t = unit * (t \div unit) + (t % unit)
  BY DivMod
<1>3. Truncate(s, unit) = unit * (s \div unit) /\ Truncate(t, unit) = unit * (t \div unit)
  BY <1>1, <1>2 DEF Truncate
<1>4. s \div unit <= t \div unit
  BY DivMonotone
<1> QED BY <1>1, <1>2, <1>3, <1>4, TimesMonotone

\* Consecutive ranges leave no time out, the last one included.
LEMMA ChunksCover ==
  ASSUME NEW from \in Int, NEW end \in Int, NEW max \in Nat \ {0}, NEW p \in from..end,
         from < end
  PROVE  \E i \in DOMAIN Chunks(from, end, max) :
           Chunks(from, end, max)[i].from <= p /\ p <= Chunks(from, end, max)[i].to
<1> DEFINE n == (end - from + max - 1) \div max
           k == (p - from) \div max
           R(i) == [from |-> from + ((i - 1) * max), to |-> from + (i * max)]
<1>1. n \in Int /\ end - from + max - 1 < max * n + max
  <2>1. end - from + max - 1 \in Int
    OBVIOUS
  <2> QED BY <2>1, DivMod
<1>2. k \in Int /\ max * k <= p - from /\ p - from < max * k + max
  <2>1. p - from \in Int
    OBVIOUS
  <2> QED BY <2>1, DivMod
<1>3. Chunks(from, end, max) = [i \in 1..n |-> R(i)]
  BY DEF Chunks
<1> HIDE DEF n, k
<1>4. n >= 1
  <2>1. max * n > 0
    BY <1>1
  <2> QED BY <1>1, <2>1, TimesMonotone
<1>5. k >= 0
  <2>1. CASE k <= -1
    <3>1. max * k <= max * (-1)
      BY <1>2, <2>1, TimesMonotone
    <3> QED BY <1>2, <3>1
  <2> QED BY <1>2, <2>1
<1>6. CASE k < n
  <2>1. k + 1 \in 1..n
    BY <1>1, <1>2, <1>5, <1>6
  <2>2. ((k + 1) - 1) * max = max * k /\ (k + 1) * max = max * k + max
    BY <1>2
  <2>3. R(k + 1).from <= p /\ p <= R(k + 1).to
    BY <1>2, <2>2
  <2> QED BY <1>3, <2>1, <2>3
<1>7. CASE ~(k < n)
  <2>1. max * n <= max * k
    BY <1>1, <1>2, <1>7, TimesMonotone
  <2>2. max * n >= end - from
    BY <1>1
  <2>3. p = from + max * n
    <3>1. max * n \in Int /\ max * k \in Int /\ p - from <= end - from
      BY <1>1, <1>2
    <3>2. p - from = max * n
      BY <1>2, <2>1, <2>2, <3>1
    <3> QED BY <3>1, <3>2
  <2>4. n \in 1..n /\ (n - 1) * max = max * n - max /\ n * max = max * n
    BY <1>1, <1>4
  <2>5. R(n).from <= p /\ p <= R(n).to
    BY <2>3, <2>4
  <2> QED BY <1>3, <2>4, <2>5
<1> QED BY <1>6, <1>7

-----------------------------------------------------------------------------

\* A query of a backend; a granularity.
QueryRange  == [from : Int, to : Int]
Granularity == [agg : Nat \ {0}, max : Nat \ {0}]

\* What the backend answers to all of these queries.
Answers(c, queries) == UNION {Answer(c, queries[i]) : i \in DOMAIN queries}

\* Among these points there is one for ts that is recent enough.
Recent(ps, c, ts) == \E p \in ps : p <= ts /\ ts - p < Age(c, ts)

\* The configuration and window a price source is asked with.
Asked(c, w) ==
  /\ w \in [start : Nat, end : Nat] /\ ValidRange(w)
  /\ c.points \in SUBSET Nat
  /\ c.backend # "custom" => c.points = {}
  /\ c.backend = "custom" => \E p \in c.points : p < w.start
  /\ UsesGranularity(c.backend) => c.gran \in DOMAIN Granularities

\* Nothing is asked about one time on the edge of the ranges.
OnEdge(c, w) ==
  /\ w.start = w.end
  /\ \/ c.backend \in {"coinbase", "bitfinex"}
     \/ c.backend = "coingecko" /\ w.start = Breakpoint

\* The smaller of two numbers.
LEMMA MinOfTwo ==
  ASSUME NEW a \in Int, NEW b \in Int
  PROVE  Min({a, b}) = IF a <= b THEN a ELSE b
<1> DEFINE m == IF a <= b THEN a ELSE b
           Least(x) == x \in {a, b} /\ \A y \in {a, b} : x <= y
<1>1. Least(m)
  OBVIOUS
<1>2. \A x : Least(x) => x = m
  OBVIOUS
<1>3. Least(CHOOSE x : Least(x))
  <2> HIDE DEF Least, m
  <2> QED BY <1>1
<1>4. Min({a, b}) = CHOOSE x : Least(x)
  BY DEF Min
<1> QED BY <1>2, <1>3, <1>4

\* The larger of two numbers.
LEMMA MaxOfTwo ==
  ASSUME NEW a \in Int, NEW b \in Int
  PROVE  Max({a, b}) = IF a <= b THEN b ELSE a
<1> DEFINE m == IF a <= b THEN b ELSE a
           Most(x) == x \in {a, b} /\ \A y \in {a, b} : x >= y
<1>1. Most(m)
  OBVIOUS
<1>2. \A x : Most(x) => x = m
  OBVIOUS
<1>3. Most(CHOOSE x : Most(x))
  <2> HIDE DEF Most, m
  <2> QED BY <1>1
<1>4. Max({a, b}) = CHOOSE x : Most(x)
  BY DEF Max
<1> QED BY <1>2, <1>3, <1>4

\* The constants of the price sources.
LEMMA PriceConstants ==
  /\ Now \in Nat /\ Day \in Nat \ {0} /\ GeckoDays \in Nat \ {0} /\ CandleCap \in Nat \ {0}
  /\ Hour \in Nat \ {0} /\ Hour <= Day
  /\ Breakpoint \in Int
  /\ \A i \in DOMAIN Granularities : Granularities[i] \in Granularity
<1>1. /\ Now \in Nat /\ Day \in Nat \ {0} /\ GeckoDays \in Nat \ {0} /\ CandleCap \in Nat \ {0}
      /\ Granularities[HourIdx].agg <= Day /\ HourIdx \in DOMAIN Granularities
  BY PriceAssumption
<1>2. \A i \in DOMAIN Granularities : Granularities[i] \in Granularity
  <2>1. Granularities \in Seq(Granularity)
    BY PriceAssumption DEF Granularity
  <2> QED BY <2>1
<1>3. Hour \in Nat \ {0}
  BY <1>1, <1>2 DEF Hour, Granularity
<1>4. Breakpoint \in Int
  BY <1>1 DEF Breakpoint
<1> QED BY <1>1, <1>2, <1>3, <1>4 DEF Hour

\* The pieces of a window are ranges, and there is at least one.
LEMMA ChunksType ==
  ASSUME NEW from \in Int, NEW end \in Int, NEW max \in Nat \ {0}, from < end
  PROVE  Chunks(from, end, max) \in Seq(QueryRange) /\ Chunks(from, end, max) # <<>>
<1> DEFINE n == (end - from + max - 1) \div max
           R(i) == [from |-> from + ((i - 1) * max), to |-> from + (i * max)]
<1>1. n \in Int /\ end - from + max - 1 < max * n + max
  <2>1. end - from + max - 1 \in Int
    OBVIOUS
  <2> QED BY <2>1, DivMod
<1>2. Chunks(from, end, max) = [i \in 1..n |-> R(i)]
  BY DEF Chunks
<1> HIDE DEF n
<1>3. n >= 1
  <2>1. max * n > 0
    BY <1>1
  <2> QED BY <1>1, <2>1, TimesMonotone
<1>4. \A i \in 1..n : R(i) \in QueryRange
  BY <1>1 DEF QueryRange
<1> HIDE DEF R
<1>5. [i \in 1..n |-> R(i)] \in Seq(QueryRange)
  BY <1>1, <1>3, <1>4
<1>6. Len([i \in 1..n |-> R(i)]) = n
  BY <1>1, <1>3
<1> QED BY <1>2, <1>3, <1>5, <1>6

\* Cutting ranges at the end keeps every time up to the end in its range.
LEMMA CutAtIs ==
  ASSUME NEW ranges \in Seq(QueryRange), NEW end \in Int
  PROVE  /\ CutAt(ranges, end) \in Seq(QueryRange) /\ Len(CutAt(ranges, end)) = Len(ranges)
         /\ \A i \in 1..Len(ranges) :
              /\ CutAt(ranges, end)[i].from = ranges[i].from
              /\ CutAt(ranges, end)[i].to = IF ranges[i].to <= end THEN ranges[i].to ELSE end
<1> DEFINE C(i) == [ranges[i] EXCEPT !.to = Min({@, end})]
<1>1. \A i \in 1..Len(ranges) :
        /\ C(i) \in QueryRange /\ C(i).from = ranges[i].from
        /\ C(i).to = IF ranges[i].to <= end THEN ranges[i].to ELSE end
  <2> TAKE i \in 1..Len(ranges)
  <2>1. ranges[i] \in QueryRange
    OBVIOUS
  <2>2. ranges[i].from \in Int /\ ranges[i].to \in Int
    BY <2>1 DEF QueryRange
  <2>3. C(i) = [from |-> ranges[i].from, to |-> Min({ranges[i].to, end})]
    BY <2>1 DEF QueryRange
  <2>4. Min({ranges[i].to, end}) = IF ranges[i].to <= end THEN ranges[i].to ELSE end
    BY <2>2, MinOfTwo
  <2> HIDE DEF C
  <2> QED BY <2>2, <2>3, <2>4 DEF QueryRange
<1>2. CutAt(ranges, end) = [i \in 1..Len(ranges) |-> C(i)]
  BY DEF CutAt
<1> HIDE DEF C
<1>3. [i \in 1..Len(ranges) |-> C(i)] \in Seq(QueryRange)
  BY <1>1
<1>4. Len([i \in 1..Len(ranges) |-> C(i)]) = Len(ranges)
  OBVIOUS
<1> QED BY <1>1, <1>2, <1>3, <1>4

\* Coincap: chunks from one granularity before the start.
LEMMA CoinCapCovers ==
  ASSUME NEW w \in [start : Nat, end : Nat], w.start <= w.end, NEW g \in Granularity
  PROVE  /\ CoinCapQueries(w, g) \in Seq(QueryRange)
         /\ \A p \in (w.start - g.agg)..w.end :
              \E i \in DOMAIN CoinCapQueries(w, g) :
                CoinCapQueries(w, g)[i].from <= p /\ p <= CoinCapQueries(w, g)[i].to
<1> DEFINE from == w.start - g.agg
           max == g.max
           end == w.end
           chunks == Chunks(from, end, max)
           first == SubSeq(chunks, 1, 1)
           rest == CutAt(Tail(chunks), end)
<1>1. /\ w.start \in Nat /\ w.end \in Nat /\ g.agg \in Nat \ {0} /\ g.max \in Nat \ {0}
      /\ from \in Int /\ end \in Int /\ max \in Nat \ {0} /\ from < end
  BY DEF Granularity
<1>0. CoinCapQueries(w, g) = first \o rest
  BY DEF CoinCapQueries
<1> HIDE DEF from, max, end
<1>2. chunks \in Seq(QueryRange) /\ chunks # <<>>
  BY <1>1, ChunksType
<1>3. ASSUME NEW p \in from..end
      PROVE  \E i \in DOMAIN chunks : chunks[i].from <= p /\ p <= chunks[i].to
  BY <1>1, ChunksCover
<1> HIDE DEF chunks
<1>5. Len(chunks) \in Nat /\ Len(chunks) >= 1
  BY <1>2
<1>6. first \in Seq(QueryRange) /\ Len(first) = 1 /\ first[1] = chunks[1]
  BY <1>2, <1>5
<1>7. Tail(chunks) \in Seq(QueryRange) /\ Len(Tail(chunks)) = Len(chunks) - 1
      /\ \A i \in 1..(Len(chunks) - 1) : Tail(chunks)[i] = chunks[i + 1]
  BY <1>2, <1>5
<1>8. /\ rest \in Seq(QueryRange) /\ Len(rest) = Len(chunks) - 1
      /\ \A i \in 1..(Len(chunks) - 1) :
           /\ rest[i].from = chunks[i + 1].from
           /\ rest[i].to = IF chunks[i + 1].to <= end THEN chunks[i + 1].to ELSE end
  <2> DEFINE t == Tail(chunks)
  <2> HIDE DEF t
  <2>1. t \in Seq(QueryRange) /\ Len(t) = Len(chunks) - 1 /\ rest = CutAt(t, end)
    BY <1>7 DEF t
  <2>2. \A i \in 1..(Len(chunks) - 1) : t[i] = chunks[i + 1]
    BY <1>7 DEF t
  <2> HIDE DEF rest
  <2>3. /\ rest \in Seq(QueryRange) /\ Len(rest) = Len(t)
        /\ \A i \in 1..Len(t) : /\ rest[i].from = t[i].from
                                /\ rest[i].to = IF t[i].to <= end THEN t[i].to ELSE end
    BY <1>1, <2>1, CutAtIs
  <2> QED BY <2>1, <2>2, <2>3
<1> HIDE DEF first, rest
<1>9. first \o rest \in Seq(QueryRange) /\ Len(first \o rest) = Len(chunks)
  <2>1. first \o rest \in Seq(QueryRange) /\ Len(first \o rest) = Len(first) + Len(rest)
    BY <1>6, <1>8, ConcatProperties
  <2> QED BY <1>5, <1>6, <1>8, <2>1
<1>10. ASSUME NEW p \in from..end
       PROVE  \E i \in DOMAIN (first \o rest) :
                (first \o rest)[i].from <= p /\ p <= (first \o rest)[i].to
  <2>1. PICK i \in 1..Len(chunks) : chunks[i].from <= p /\ p <= chunks[i].to
    BY <1>2, <1>3
  <2>2. i \in DOMAIN (first \o rest)
    BY <1>9
  <2>3. CASE i = 1
    <3>1. (first \o rest)[i] = chunks[1]
      <4>1. 1 \in 1..(Len(first) + Len(rest)) /\ 1 <= Len(first)
        BY <1>5, <1>6, <1>8
      <4>2. (first \o rest)[1] = first[1]
        BY <1>6, <1>8, <4>1, ConcatProperties
      <4> QED BY <1>6, <2>3, <4>2
    <3> QED BY <2>1, <2>2, <2>3, <3>1
  <2>4. CASE i # 1
    <3>1. i - 1 \in 1..(Len(chunks) - 1) /\ (i - 1) + 1 = i
      BY <1>5, <2>4
    <3>2. (first \o rest)[i] = rest[i - 1]
      <4>1. i \in 1..(Len(first) + Len(rest)) /\ ~(i <= Len(first))
        <5>1. Len(first) + Len(rest) = Len(chunks)
          BY <1>5, <1>6, <1>8
        <5> QED BY <1>6, <2>4, <5>1
      <4>2. \A j \in 1..(Len(first) + Len(rest)) :
              (first \o rest)[j] = IF j <= Len(first) THEN first[j] ELSE rest[j - Len(first)]
        BY <1>6, <1>8, ConcatProperties
      <4>3. (first \o rest)[i] = rest[i - Len(first)]
        BY <4>1, <4>2
      <4> QED BY <1>6, <4>3
    <3>3. rest[i - 1].from = chunks[i].from
          /\ rest[i - 1].to = IF chunks[i].to <= end THEN chunks[i].to ELSE end
      BY <1>8, <3>1
    <3>4. (first \o rest)[i].from <= p /\ p <= (first \o rest)[i].to
      BY <1>1, <2>1, <3>2, <3>3
    <3> QED BY <2>2, <3>4
  <2> QED BY <2>3, <2>4
<1> QED BY <1>0, <1>9, <1>10 DEF from, end

\* The candle backends: chunks from the candle of the start.
LEMMA CandlesCover ==
  ASSUME NEW w \in [start : Nat, end : Nat], NEW g \in Granularity,
         Truncate(w.start, g.agg) < w.end
  PROVE  /\ CandleQueries(w, g) \in Seq(QueryRange)
         /\ \A p \in Truncate(w.start, g.agg)..w.end :
              \E i \in DOMAIN CandleQueries(w, g) :
                CandleQueries(w, g)[i].from <= p /\ p <= CandleQueries(w, g)[i].to
<1> DEFINE from == Truncate(w.start, g.agg)
           max == g.agg * CandleCap
           end == w.end
           chunks == Chunks(from, end, max)
<1>1. w.start \in Nat /\ w.end \in Nat /\ g.agg \in Nat \ {0} /\ end \in Int
  BY DEF Granularity
<1>2. from \in Int
  BY <1>1, TruncateIs
<1>3. max \in Nat \ {0}
  BY <1>1, PriceConstants
<1>4. CandleQueries(w, g) = CutAt(chunks, end)
  BY DEF CandleQueries
<1> HIDE DEF from, max, end
<1>5. from < end
  BY DEF from, end
<1>6. chunks \in Seq(QueryRange)
  BY <1>1, <1>2, <1>3, <1>5, ChunksType
<1>7. ASSUME NEW p \in from..end
      PROVE  \E i \in DOMAIN chunks : chunks[i].from <= p /\ p <= chunks[i].to
  BY <1>1, <1>2, <1>3, <1>5, ChunksCover
<1> HIDE DEF chunks
<1>8. /\ CutAt(chunks, end) \in Seq(QueryRange) /\ Len(CutAt(chunks, end)) = Len(chunks)
      /\ \A i \in 1..Len(chunks) :
           /\ CutAt(chunks, end)[i].from = chunks[i].from
           /\ CutAt(chunks, end)[i].to = IF chunks[i].to <= end THEN chunks[i].to ELSE end
  BY <1>1, <1>6, CutAtIs
<1>9. ASSUME NEW p \in from..end
      PROVE  \E i \in DOMAIN CutAt(chunks, end) :
               CutAt(chunks, end)[i].from <= p /\ p <= CutAt(chunks, end)[i].to
  <2>1. PICK i \in 1..Len(chunks) : chunks[i].from <= p /\ p <= chunks[i].to
    BY <1>6, <1>7
  <2>2. i \in DOMAIN CutAt(chunks, end)
    BY <1>8
  <2>3. CutAt(chunks, end)[i].from <= p /\ p <= CutAt(chunks, end)[i].to
    BY <1>1, <1>2, <1>8, <2>1
  <2> QED BY <2>2, <2>3
<1> QED BY <1>4, <1>8, <1>9 DEF from, end

\* without a range, they ask nothing.
LEMMA CandlesNone ==
  ASSUME NEW w \in [start : Nat, end : Nat], w.start <= w.end, NEW g \in Granularity,
         ~(Truncate(w.start, g.agg) < w.end)
  PROVE  CandleQueries(w, g) = <<>> /\ w.start = w.end
<1> DEFINE from == Truncate(w.start, g.agg)
           max == g.agg * CandleCap
           n == (w.end - from + max - 1) \div max
           chunks == Chunks(from, w.end, max)
<1>1. w.start \in Nat /\ w.end \in Nat /\ g.agg \in Nat \ {0}
  BY DEF Granularity
<1>2. from \in Int /\ from <= w.start
  BY <1>1, TruncateIs
<1>3. max \in Nat \ {0}
  BY <1>1, PriceConstants
<1>4. CandleQueries(w, g) = CutAt(chunks, w.end)
  BY DEF CandleQueries
<1>5. w.end = from /\ w.start = w.end
  BY <1>1, <1>2
<1> HIDE DEF from, max
<1>6. n = 0
  BY <1>2, <1>3, <1>5
<1>7. DOMAIN chunks = {}
  BY <1>6 DEF Chunks
<1>8. CutAt(chunks, w.end) = <<>>
  BY <1>7 DEF CutAt
<1> QED BY <1>4, <1>5, <1>8

\* The multiple at or before a time is in the answer to a query that reaches it.
LEMMA MultipleIn ==
  ASSUME NEW t \in Int, NEW unit \in Nat \ {0}, NEW from \in Int, NEW to \in Int,
         from <= Truncate(t, unit), Truncate(t, unit) <= to
  PROVE  Truncate(t, unit) \in Multiples(unit, from, to)
<1>1. Truncate(t, unit) \in Int /\ Truncate(t, unit) % unit = 0
  BY TruncateIs
<1> QED BY <1>1 DEF Multiples

\* Backends with a granularity: if every multiple of the window is in the range
\* of some query, every time has its price.
LEMMA GranularRecent ==
  ASSUME NEW c, UsesGranularity(c.backend), c.gran \in DOMAIN Granularities,
         NEW agg, agg = Granularities[c.gran].agg,
         NEW ts \in Nat, NEW qs \in Seq(QueryRange), NEW i \in DOMAIN qs,
         qs[i].from <= Truncate(ts, agg), Truncate(ts, agg) <= qs[i].to
  PROVE  Recent(Answers(c, qs), c, ts)
<1> DEFINE p == Truncate(ts, agg)
           from == qs[i].from
           to == qs[i].to
<1>1. agg \in Nat \ {0}
  BY PriceConstants DEF Granularity
<1>2. from \in Int /\ to \in Int
  <2>1. qs[i] \in QueryRange
    OBVIOUS
  <2> QED BY <2>1 DEF QueryRange
<1>0. ts \in Int
  OBVIOUS
<1>3. p \in Int /\ p <= ts /\ ts - p < agg
  BY ONLY <1>0, <1>1, TruncateIs
<1>4. from <= p /\ p <= to
  OBVIOUS
<1>5. Answer(c, qs[i]) = Multiples(agg, from, to) /\ Age(c, ts) = agg
  BY DEF Answer, Age, UsesGranularity
<1> HIDE DEF from, to
<1>6. p \in Multiples(agg, from, to)
  BY ONLY <1>0, <1>1, <1>2, <1>4, MultipleIn
<1> HIDE DEF p
<1>7. p \in Answers(c, qs)
  BY <1>5, <1>6 DEF Answers
<1> QED BY <1>3, <1>5, <1>7 DEF Recent

\* coincap's answers have a recent point for every time of the window.
LEMMA CoinCapRecent ==
  ASSUME NEW c, NEW w, Asked(c, w), c.backend = "coincap", NEW ts \in w.start..w.end
  PROVE  /\ Queries(c, w) \in Seq(QueryRange)
         /\ Recent(Answers(c, Queries(c, w)), c, ts)
<1> DEFINE g == Granularities[c.gran]
           qs == CoinCapQueries(w, g)
<1>1. UsesGranularity(c.backend) /\ c.gran \in DOMAIN Granularities
  BY DEF Asked, UsesGranularity
<1>2. g \in Granularity
  BY <1>1, PriceConstants
<1>3. w \in [start : Nat, end : Nat] /\ w.start <= w.end
  BY DEF Asked, ValidRange
<1>4. Queries(c, w) = qs
  BY DEF Queries
<1> HIDE DEF g
<1> DEFINE agg == g.agg
<1> HIDE DEF agg
<1>5. agg \in Nat \ {0} /\ w.start \in Nat /\ w.end \in Nat /\ ts \in Nat
  BY <1>2, <1>3 DEF Granularity, agg
<1>6. Truncate(ts, agg) \in (w.start - agg)..w.end
  <2>1. Truncate(ts, agg) \in Int /\ Truncate(ts, agg) <= ts /\ ts - Truncate(ts, agg) < agg
    BY <1>5, TruncateIs
  <2> QED BY <1>5, <2>1
<1>7. qs \in Seq(QueryRange)
  BY <1>2, <1>3, CoinCapCovers
<1>8. PICK i \in DOMAIN qs : qs[i].from <= Truncate(ts, agg) /\ Truncate(ts, agg) <= qs[i].to
  BY <1>2, <1>3, <1>6, CoinCapCovers DEF agg
<1> HIDE DEF qs
<1>9. Recent(Answers(c, qs), c, ts)
  BY <1>1, <1>5, <1>7, <1>8, GranularRecent DEF g, agg
<1> QED BY <1>4, <1>7, <1>9

\* So do the answers of the two candle backends, unless nothing is asked.
LEMMA CandleRecent ==
  ASSUME NEW c, NEW w, Asked(c, w), c.backend \in {"coinbase", "bitfinex"}
  PROVE  \/ Queries(c, w) = <<>> /\ OnEdge(c, w)
         \/ /\ Queries(c, w) \in Seq(QueryRange)
            /\ \A ts \in w.start..w.end : Recent(Answers(c, Queries(c, w)), c, ts)
<1> DEFINE g == Granularities[c.gran]
           qs == CandleQueries(w, g)
<1>1. UsesGranularity(c.backend) /\ c.gran \in DOMAIN Granularities
  BY DEF Asked, UsesGranularity
<1>2. g \in Granularity
  BY <1>1, PriceConstants
<1>3. w \in [start : Nat, end : Nat] /\ w.start <= w.end
  BY DEF Asked, ValidRange
<1>4. Queries(c, w) = qs
  BY DEF Queries
<1> HIDE DEF g
<1> DEFINE agg == g.agg
<1> HIDE DEF agg
<1>5. agg \in Nat \ {0} /\ w.start \in Nat /\ w.end \in Nat
  BY <1>2, <1>3 DEF Granularity, agg
<1>6. CASE ~(Truncate(w.start, agg) < w.end)
  BY <1>2, <1>3, <1>4, <1>6, CandlesNone DEF OnEdge, agg
<1>7. CASE Truncate(w.start, agg) < w.end
  <2>1. qs \in Seq(QueryRange)
    BY <1>2, <1>3, <1>7, CandlesCover DEF agg
  <2>2. ASSUME NEW ts \in w.start..w.end
        PROVE  Recent(Answers(c, qs), c, ts)
    <3>1. ts \in Nat
      BY <1>5
    <3>2. Truncate(ts, agg) \in Int /\ Truncate(ts, agg) <= ts
      BY <1>5, <3>1, TruncateIs
    <3>3. Truncate(w.start, agg) \in Int /\ Truncate(w.start, agg) <= Truncate(ts, agg)
      BY <1>5, <3>1, TruncateIs, TruncateMonotone
    <3>4. Truncate(ts, agg) \in Truncate(w.start, agg)..w.end
      BY <1>5, <3>1, <3>2, <3>3
    <3>5. PICK i \in DOMAIN qs : qs[i].from <= Truncate(ts, agg) /\ Truncate(ts, agg) <= qs[i].to
      BY <1>2, <1>3, <1>7, <3>4, CandlesCover DEF agg
    <3> HIDE DEF qs
    <3> QED BY <1>1, <2>1, <3>1, <3>5, GranularRecent DEF g, agg
  <2> QED BY <1>4, <2>1, <2>2
<1> QED BY <1>6, <1>7

\* Coingecko is asked for a day more than the start is ago, so that the answer
\* begins before it; within the recent days it comes by the hour.
LEMMA GeckoAnswer ==
  ASSUME NEW c, c.backend = "coingecko", NEW from \in Int, NEW to \in Int, NEW q,
         q = [from |-> from, to |-> to], from <= Now, to <= Now,
         NEW ts \in from..to
  PROVE  \E p \in Answer(c, q) :
           p <= ts /\ ts - p < (IF from >= Breakpoint THEN Hour ELSE Day)
<1> DEFINE lag == Lag(from)
           unit == IF lag <= GeckoDays + 1 THEN Hour ELSE Day
           p == Truncate(ts, unit)
           first == Now - (lag * Day)
<1>1. /\ Now \in Nat /\ Day \in Nat \ {0} /\ GeckoDays \in Nat \ {0}
      /\ Hour \in Nat \ {0} /\ Hour <= Day /\ Breakpoint = Now - (GeckoDays * Day)
  BY PriceConstants DEF Breakpoint
<1>2. Answer(c, q) = {t \in Multiples(unit, Truncate(first, unit), Now) : t <= to}
  BY DEF Answer, UsesGranularity
<1> DEFINE d == (Now - from) \div Day
<1>3. /\ d \in Int /\ Day * d <= Now - from /\ Now - from < Day * d + Day
  <2>1. Now - from \in Int
    BY <1>1
  <2> QED BY <1>1, <2>1, DivMod
<1>4. lag = d + 1
  BY DEF Lag
<1> HIDE DEF d
<1>5. lag \in Int /\ lag * Day = Day * d + Day
  BY <1>1, <1>3, <1>4
<1>6. first \in Int /\ first <= ts
  BY <1>1, <1>3, <1>5
<1>7. unit \in Nat \ {0} /\ unit <= Day
  BY <1>1
<1>8. from >= Breakpoint => unit = Hour
  <2> SUFFICES ASSUME from >= Breakpoint, ~(d <= GeckoDays) PROVE FALSE
    BY <1>1, <1>3, <1>4
  <2>1. Day * (GeckoDays + 1) <= Day * d
    BY <1>1, <1>3, TimesMonotone
  <2>2. Day * (GeckoDays + 1) = GeckoDays * Day + Day
    BY <1>1
  <2> QED BY <1>1, <1>3, <2>1, <2>2
<1> HIDE DEF unit, first
<1>9. ts \in Int
  OBVIOUS
<1>10. p \in Int /\ p % unit = 0 /\ p <= ts /\ ts - p < unit
  BY ONLY <1>7, <1>9, TruncateIs
<1>11. Truncate(first, unit) \in Int /\ Truncate(first, unit) <= p
  BY ONLY <1>6, <1>7, <1>9, TruncateIs, TruncateMonotone
<1>12. p <= to /\ p <= Now
  BY <1>1, <1>10
<1> HIDE DEF p
<1>13. p \in Multiples(unit, Truncate(first, unit), Now)
  BY <1>1, <1>10, <1>11, <1>12 DEF Multiples
<1>14. p \in Answer(c, q)
  BY <1>2, <1>12, <1>13
<1>15. ts - p < (IF from >= Breakpoint THEN Hour ELSE Day)
  BY <1>1, <1>7, <1>8, <1>10
<1> QED BY <1>10, <1>14, <1>15

\* One query has one answer.
LEMMA AnswersOfOne ==
  ASSUME NEW c, NEW q \in QueryRange
  PROVE  <<q>> \in Seq(QueryRange) /\ Answers(c, <<q>>) = Answer(c, q)
<1>1. DOMAIN <<q>> = {1} /\ <<q>>[1] = q
  OBVIOUS
<1>2. {Answer(c, <<q>>[i]) : i \in DOMAIN <<q>>} = {Answer(c, q)}
  BY <1>1, Zenon
<1> QED BY <1>2 DEF Answers

\* Two queries have both answers.
LEMMA AnswersOfTwo ==
  ASSUME NEW c, NEW q \in QueryRange, NEW r \in QueryRange
  PROVE  /\ <<q, r>> \in Seq(QueryRange)
         /\ Answers(c, <<q, r>>) = Answer(c, q) \cup Answer(c, r)
<1>1. DOMAIN <<q, r>> = {1, 2} /\ <<q, r>>[1] = q /\ <<q, r>>[2] = r
  OBVIOUS
<1>2. {Answer(c, <<q, r>>[i]) : i \in DOMAIN <<q, r>>} = {Answer(c, q), Answer(c, r)}
  BY <1>1, Zenon
<1> QED BY <1>2 DEF Answers

\* coingecko's answers have a recent point for every time of the window,
\* unless nothing is asked.
LEMMA GeckoRecent ==
  ASSUME NEW c, NEW w, Asked(c, w), c.backend = "coingecko"
  PROVE  \/ Queries(c, w) = <<>> /\ OnEdge(c, w)
         \/ /\ Queries(c, w) \in Seq(QueryRange)
            /\ \A ts \in w.start..w.end : Recent(Answers(c, Queries(c, w)), c, ts)
<1> DEFINE s == w.start
           e == w.end
           B == Breakpoint
           old == [from |-> s, to |-> IF B <= e THEN B ELSE e]
           new == [from |-> IF B <= s THEN s ELSE B, to |-> e]
           qs == (IF s < B THEN <<old>> ELSE <<>>) \o (IF e > B THEN <<new>> ELSE <<>>)
<1>1. s \in Nat /\ e \in Nat /\ B \in Int /\ s <= e /\ e <= Now /\ Now \in Nat
  BY PriceConstants DEF Asked, ValidRange
<1>2. Queries(c, w) = qs
  <2>1. Min({B, e}) = IF B <= e THEN B ELSE e
    BY <1>1, MinOfTwo
  <2>2. Max({B, s}) = IF B <= s THEN s ELSE B
    BY <1>1, MaxOfTwo
  <2>3. Queries(c, w) = apiRanges(w)
    BY DEF Queries
  <2> QED BY <2>1, <2>2, <2>3 DEF apiRanges
<1>3. \A ts \in s..e : Age(c, ts) = IF ts > B THEN Hour ELSE Day
  BY DEF Age, UsesGranularity
<1>4. Hour \in Nat /\ Day \in Nat /\ Hour <= Day
  BY PriceConstants
<1> HIDE DEF s, e, B
<1>5. old \in QueryRange /\ new \in QueryRange
  BY <1>1 DEF QueryRange
<1>6. ASSUME NEW ts \in s..e, ts <= B, s < B
      PROVE  \E p \in Answer(c, old) : p <= ts /\ ts - p < Age(c, ts)
  <2> DEFINE to == IF B <= e THEN B ELSE e
  <2>1. to \in Int /\ to <= Now /\ ts \in s..to /\ s \in Int /\ s <= Now
    BY <1>1, <1>6
  <2>2. PICK p \in Answer(c, old) : p <= ts /\ ts - p < (IF s >= Breakpoint THEN Hour ELSE Day)
    <3> HIDE DEF to
    <3> QED BY <2>1, GeckoAnswer DEF to
  <2>3. Age(c, ts) = Day /\ ~(s >= Breakpoint)
    BY <1>1, <1>3, <1>6 DEF B
  <2> QED BY <2>2, <2>3
<1>7. ASSUME NEW ts \in s..e, e > B, B <= ts
      PROVE  \E p \in Answer(c, new) : p <= ts /\ ts - p < Age(c, ts)
  <2> DEFINE from == IF B <= s THEN s ELSE B
  <2>1. from \in Int /\ from <= Now /\ ts \in from..e /\ e \in Int /\ e <= Now
    BY <1>1, <1>7
  <2>2. from >= B
    BY <1>1
  <2>3. PICK p \in Answer(c, new) :
          p <= ts /\ ts - p < (IF from >= Breakpoint THEN Hour ELSE Day)
    <3> HIDE DEF from
    <3> QED BY <2>1, GeckoAnswer DEF from
  <2>4. ts - p < Hour
    BY <2>2, <2>3 DEF B
  <2>5. Age(c, ts) = Hour \/ Age(c, ts) = Day
    BY <1>3
  <2>6. p \in Int
    BY <2>3 DEF Answer, UsesGranularity, Multiples
  <2> QED BY <1>4, <2>3, <2>4, <2>5, <2>6
<1> HIDE DEF old, new
<1>8. CASE s < B /\ e > B
  <2>1. qs = <<old, new>>
    <3>1. qs = <<old>> \o <<new>>
      BY <1>8
    <3>2. <<old>> \o <<new>> = <<old, new>>
      <4> DEFINE one == <<old>>
                 other == <<new>>
                 both == <<old, new>>
      <4>1. /\ one \in Seq(QueryRange) /\ Len(one) = 1 /\ one[1] = old
            /\ other \in Seq(QueryRange) /\ Len(other) = 1 /\ other[1] = new
            /\ both \in Seq(QueryRange) /\ Len(both) = 2 /\ both[1] = old /\ both[2] = new
        BY <1>5
      <4> HIDE DEF one, other, both
      <4>2. /\ one \o other \in Seq(QueryRange) /\ Len(one \o other) = 2
            /\ (one \o other)[1] = old /\ (one \o other)[2] = new
        <5>1. /\ one \o other \in Seq(QueryRange) /\ Len(one \o other) = Len(one) + Len(other)
              /\ \A i \in 1..(Len(one) + Len(other)) :
                   (one \o other)[i] = IF i <= Len(one) THEN one[i] ELSE other[i - Len(one)]
          BY <4>1, ConcatProperties
        <5> QED BY <4>1, <5>1
      <4>3. one \o other = both
        BY <4>1, <4>2, SeqEqual
      <4> QED BY <4>3 DEF one, other, both
    <3> QED BY <3>1, <3>2
  <2>2. qs \in Seq(QueryRange) /\ Answers(c, qs) = Answer(c, old) \cup Answer(c, new)
    BY <1>5, <2>1, AnswersOfTwo
  <2>3. ASSUME NEW ts \in s..e PROVE Recent(Answers(c, qs), c, ts)
    <3>1. CASE ts <= B
      <4>1. PICK p \in Answer(c, old) : p <= ts /\ ts - p < Age(c, ts)
        BY <1>6, <1>8, <3>1
      <4> QED BY <2>2, <4>1 DEF Recent
    <3>2. CASE B <= ts
      <4>1. PICK p \in Answer(c, new) : p <= ts /\ ts - p < Age(c, ts)
        BY <1>7, <1>8, <3>2
      <4> QED BY <2>2, <4>1 DEF Recent
    <3> QED BY <1>1, <3>1, <3>2
  <2> QED BY <1>2, <2>2, <2>3 DEF s, e
<1>9. CASE s < B /\ ~(e > B)
  <2>1. qs = <<old>>
    BY <1>9
  <2>2. qs \in Seq(QueryRange) /\ Answers(c, qs) = Answer(c, old)
    BY <1>5, <2>1, AnswersOfOne
  <2>3. \A ts \in s..e : Recent(Answers(c, qs), c, ts)
    BY <1>1, <1>6, <1>9, <2>2 DEF Recent
  <2> QED BY <1>2, <2>2, <2>3 DEF s, e
<1>10. CASE ~(s < B) /\ e > B
  <2>1. qs = <<new>>
    BY <1>10
  <2>2. qs \in Seq(QueryRange) /\ Answers(c, qs) = Answer(c, new)
    BY <1>5, <2>1, AnswersOfOne
  <2>3. \A ts \in s..e : Recent(Answers(c, qs), c, ts)
    BY <1>1, <1>7, <1>10, <2>2 DEF Recent
  <2> QED BY <1>2, <2>2, <2>3 DEF s, e
<1>11. CASE ~(s < B) /\ ~(e > B)
  <2>1. qs = <<>> /\ s = e /\ s = B
    BY <1>1, <1>11
  <2> QED BY <1>2, <2>1 DEF OnEdge, s, e, B
<1> QED BY <1>8, <1>9, <1>10, <1>11

\* A day's price: that of the day, or for today the day before.
LEMMA DailyRecent ==
  ASSUME NEW c, NEW w, Asked(c, w),
         c.backend \notin {"coincap", "coinbase", "bitfinex", "coingecko", "custom"}
  PROVE  /\ Queries(c, w) \in Seq(QueryRange)
         /\ \A ts \in w.start..w.end : Recent(Answers(c, Queries(c, w)), c, ts)
<1> DEFINE s == w.start
           e == w.end
           q == [from |-> s - Day, to |-> e]
           today == Truncate(Now, Day)
           first == Truncate(s - Day, Day)
           last == IF e <= today - 1 THEN e ELSE today - 1
<1>1. /\ s \in Nat /\ e \in Nat /\ s <= e /\ e <= Now /\ Now \in Nat /\ Day \in Nat \ {0}
      /\ s - Day \in Int
  BY PriceConstants DEF Asked, ValidRange
<1>2. Queries(c, w) = <<q>>
  BY DEF Queries, CoinDeskQueries
<1>3. q \in QueryRange
  BY <1>1 DEF QueryRange
<1>4. today \in Int /\ first \in Int
  BY <1>1, TruncateIs
<1>5. Answer(c, q) = Multiples(Day, first, last)
  <2>1. Min({e, today - 1}) = last
    <3> HIDE DEF e, today
    <3> QED BY <1>1, <1>4, MinOfTwo
  <2>2. Answer(c, q) = Multiples(Day, first, Min({e, today - 1}))
    BY DEF Answer, UsesGranularity
  <2> QED BY <2>1, <2>2
<1>6. <<q>> \in Seq(QueryRange) /\ Answers(c, <<q>>) = Multiples(Day, first, last)
  BY <1>3, <1>5, AnswersOfOne
<1>7. ASSUME NEW ts \in s..e
      PROVE  \E p \in Multiples(Day, first, last) : p <= ts /\ ts - p < 2 * Day
  <2> HIDE DEF s, e
  <2> DEFINE d == Truncate(ts, Day)
             b == Truncate(ts - Day, Day)
  <2>1. ts \in Int /\ ts - Day \in Int
    BY <1>1
  <2>2. /\ d \in Int /\ d % Day = 0 /\ d <= ts /\ ts - d < Day
        /\ b \in Int /\ b % Day = 0 /\ b <= ts - Day /\ (ts - Day) - b < Day
    BY ONLY <1>1, <2>1, TruncateIs
  <2>3. first <= b /\ b <= d
    BY <1>1, <2>1, TruncateMonotone
  <2>4. d <= today /\ b <= Truncate(Now - Day, Day)
    BY <1>1, <2>1, TruncateMonotone
  <2>5. today <= Now /\ Now - today < Day
    BY ONLY <1>1, TruncateIs
  <2>6. Truncate(Now - Day, Day) <= today - 1
    <3>1. Truncate(Now - Day, Day) \in Int /\ Truncate(Now - Day, Day) <= Now - Day
      BY <1>1, TruncateIs
    <3> QED BY <1>1, <1>4, <2>5, <3>1
  <2> HIDE DEF d, b, today, first
  <2>7. CASE d <= today - 1
    <3>1. d <= last
      BY <1>1, <1>4, <2>1, <2>2, <2>7
    <3>2. d \in Multiples(Day, first, last)
      BY <1>1, <1>4, <2>2, <2>3, <3>1 DEF Multiples
    <3>3. ts - d < 2 * Day
      BY <1>1, <2>1, <2>2
    <3> QED BY <2>2, <3>2, <3>3
  <2>8. CASE ~(d <= today - 1)
    <3>1. Truncate(Now - Day, Day) \in Int
      BY <1>1, TruncateIs
    <3>2. b <= last
      BY <1>1, <1>4, <2>1, <2>2, <2>4, <2>6, <3>1
    <3>3. b \in Multiples(Day, first, last)
      BY <1>1, <1>4, <2>2, <2>3, <3>2 DEF Multiples
    <3>4. b <= ts /\ ts - b < 2 * Day
      BY <1>1, <2>1, <2>2
    <3> QED BY <3>3, <3>4
  <2> QED BY <2>7, <2>8
<1>8. \A ts \in s..e : Age(c, ts) = 2 * Day
  BY DEF Age, UsesGranularity
<1> HIDE DEF q, first, last, today
<1>9. \A ts \in s..e : Recent(Answers(c, <<q>>), c, ts)
  BY <1>6, <1>7, <1>8 DEF Recent
<1> QED BY <1>2, <1>6, <1>9

\* Whatever backend is asked, its queries cover the window; nothing is asked for
\* one time on the edge of the ranges.
LEMMA QueriesCover ==
  ASSUME NEW c, NEW w, Asked(c, w), c.backend # "custom"
  PROVE  \/ Queries(c, w) = <<>> /\ OnEdge(c, w)
         \/ /\ Queries(c, w) \in Seq(QueryRange)
            /\ \A ts \in w.start..w.end : Recent(Answers(c, Queries(c, w)), c, ts)
<1>1. CASE c.backend = "coincap"
  <2>1. w.start \in w.start..w.end
    BY DEF Asked, ValidRange
  <2> QED BY <1>1, <2>1, CoinCapRecent
<1>2. CASE c.backend \in {"coinbase", "bitfinex"}
  BY <1>2, CandleRecent
<1>3. CASE c.backend = "coingecko"
  BY <1>3, GeckoRecent
<1>4. CASE c.backend \notin {"coincap", "coinbase", "bitfinex", "coingecko", "custom"}
  BY <1>4, DailyRecent
<1> QED BY <1>1, <1>2, <1>3, <1>4

\* Answers are times.
LEMMA AnswerIsTimes ==
  ASSUME NEW c, NEW q \in QueryRange
  PROVE  Answer(c, q) \subseteq Int
<1>1. q.from \in Int /\ q.to \in Int
  BY DEF QueryRange
<1> QED BY <1>1, PriceConstants DEF Answer, Multiples

\* A request that is not refused can be asked for, if its range can.
LEMMA RequestIsAsked ==
  ASSUME NEW backend, NEW g, NEW custom \in SUBSET Nat, NEW w \in [start : Nat, end : Nat],
         ~BadPriceRequest(backend, g, custom, w), ValidRange(w)
  PROVE  Asked(priceCfgFromRPC(backend, g, custom, w), w)
<1> DEFINE c == priceCfgFromRPC(backend, g, custom, w)
<1>1. /\ c.backend = backend /\ c.points = custom
      /\ UsesGranularity(backend) => c.gran = granularityFromRPC(g, w.end - w.start)
  BY DEF priceCfgFromRPC
<1>2. backend # "custom" => custom = {}
  BY DEF BadPriceRequest
<1>3. backend = "custom" => \E p \in custom : p < w.start
  BY DEF BadPriceRequest
<1>4. ASSUME UsesGranularity(backend)
      PROVE  granularityFromRPC(g, w.end - w.start) \in DOMAIN Granularities
  <2>1. CASE g # Unset
    BY <1>4, <2>1 DEF BadPriceRequest, granularityFromRPC
  <2>2. CASE g = Unset
    <3>1. LongEnough(w.end - w.start) # {}
      BY <1>4, <2>2 DEF BadPriceRequest
    <3>2. DOMAIN Granularities \subseteq Nat
      <4>1. Granularities \in Seq(Granularity)
        BY PriceAssumption DEF Granularity
      <4> QED BY <4>1
    <3>3. LongEnough(w.end - w.start) \in SUBSET Nat
      BY <3>2 DEF LongEnough
    <3>4. Min(LongEnough(w.end - w.start)) \in LongEnough(w.end - w.start)
      BY <3>1, <3>3, LeastOf
    <3> QED BY <2>2, <3>4 DEF granularityFromRPC, LongEnough
  <2> QED BY <2>1, <2>2
<1> HIDE DEF c
<1> QED BY <1>1, <1>2, <1>3, <1>4 DEF Asked, c

-----------------------------------------------------------------------------
(* Prices: the call. *)

\* What the search, the report and its prices go on with was accepted.
Accepted ==
  /\ RequestOK /\ req.custom \in SUBSET Nat
  /\ stage \notin {"idle", "rates", "done", "failed"} => ~Refused

\* While prices are fetched, what was fetched and what is still to come have a
\* recent price for each time of the window.
PricesCovered ==
  Fetching =>
    /\ Asked(cfg, span)
    /\ points \in SUBSET Int /\ todo \in Seq(QueryRange)
    /\ cfg.points \subseteq points
    /\ cfg.backend # "custom" =>
         \/ points = {} /\ todo = <<>> /\ OnEdge(cfg, span)
         \/ \A ts \in span.start..span.end : Recent(points \cup Answers(cfg, todo), cfg, ts)

\* A request is accepted once, and stays what it is.
LEMMA AcceptedStep == Accepted /\ [Next]_auditVars => Accepted'
<1> SUFFICES ASSUME Accepted, [Next]_auditVars PROVE Accepted'
  OBVIOUS
<1>1. req' = req => Window' = Window /\ (Refused' <=> Refused) /\ (RequestOK' <=> RequestOK)
  BY DEF Window, Refused, RequestOK
<1>2. ASSUME req' = req,
             \/ stage' \in {"idle", "rates", "done", "failed"}
             \/ stage \notin {"idle", "rates", "done", "failed"}
             \/ ~Refused
      PROVE  Accepted'
  BY <1>1, <1>2 DEF Accepted
<1>3. CASE AuditBegins
  BY <1>2, <1>3 DEF AuditBegins, callVars
<1>4. CASE BlockMined \/ SearchHeights \/ ChannelMoves \/ PaymentMoves
  <2>1. req' = req /\ stage' = stage
    BY <1>4 DEF BlockMined, SearchHeights, ChannelMoves, PaymentMoves, callVars
  <2> QED BY <1>1, <2>1 DEF Accepted
<1>5. CASE AuditRefused \/ CannotAsk \/ FetchFails \/ ErrReceiveWithFee \/ CallFails
  BY <1>2, <1>5
  DEF AuditRefused, CannotAsk, FetchFails, ErrReceiveWithFee, CallFails, Fail, To, callVars
<1>6. CASE WithoutPrices \/ AskPrices
  BY <1>2, <1>6 DEF WithoutPrices, AskPrices, BeforePrices, To, callVars
<1>7. CASE Fetched
  <2>1. req' = req /\ stage \in {"prices", "prices2", "rates"}
    BY <1>7 DEF Fetched, Fetching, To, callVars
  <2>2. stage = "rates" => stage' \in {"done", "failed"}
    BY <1>7 DEF Fetched, To
  <2> QED BY <1>2, <2>1, <2>2
<1>8. CASE Fetch
  <2>1. req' = req /\ stage' = stage
    BY <1>8 DEF Fetch, callVars
  <2> QED BY <1>1, <2>1 DEF Accepted
<1>9. CASE RatesBegin
  BY <1>2, <1>9 DEF RatesBegin, Fail, To, callVars
<1>10. CASE ListTransactions \/ PendingChannels \/ OpenChannels \/ ClosedChannels \/ ListSweeps
  BY <1>2, <1>10
  DEF ListTransactions, PendingChannels, OpenChannels, ClosedChannels, ListSweeps, AddChannels
<1>11. CASE ListInvoices
  BY <1>2, <1>11 DEF ListInvoices, QueryPaginated
<1>12. CASE ListPayments
  BY <1>2, <1>12 DEF ListPayments, QueryPaginated
<1>13. CASE ListForwards
  BY <1>2, <1>13 DEF ListForwards, QueryPaginated
<1>14. CASE Finished \/ UNCHANGED auditVars
  <2>1. req' = req /\ stage' = stage
    BY <1>14 DEF Finished, auditVars, callVars
  <2> QED BY <1>1, <2>1 DEF Accepted
<1> QED
  BY <1>3, <1>4, <1>5, <1>6, <1>7, <1>8, <1>9, <1>10, <1>11, <1>12, <1>13, <1>14 DEF Next

\* Prices are asked for a request that was accepted.
LEMMA PricesBegin ==
  ASSUME NEW c, NEW w, Asked(c, w), BeginPrices(c, w)
  PROVE  PricesCovered'
<1>1. cfg' = c /\ span' = w /\ todo' = Queries(c, w) /\ points' = c.points
  BY DEF BeginPrices
<1>2. c.points \in SUBSET Int
  BY DEF Asked
<1>3. CASE c.backend = "custom"
  <2>1. Queries(c, w) = <<>>
    BY <1>3 DEF Queries
  <2>2. Queries(c, w) \in Seq(QueryRange)
    BY <2>1
  <2> QED BY <1>1, <1>2, <1>3, <2>2 DEF PricesCovered
<1>4. CASE c.backend # "custom"
  <2>1. c.points = {}
    BY <1>4 DEF Asked
  <2>2. CASE Queries(c, w) = <<>> /\ OnEdge(c, w)
    <3>1. Queries(c, w) \in Seq(QueryRange)
      BY <2>2
    <3> QED BY <1>1, <1>2, <2>1, <2>2, <3>1 DEF PricesCovered
  <2>3. CASE /\ Queries(c, w) \in Seq(QueryRange)
             /\ \A ts \in w.start..w.end : Recent(Answers(c, Queries(c, w)), c, ts)
    <3>1. c.points \cup Answers(c, Queries(c, w)) = Answers(c, Queries(c, w))
      BY <2>1
    <3>2. \A ts \in w.start..w.end : Recent(c.points \cup Answers(c, Queries(c, w)), c, ts)
      BY <2>3, <3>1
    <3> QED BY <1>1, <1>2, <2>3, <3>2 DEF PricesCovered
  <2> QED BY <1>4, <2>2, <2>3, QueriesCover
<1> QED BY <1>3, <1>4

\* The answer to the first of the queries takes its place among the points.
LEMMA AnswersOfTail ==
  ASSUME NEW c, NEW qs \in Seq(QueryRange), qs # <<>>
  PROVE  /\ Head(qs) \in QueryRange /\ Tail(qs) \in Seq(QueryRange)
         /\ Answers(c, qs) \subseteq Answer(c, Head(qs)) \cup Answers(c, Tail(qs))
<1>1. /\ Head(qs) \in QueryRange /\ Tail(qs) \in Seq(QueryRange)
      /\ Len(Tail(qs)) = Len(qs) - 1 /\ Len(qs) \in Nat
      /\ \A i \in 1..Len(Tail(qs)) : Tail(qs)[i] = qs[i + 1]
  BY HeadTailProperties
<1> DEFINE t == Tail(qs)
<1>2. ASSUME NEW p \in Answers(c, qs)
      PROVE  p \in Answer(c, Head(qs)) \cup Answers(c, t)
  <2>1. PICK i \in 1..Len(qs) : p \in Answer(c, qs[i])
    BY DEF Answers
  <2>2. CASE i = 1
    BY <2>1, <2>2
  <2>3. CASE i # 1
    <3>1. i - 1 \in 1..Len(t) /\ (i - 1) + 1 = i
      BY <1>1, <2>3
    <3>2. t[i - 1] = qs[i]
      BY <1>1, <3>1
    <3> HIDE DEF t
    <3>3. i - 1 \in DOMAIN t
      BY <1>1, <3>1 DEF t
    <3>4. p \in Answer(c, t[i - 1])
      BY <2>1, <3>2
    <3> QED BY <3>3, <3>4 DEF Answers
  <2> QED BY <2>2, <2>3
<1> QED BY <1>1, <1>2

\* The last query of a fetch completes the price points of the window.
LEMMA PricesFetched ==
  ASSUME PricesCovered, Fetch
  PROVE  PricesCovered'
<1>1. Fetching /\ todo # <<>> /\ UNCHANGED <<stage, cfg, span>>
  BY DEF Fetch, QueryOk, QueryRetry
<1>2. /\ Asked(cfg, span) /\ points \in SUBSET Int /\ todo \in Seq(QueryRange)
      /\ cfg.points \subseteq points
      /\ cfg.backend # "custom" =>
           \A ts \in span.start..span.end : Recent(points \cup Answers(cfg, todo), cfg, ts)
  BY <1>1 DEF PricesCovered
<1>3. CASE QueryRetry
  <2>1. UNCHANGED <<points, todo>>
    BY <1>3 DEF QueryRetry
  <2> QED BY <1>1, <1>2, <2>1 DEF PricesCovered
<1>4. CASE QueryOk
  <2>1. points' = points \cup Answer(cfg, Head(todo)) /\ todo' = Tail(todo)
    BY <1>4 DEF QueryOk
  <2>2. /\ Head(todo) \in QueryRange /\ Tail(todo) \in Seq(QueryRange)
        /\ Answers(cfg, todo) \subseteq Answer(cfg, Head(todo)) \cup Answers(cfg, Tail(todo))
    BY <1>1, <1>2, AnswersOfTail
  <2>3. points' \in SUBSET Int /\ todo' \in Seq(QueryRange) /\ cfg.points \subseteq points'
    BY <1>2, <2>1, <2>2, AnswerIsTimes
  <2>4. points \cup Answers(cfg, todo) \subseteq points' \cup Answers(cfg, todo')
    BY <2>1, <2>2
  <2>5. cfg.backend # "custom" =>
          \A ts \in span.start..span.end : Recent(points' \cup Answers(cfg, todo'), cfg, ts)
    BY <1>2, <2>4 DEF Recent
  <2> QED BY <1>1, <1>2, <2>3, <2>5 DEF PricesCovered
<1> QED BY <1>3, <1>4 DEF Fetch

\* Every step keeps the price points of the window complete.
LEMMA PricesCoveredStep == Accepted /\ PricesCovered /\ [Next]_auditVars => PricesCovered'
<1> SUFFICES ASSUME Accepted, PricesCovered, [Next]_auditVars PROVE PricesCovered'
  OBVIOUS
<1>1. ASSUME UNCHANGED priceVars, stage' = stage \/ stage' \notin {"prices", "prices2", "rates"}
      PROVE  PricesCovered'
  BY <1>1 DEF PricesCovered, Fetching, priceVars
<1>2. CASE AskPrices
  <2>1. BeforePrices /\ ValidRange(Window) /\ BeginPrices(RequestCfg, Window)
    BY <1>2 DEF AskPrices, CanAsk
  <2>2. ~BadPriceRequest(req.backend, req.gran, req.custom, Window) /\ RequestOK
        /\ req.custom \in SUBSET Nat
    BY <2>1 DEF BeforePrices, Accepted, Refused
  <2>3. Window \in [start : Nat, end : Nat]
    BY <2>2, WindowType
  <2>4. Asked(RequestCfg, Window)
    BY <2>1, <2>2, <2>3, RequestIsAsked DEF RequestCfg
  <2> QED BY <2>1, <2>4, PricesBegin
<1>3. CASE RatesBegin
  <2> DEFINE w == [start |-> req.start, end |-> req.end]
             c == priceCfgFromRPC(req.backend, req.gran, req.custom, w)
  <2>1. w \in [start : Nat, end : Nat] /\ req.custom \in SUBSET Nat
    BY DEF Accepted, RequestOK
  <2>2. CASE BadPriceRequest(req.backend, req.gran, req.custom, w) \/ ~CanAsk(c, w)
    BY <1>1, <1>3, <2>2 DEF RatesBegin, Fail, To
  <2>3. CASE ~(BadPriceRequest(req.backend, req.gran, req.custom, w) \/ ~CanAsk(c, w))
    <3>1. BeginPrices(c, w)
      BY <1>3, <2>3 DEF RatesBegin
    <3>2. ValidRange(w)
      BY <2>3 DEF CanAsk
    <3>3. Asked(c, w)
      BY <2>1, <2>3, <3>2, RequestIsAsked
    <3> QED BY <3>1, <3>3, PricesBegin
  <2> QED BY <2>2, <2>3
<1>4. CASE Fetch
  BY <1>4, PricesFetched
<1>5. CASE BlockMined \/ SearchHeights \/ ChannelMoves \/ PaymentMoves
  BY <1>1, <1>5 DEF BlockMined, SearchHeights, ChannelMoves, PaymentMoves
<1>6. CASE AuditRefused \/ CannotAsk \/ WithoutPrices \/ FetchFails \/ ErrReceiveWithFee
           \/ CallFails
  BY <1>1, <1>6
  DEF AuditRefused, CannotAsk, WithoutPrices, FetchFails, ErrReceiveWithFee, CallFails, Fail, To
<1>7. CASE Fetched
  <2>1. UNCHANGED priceVars /\ stage' \in {"txns", "invoices", "done", "failed"}
    BY <1>7 DEF Fetched, Fetching, To
  <2> QED BY <1>1, <2>1
<1>8. CASE AuditBegins
  BY <1>1, <1>8 DEF AuditBegins
<1>9. CASE ListTransactions \/ PendingChannels \/ OpenChannels \/ ClosedChannels \/ ListSweeps
  BY <1>1, <1>9
  DEF ListTransactions, PendingChannels, OpenChannels, ClosedChannels, ListSweeps, AddChannels
<1>10. CASE ListInvoices
  BY <1>1, <1>10 DEF ListInvoices, QueryPaginated, InvoicesRead
<1>11. CASE ListPayments
  BY <1>1, <1>11 DEF ListPayments, QueryPaginated, PaymentsRead
<1>12. CASE ListForwards
  BY <1>1, <1>12 DEF ListForwards, QueryPaginated, ForwardsRead
<1>13. CASE Finished \/ UNCHANGED auditVars
  BY <1>1, <1>13 DEF Finished, auditVars
<1> QED
  BY <1>2, <1>3, <1>4, <1>5, <1>6, <1>7, <1>8, <1>9, <1>10, <1>11, <1>12, <1>13 DEF Next

\* For every backend, window, granularity and retry, also at the seams of the
\* queries and on the edges of the window: when the queries are answered, each
\* time has a price that is not later and no older than the backend's
\* granularity (PricesFresh).
THEOREM PricesAreFresh == Spec => []PricesFresh
<1>1. Init => Accepted /\ PricesCovered
  <2> SUFFICES ASSUME Init PROVE Accepted /\ PricesCovered
    OBVIOUS
  <2>1. stage = "idle" /\ RequestOK /\ req.custom \in SUBSET Nat
    BY AuditAssumption DEF Init, RequestOK
  <2> QED BY <2>1 DEF Accepted, PricesCovered, Fetching
<1>2. (Accepted /\ PricesCovered) /\ [Next]_auditVars => (Accepted /\ PricesCovered)'
  BY AcceptedStep, PricesCoveredStep
<1>3. PricesCovered => PricesFresh
  <2> SUFFICES ASSUME PricesCovered, Fetching, todo = <<>> PROVE WindowPriced
    BY DEF PricesFresh
  <2>1. /\ Asked(cfg, span) /\ points \in SUBSET Int /\ cfg.points \subseteq points
        /\ cfg.backend # "custom" =>
             \/ points = {} /\ OnEdge(cfg, span)
             \/ \A ts \in span.start..span.end : Recent(points \cup Answers(cfg, todo), cfg, ts)
    BY DEF PricesCovered
  <2>2. Answers(cfg, todo) = {}
    <3>1. DOMAIN todo = {}
      OBVIOUS
    <3> QED BY <3>1 DEF Answers
  <2>3. CASE cfg.backend = "custom"
    <3>1. PICK p \in cfg.points : p < span.start
      BY <2>1, <2>3 DEF Asked
    <3>2. ASSUME NEW ts \in span.start..span.end
          PROVE  /\ HasPrice(points, ts) /\ GetPrice(points, ts) <= ts
                 /\ \A q \in cfg.points : q <= ts => q <= GetPrice(points, ts)
      <4>1. p \in points /\ p <= ts /\ ts \in Int
        BY <2>1, <3>1 DEF Asked
      <4> QED BY <2>1, <4>1, LatestPoint
    <3> QED BY <2>3, <3>2 DEF WindowPriced
  <2>4. CASE points = {} /\ OnEdge(cfg, span)
    BY <2>4 DEF WindowPriced, OnEdge
  <2>5. CASE /\ cfg.backend # "custom"
             /\ \A ts \in span.start..span.end : Recent(points \cup Answers(cfg, todo), cfg, ts)
    <3>1. ASSUME NEW ts \in span.start..span.end
          PROVE  /\ HasPrice(points, ts) /\ GetPrice(points, ts) <= ts
                 /\ ts - GetPrice(points, ts) < Age(cfg, ts)
      <4>1. PICK p \in points : p <= ts /\ ts - p < Age(cfg, ts)
        BY <2>2, <2>5 DEF Recent
      <4>2. ts \in Int /\ p \in Int
        BY <2>1 DEF Asked
      <4>3. /\ HasPrice(points, ts) /\ GetPrice(points, ts) \in points
            /\ GetPrice(points, ts) <= ts /\ p <= GetPrice(points, ts)
        BY <2>1, <4>1, <4>2, LatestPoint
      <4>4. Age(cfg, ts) \in Int
        <5>1. CASE UsesGranularity(cfg.backend)
          <6>1. cfg.gran \in DOMAIN Granularities
            BY <2>1, <5>1 DEF Asked
          <6>2. Granularities[cfg.gran] \in Granularity
            BY <6>1, PriceConstants
          <6>3. Age(cfg, ts) = Granularities[cfg.gran].agg
            BY <5>1 DEF Age, UsesGranularity
          <6> QED BY <6>2, <6>3 DEF Granularity
        <5>2. CASE ~UsesGranularity(cfg.backend)
          <6>1. Age(cfg, ts) \in {Hour, Day, 2 * Day}
            BY <5>2 DEF Age
          <6> QED BY <6>1, PriceConstants
        <5> QED BY <5>1, <5>2
      <4>5. GetPrice(points, ts) \in Int
        BY <2>1, <4>3
      <4> QED BY <4>1, <4>2, <4>3, <4>4, <4>5
    <3> QED BY <2>5, <3>1 DEF WindowPriced
  <2> QED BY <2>1, <2>3, <2>4, <2>5
<1> QED BY <1>1, <1>2, <1>3, PTL DEF Spec

-----------------------------------------------------------------------------
(* Lists: in order, chosen, put together, sorted.                            *)

\* Where the parts of a list that was put together lie in it: the i-th begins
\* after the first off[i - 1] items.
Parts(whole, ss, n, off) ==
  /\ off[0] = 0 /\ Len(whole) = off[n]
  /\ \A i \in 1..n : off[i] = off[i - 1] + Len(ss[i])
  /\ \A i \in 1..n : \A j \in 1..Len(ss[i]) : /\ off[i - 1] + j \in 1..off[n]
                                              /\ whole[off[i - 1] + j] = ss[i][j]
  /\ \A k \in 1..off[n] : \E i \in 1..n : \E j \in 1..Len(ss[i]) : k = off[i - 1] + j

\* One more part.
LEMMA PartsAppend ==
  ASSUME NEW S, NEW n \in Nat, NEW ss, \A i \in 1..(n + 1) : ss[i] \in Seq(S),
         NEW w \in Seq(S), NEW off \in [0..n -> Nat], Parts(w, ss, n, off)
  PROVE  \E o \in [0..(n + 1) -> Nat] : Parts(w \o ss[n + 1], ss, n + 1, o)
<1> DEFINE t == ss[n + 1]
           o == [i \in 0..(n + 1) |-> IF i = n + 1 THEN off[n] + Len(t) ELSE off[i]]
           v == w \o t
<1>1. t \in Seq(S) /\ Len(t) \in Nat /\ off[n] \in Nat /\ Len(w) = off[n]
  BY DEF Parts
<1>2. /\ v \in Seq(S) /\ Len(v) = off[n] + Len(t)
      /\ \A k \in 1..off[n] : v[k] = w[k]
      /\ \A j \in 1..Len(t) : v[off[n] + j] = t[j]
  <2> HIDE DEF t
  <2>1. /\ w \o t \in Seq(S) /\ Len(w \o t) = Len(w) + Len(t)
        /\ \A k \in 1..Len(w) : (w \o t)[k] = w[k]
        /\ \A j \in 1..Len(t) : (w \o t)[Len(w) + j] = t[j]
    BY <1>1, ConcatIs
  <2> QED BY <1>1, <2>1
<1>3. /\ o \in [0..(n + 1) -> Nat] /\ o[n + 1] = off[n] + Len(t)
      /\ \A i \in 0..n : o[i] = off[i]
  BY <1>1
<1> HIDE DEF o, v
<1>4. o[0] = 0 /\ Len(v) = o[n + 1]
  BY <1>2, <1>3 DEF Parts
<1>5. ASSUME NEW i \in 1..(n + 1) PROVE o[i] = o[i - 1] + Len(ss[i])
  <2>1. CASE i = n + 1
    BY <1>1, <1>3, <2>1
  <2>2. CASE i # n + 1
    <3>1. i \in 1..n /\ i - 1 \in 0..n /\ i \in 0..n
      BY <2>2
    <3> QED BY <1>3, <3>1 DEF Parts
  <2> QED BY <2>1, <2>2
<1>6. ASSUME NEW i \in 1..(n + 1), NEW j \in 1..Len(ss[i])
      PROVE  o[i - 1] + j \in 1..o[n + 1] /\ v[o[i - 1] + j] = ss[i][j]
  <2>1. CASE i = n + 1
    <3>1. o[i - 1] = off[n]
      BY <1>3, <2>1
    <3> QED BY <1>1, <1>2, <1>3, <2>1, <3>1
  <2>2. CASE i # n + 1
    <3>1. i \in 1..n /\ i - 1 \in 0..n
      BY <2>2
    <3>2. off[i - 1] + j \in 1..off[n] /\ w[off[i - 1] + j] = ss[i][j]
      BY <3>1 DEF Parts
    <3>3. o[i - 1] = off[i - 1]
      BY <1>3, <3>1
    <3>4. off[i - 1] + j \in 1..o[n + 1] /\ v[off[i - 1] + j] = ss[i][j]
      <4> DEFINE k == off[i - 1] + j
      <4>1. k \in 1..off[n] /\ w[k] = ss[i][j]
        BY <3>2
      <4> HIDE DEF k
      <4>2. k \in 1..o[n + 1]
        BY <1>1, <1>3, <4>1
      <4>3. v[k] = w[k]
        BY <1>2, <4>1
      <4> QED BY <4>1, <4>2, <4>3 DEF k
    <3> QED BY <3>3, <3>4
  <2> QED BY <2>1, <2>2
<1>7. ASSUME NEW k \in 1..o[n + 1]
      PROVE  \E i \in 1..(n + 1) : \E j \in 1..Len(ss[i]) : k = o[i - 1] + j
  <2>1. CASE k <= off[n]
    <3>1. PICK i \in 1..n : \E j \in 1..Len(ss[i]) : k = off[i - 1] + j
      BY <1>1, <2>1 DEF Parts
    <3>2. i \in 1..(n + 1) /\ i - 1 \in 0..n
      OBVIOUS
    <3> QED BY <1>3, <3>1, <3>2
  <2>2. CASE ~(k <= off[n])
    <3>1. k - off[n] \in 1..Len(t) /\ k = off[n] + (k - off[n])
      BY <1>1, <1>3, <2>2
    <3>2. o[(n + 1) - 1] = off[n] /\ n + 1 \in 1..(n + 1)
      BY <1>3
    <3> QED BY <3>1, <3>2
  <2> QED BY <2>1, <2>2
<1>8. Parts(v, ss, n + 1, o)
  BY <1>4, <1>5, <1>6, <1>7 DEF Parts
<1> QED BY <1>3, <1>8 DEF v

\* FlattenSeq puts the parts together.
LEMMA FlattenIs ==
  ASSUME NEW S, NEW ss \in Seq(Seq(S))
  PROVE  /\ FlattenSeq(ss) \in Seq(S)
         /\ \E off \in [0..Len(ss) -> Nat] : Parts(FlattenSeq(ss), ss, Len(ss), off)
<1> DEFINE n == Len(ss)
           Step(h, i) == h[i] = IF i = 1 THEN ss[i] ELSE h[i - 1] \o ss[i]
           K(h) == h = [i \in 1..n |-> IF i = 1 THEN ss[i] ELSE h[i - 1] \o ss[i]]
           k0 == CHOOSE h : K(h)
<1>1. n \in Nat /\ DOMAIN ss = 1..n /\ \A i \in 1..n : ss[i] \in Seq(S)
  OBVIOUS
<1>0. n = Len(ss)
  OBVIOUS
<1> HIDE DEF n
<1>2. CASE n = 0
  <2>1. FlattenSeq(ss) = ss /\ ss = <<>>
    <3>1. FlattenSeq(ss) = ss
      BY <1>0, <1>2 DEF FlattenSeq
    <3> QED BY <1>0, <1>2, <3>1, EmptySeq
  <2> DEFINE o == [i \in 0..0 |-> 0]
  <2>2. Parts(ss, ss, n, o)
    <3>1. 1..n = {} /\ o[0] = 0 /\ o[n] = 0 /\ 1..o[n] = {}
      BY <1>2
    <3> HIDE DEF o
    <3> QED BY <1>0, <1>2, <3>1 DEF Parts
  <2> QED BY <1>0, <1>2, <2>1, <2>2
<1>3. CASE n # 0
  <2>1. FlattenSeq(ss) = k0[n]
    BY <1>0, <1>3 DEF FlattenSeq
  <2>2. \A m \in 0..n : \E h : h = [i \in 1..m |-> h[i]] /\ \A i \in 1..m : Step(h, i)
    <3> DEFINE T == {m \in 0..n : ~\E h : h = [i \in 1..m |-> h[i]] /\ \A i \in 1..m : Step(h, i)}
    <3>1. SUFFICES ASSUME T # {} PROVE FALSE
      OBVIOUS
    <3>2. PICK m \in T : \A x \in T : m <= x
      <4>1. T \in SUBSET Nat
        OBVIOUS
      <4> HIDE DEF T
      <4> QED BY <3>1, <4>1, LeastNatural
    <3>3. CASE m = 0
      <4> DEFINE h == [i \in 1..0 |-> i]
      <4>1. h = [i \in 1..m |-> h[i]] /\ \A i \in 1..m : Step(h, i)
        BY <3>3
      <4> HIDE DEF h, Step
      <4> QED BY <4>1
    <3>4. CASE m # 0
      <4>0. m \in 0..n /\ m - 1 \in 0..n /\ ~(m <= m - 1)
        BY <1>1, <3>4
      <4>1. m - 1 \in 0..n /\ m - 1 \notin T
        <5> HIDE DEF T
        <5> QED BY <3>2, <4>0
      <4>2. PICK g : g = [i \in 1..(m - 1) |-> g[i]] /\ \A i \in 1..(m - 1) : Step(g, i)
        BY <4>1
      <4> DEFINE h == [i \in 1..m |-> IF i = m THEN IF m = 1 THEN ss[m] ELSE g[m - 1] \o ss[m]
                                      ELSE g[i]]
      <4>3. \A i \in 1..(m - 1) : h[i] = g[i]
        OBVIOUS
      <4>4. h[m] = IF m = 1 THEN ss[m] ELSE g[m - 1] \o ss[m]
        BY <3>4
      <4>5. h = [i \in 1..m |-> h[i]]
        OBVIOUS
      <4> HIDE DEF h
      <4>6. ASSUME NEW i \in 1..m PROVE Step(h, i)
        <5>1. CASE i = m /\ m = 1
          BY <4>4, <5>1
        <5>2. CASE i = m /\ m # 1
          <6>1. m - 1 \in 1..(m - 1)
            BY <5>2, <3>4
          <6> QED BY <4>3, <4>4, <5>2, <6>1
        <5>3. CASE i # m
          <6>1. i \in 1..(m - 1) /\ (i # 1 => i - 1 \in 1..(m - 1))
            BY <5>3
          <6>2. Step(g, i)
            BY <4>2, <6>1
          <6> QED BY <4>3, <6>1, <6>2
        <5> QED BY <5>1, <5>2, <5>3
      <4> QED BY <4>5, <4>6
    <3> QED BY <3>3, <3>4
  <2>3. \E h : K(h)
    <3>1. PICK h : h = [i \in 1..n |-> h[i]] /\ \A i \in 1..n : Step(h, i)
      <4>1. n \in 0..n
        BY <1>1
      <4> HIDE DEF Step
      <4> QED BY <2>2, <4>1
    <3> QED BY <3>1
  <2>4. K(k0)
    <3> HIDE DEF K
    <3> QED BY <2>3
  <2> HIDE DEF k0
  <2>5. \A i \in 1..n : Step(k0, i)
    BY <2>4
  <2> DEFINE Good(m) == /\ k0[m] \in Seq(S)
                        /\ \E off \in [0..m -> Nat] : Parts(k0[m], ss, m, off)
             T == {m \in 1..n : ~Good(m)}
  <2>6. T = {}
    <3>1. SUFFICES ASSUME T # {} PROVE FALSE
      OBVIOUS
    <3>2. PICK m \in T : \A x \in T : m <= x
      <4>1. T \in SUBSET Nat
        OBVIOUS
      <4> HIDE DEF T
      <4> QED BY <3>1, <4>1, LeastNatural
    <3>3. m \in 1..n /\ ~Good(m) /\ \A x \in 1..n : x < m => Good(x)
      <4>1. m \in 1..n /\ ~Good(m)
        OBVIOUS
      <4>2. \A x \in 1..n : x < m => x \notin T
        <5> HIDE DEF T
        <5> QED BY <1>1, <3>2, <4>1
      <4> HIDE DEF Good
      <4> QED BY <4>1, <4>2
    <3> HIDE DEF T
    <3>4. CASE m = 1
      <4>1. k0[1] = ss[1] /\ ss[1] \in Seq(S) /\ Len(ss[1]) \in Nat
        BY <1>1, <2>5, <3>3, <3>4
      <4> DEFINE o == [i \in 0..1 |-> IF i = 0 THEN 0 ELSE Len(ss[1])]
      <4>2. o \in [0..1 -> Nat] /\ o[0] = 0 /\ o[1] = Len(ss[1])
        BY <4>1
      <4> HIDE DEF o
      <4>3. Parts(ss[1], ss, 1, o)
        <5>1. \A i \in 1..1 : i = 1 /\ i - 1 = 0
          OBVIOUS
        <5> QED BY <4>1, <4>2, <5>1 DEF Parts
      <4> QED BY <3>3, <3>4, <4>1, <4>2, <4>3
    <3>5. CASE m # 1
      <4> DEFINE p == m - 1
      <4>1. p \in 1..n /\ p < m /\ m = p + 1 /\ p \in Nat
        BY <1>1, <3>3, <3>5
      <4>2. k0[m] = k0[p] \o ss[m]
        BY <2>5, <3>3, <3>5
      <4> HIDE DEF p
      <4>3. Good(p)
        BY <3>3, <4>1
      <4>4. k0[p] \in Seq(S)
        BY <4>3
      <4>5. PICK off \in [0..p -> Nat] : Parts(k0[p], ss, p, off)
        BY <4>3
      <4>6. \A i \in 1..(p + 1) : ss[i] \in Seq(S)
        BY <1>1, <3>3, <4>1
      <4>7. \E o \in [0..m -> Nat] : Parts(k0[m], ss, m, o)
        <5>1. \E o \in [0..(p + 1) -> Nat] : Parts(k0[p] \o ss[p + 1], ss, p + 1, o)
          BY <4>1, <4>4, <4>5, <4>6, PartsAppend
        <5> QED BY <4>1, <4>2, <5>1
      <4>8. k0[m] \in Seq(S)
        BY <4>1, <4>2, <4>4, <4>6
      <4> QED BY <3>3, <4>7, <4>8
    <3> QED BY <3>4, <3>5
  <2>7. Good(n)
    <3>1. n \in 1..n
      BY <1>1, <1>3
    <3> HIDE DEF Good
    <3> QED BY <2>6, <3>1
  <2> QED BY <1>0, <2>1, <2>7
<1> QED BY <1>2, <1>3

\* The answer has the same entries, in another order.
LEMMA ResponseIs ==
  ASSUME NEW S, NEW r \in Seq(S), \A i \in DOMAIN r : r[i].time \in Int
  PROVE  /\ DOMAIN rpcReportResponse(r) = DOMAIN r
         /\ \E q \in [DOMAIN r -> DOMAIN r] :
              /\ \A k \in DOMAIN r : rpcReportResponse(r)[k] = r[q[k]]
              /\ \A k, l \in DOMAIN r : q[k] = q[l] => k = l
              /\ \A i \in DOMAIN r : \E k \in DOMAIN r : q[k] = i
<1> DEFINE D == DOMAIN r
           B(i) == {j \in D : \/ r[j].time < r[i].time
                              \/ r[j].time = r[i].time /\ j <= i}
           f == [i \in D |-> Cardinality(B(i))]
           At(k) == CHOOSE i \in D : Cardinality(B(i)) = k
           q == [k \in D |-> At(k)]
<1>1. /\ D = 1..Len(r) /\ Len(r) \in Nat /\ IsFiniteSet(D) /\ Cardinality(D) = Len(r)
      /\ D \subseteq Nat
  <2>1. D = 1..Len(r) /\ Len(r) \in Nat
    OBVIOUS
  <2>2. IsFiniteSet(1..Len(r)) /\ Cardinality(1..Len(r)) = Len(r)
    <3>1. \A n \in Nat : IsFiniteSet(1..n) /\ Cardinality(1..n) = n
      BY FS_Interval
    <3> QED BY <2>1, <3>1
  <2> QED BY <2>1, <2>2
<1>2. \A i, j \in D : r[i].time \in Int /\ i \in Nat
  BY <1>1
<1>3. DOMAIN rpcReportResponse(r) = D /\ \A k \in D : rpcReportResponse(r)[k] = r[q[k]]
  <2>1. rpcReportResponse(r) = [k \in D |-> r[At(k)]]
    BY DEF rpcReportResponse
  <2> HIDE DEF At, D
  <2> QED BY <2>1
<1>4. ASSUME NEW i \in D PROVE f[i] \in 1..Len(r) /\ IsFiniteSet(B(i)) /\ i \in B(i)
  <2>1. B(i) \in SUBSET D /\ i \in B(i)
    BY <1>2
  <2>2. IsFiniteSet(B(i)) /\ Cardinality(B(i)) <= Len(r) /\ Cardinality(B(i)) \in Nat
    BY <1>1, <2>1, FS_Subset, FS_CardinalityType
  <2>3. Cardinality(B(i)) # 0
    BY <2>1, <2>2, FS_EmptySet
  <2> QED BY <1>1, <2>1, <2>2, <2>3
<1>5. ASSUME NEW i \in D, NEW j \in D, i \in B(j), i # j PROVE f[i] # f[j]
  <2>1. ASSUME NEW k \in B(i) PROVE k \in B(j)
    <3>1. /\ k \in D /\ r[k].time \in Int /\ r[i].time \in Int /\ r[j].time \in Int
          /\ i \in Nat /\ j \in Nat /\ k \in Nat
      BY <1>2
    <3>2. r[k].time < r[i].time \/ (r[k].time = r[i].time /\ k <= i)
      BY <2>1
    <3>3. r[i].time < r[j].time \/ (r[i].time = r[j].time /\ i <= j)
      BY <1>5
    <3>4. r[k].time < r[j].time \/ (r[k].time = r[j].time /\ k <= j)
      BY <3>1, <3>2, <3>3
    <3> QED BY <3>1, <3>4
  <2>2. j \notin B(i)
    <3>1. r[i].time \in Int /\ r[j].time \in Int /\ i \in Nat /\ j \in Nat
      BY <1>2
    <3>2. r[i].time < r[j].time \/ (r[i].time = r[j].time /\ i <= j)
      BY <1>5
    <3>3. ~(r[j].time < r[i].time \/ (r[j].time = r[i].time /\ j <= i))
      BY <1>5, <3>1, <3>2
    <3> QED BY <3>3
  <2>3. j \in B(j) /\ IsFiniteSet(B(j))
    BY <1>4
  <2>4. f[i] = Cardinality(B(i)) /\ f[j] = Cardinality(B(j))
    OBVIOUS
  <2> HIDE DEF B, f
  <2>5. B(i) \in SUBSET B(j) /\ B(i) # B(j)
    BY <2>1, <2>2, <2>3
  <2>6. Cardinality(B(i)) # Cardinality(B(j))
    BY <2>3, <2>5, FS_Subset
  <2> QED BY <2>4, <2>6
<1>6. \A i, j \in D : f[i] = f[j] => i = j
  <2> SUFFICES ASSUME NEW i \in D, NEW j \in D, i # j PROVE f[i] # f[j]
    OBVIOUS
  <2>1. i \in B(j) \/ j \in B(i)
    <3>1. r[i].time \in Int /\ r[j].time \in Int /\ i \in Nat /\ j \in Nat
      BY <1>2
    <3>2. r[i].time < r[j].time \/ r[i].time = r[j].time \/ r[j].time < r[i].time
      BY <3>1
    <3>3. i <= j \/ j <= i
      BY <3>1
    <3> QED BY <3>2, <3>3
  <2> HIDE DEF B, f
  <2> QED BY <1>5, <2>1
<1>7. f \in [D -> 1..Cardinality(D)]
  BY <1>1, <1>4
<1>8. \A k \in D : \E i \in D : f[i] = k
  <2> HIDE DEF f
  <2>1. \A k \in 1..Cardinality(D) : \E i \in D : f[i] = k
    BY <1>1, <1>6, <1>7, OntoPositions
  <2> QED BY <1>1, <2>1
<1>9. \A k \in D : q[k] \in D /\ f[q[k]] = k
  <2>1. \A k \in D : q[k] = At(k)
    OBVIOUS
  <2>2. \A i \in D : f[i] = Cardinality(B(i))
    OBVIOUS
  <2>3. \A k \in D : \E i \in D : Cardinality(B(i)) = k
    BY <1>8, <2>2
  <2> HIDE DEF q, f, B, D
  <2>4. \A k \in D : At(k) \in D /\ Cardinality(B(At(k))) = k
    BY <2>3
  <2> HIDE DEF At
  <2> QED BY <2>1, <2>2, <2>4
<1> HIDE DEF f
<1>10. q \in [D -> D]
  BY <1>9
<1> HIDE DEF q
<1>11. \A k, l \in D : q[k] = q[l] => k = l
  BY <1>9
<1>12. \A i \in D : \E k \in D : q[k] = i
  BY <1>1, <1>6, <1>7, <1>9
<1> QED BY <1>3, <1>10, <1>11, <1>12

\* What the entries at the places S of the report do to the balance.
SumAt(S) == MapThenSumSet(LAMBDA i : Signed(report[i]), S)

\* The sum over at most two entries of the report.
LEMMA SumOfFew ==
  ASSUME NEW a, NEW b, a # b, NEW S \in SUBSET {a, b}, NEW va \in Int, NEW vb \in Int,
         a \in S => Signed(report[a]) = va, b \in S => Signed(report[b]) = vb
  PROVE  SumAt(S) = (IF a \in S THEN va ELSE 0) + (IF b \in S THEN vb ELSE 0)
<1> DEFINE OneOf(s) == CHOOSE x \in s : TRUE
           K(k) == k = [s \in SUBSET S |->
                      IF s = {} THEN 0 ELSE Signed(report[OneOf(s)]) + k[s \ {OneOf(s)}]]
           k0 == CHOOSE k : K(k)
           V(s) == (IF a \in s THEN va ELSE 0) + (IF b \in s THEN vb ELSE 0)
           g == [s \in SUBSET S |-> V(s)]
<1>1. SumAt(S) = k0[S]
  BY DEF SumAt, MapThenSumSet, MapThenFoldSet
<1>2. ASSUME NEW s \in SUBSET S, s # {} PROVE OneOf(s) \in s
  BY <1>2
<1> HIDE DEF OneOf
<1>3. ASSUME NEW s \in SUBSET S, s # {}
      PROVE  s \ {OneOf(s)} \in SUBSET S /\ V(s) = Signed(report[OneOf(s)]) + V(s \ {OneOf(s)})
  <2>1. OneOf(s) \in s /\ OneOf(s) \in {a, b}
    BY <1>2, <1>3
  <2>2. CASE OneOf(s) = a
    <3>1. Signed(report[OneOf(s)]) = va /\ a \in s /\ a \notin s \ {OneOf(s)}
          /\ (b \in s \ {OneOf(s)} <=> b \in s)
      BY <2>1, <2>2
    <3> QED BY <3>1
  <2>3. CASE OneOf(s) = b
    <3>1. Signed(report[OneOf(s)]) = vb /\ b \in s /\ b \notin s \ {OneOf(s)}
          /\ (a \in s \ {OneOf(s)} <=> a \in s)
      BY <2>1, <2>3
    <3> QED BY <3>1
  <2> QED BY <2>1, <2>2, <2>3
<1>4. V({}) = 0
  OBVIOUS
<1> HIDE DEF V
<1>5. K(g)
  <2>1. \A s \in SUBSET S :
          g[s] = IF s = {} THEN 0 ELSE Signed(report[OneOf(s)]) + g[s \ {OneOf(s)}]
    BY <1>3, <1>4
  <2>2. g = [s \in SUBSET S |-> g[s]]
    OBVIOUS
  <2> HIDE DEF g
  <2> QED BY <2>1, <2>2
<1>6. K(k0)
  BY <1>5
<1> HIDE DEF k0
<1>7. \A s \in SUBSET S :
        k0[s] = IF s = {} THEN 0 ELSE Signed(report[OneOf(s)]) + k0[s \ {OneOf(s)}]
  BY <1>6
<1>8. k0[{}] = V({})
  BY <1>4, <1>7
<1>9. ASSUME NEW s \in SUBSET S, s # {}, s \ {OneOf(s)} = {} PROVE k0[s] = V(s)
  BY <1>3, <1>7, <1>8, <1>9
<1>10. ASSUME NEW s \in SUBSET S, s # {}, s \ {OneOf(s)} # {} PROVE k0[s] = V(s)
  <2> DEFINE t == s \ {OneOf(s)}
  <2>1. OneOf(s) \in s
    BY <1>2, <1>10
  <2>2. t \in SUBSET S /\ t # {} /\ OneOf(t) \in t
    BY <1>2, <1>10
  <2>3. t \ {OneOf(t)} = {}
    BY <2>1, <2>2
  <2> HIDE DEF t
  <2>4. k0[t] = V(t)
    BY <1>9, <2>2, <2>3
  <2>5. k0[s] = Signed(report[OneOf(s)]) + k0[t] /\ V(s) = Signed(report[OneOf(s)]) + V(t)
    BY <1>3, <1>7, <1>10 DEF t
  <2> QED BY <2>4, <2>5
<1>11. k0[S] = V(S)
  BY <1>8, <1>9, <1>10
<1> QED BY <1>1, <1>11 DEF V

-----------------------------------------------------------------------------
(* What the call knows.  World: what lnd's lists hold does not change, and is *)
(* what AuditAssumption says.  Every transaction in txns is one of the        *)
(* wallet's, once.  The channel was in the list of one of the phases it went  *)
(* through, or Slipped.                                                       *)

Tx == [txid : STRING, amount : Int, fee : Nat, time : Nat, conf : Nat, label : STRING,
       ours : BOOLEAN]

PaymentInfo == [hash : STRING, amount : Nat, fee : Nat, destination : Nodes,
                state : {"inflight", "succeeded", "failed"}, settleTime : Nat]

KeptWorld ==
  \E s \in Worlds : /\ wallet = s.wallet /\ invoices = s.invoices
                    /\ payments = s.payments /\ req = s.req

\* t is what filterOnChain makes of the wallet's tx.
Shows(t, tx) ==
  \E l \in ListedTx : /\ t = filtered(l, Now)
                      /\ l.txid = tx.txid /\ l.amount = tx.amount
                      /\ l.fee = tx.fee /\ l.ours = tx.ours

TxnsInv ==
  /\ txns \in Seq(Tx)
  /\ \A j \in DOMAIN txns : \E i \in DOMAIN wallet : Shows(txns[j], wallet[i])
  /\ \A i, j \in DOMAIN txns : txns[i].txid = txns[j].txid => i = j

ListInv ==
  /\ invs \in Seq(LndInvoice) /\ pays \in Seq(PaymentInfo)
  /\ stage \notin {"invoices", "payments", "forwards", "done", "failed"} => listed = <<>>
  /\ stage = "invoices" => listed \in Seq(LndInvoice)
  /\ stage = "payments" => listed \in Seq(LndPayment)
  /\ stage = "forwards" => listed \in Seq(LndForward)

Has(id) == \E j \in DOMAIN txns : txns[j].txid = id

Early == {"idle", "search", "prices", "rates", "txns"}

Leaving == {"coop", "closing", "forced"}

\* What is known of a funding and of a closing transaction in txns, from list
\* to list.
TrackInv ==
  /\ phase \in Phases /\ DOMAIN seen = {"txns", "pending", "open", "closed", "pay"}
  /\ opened \subseteq {"fund"} /\ DOMAIN closings \subseteq {"close"}
  /\ stage = "rates" => req.kind = "rates"
  /\ stage \in Early => txns = <<>>
  /\ stage = "pending" => /\ Has("fund") => phase # "none"
                          /\ Has("close") => phase \in Leaving \cup {"closed"}
  /\ stage = "open" =>
       /\ Has("fund") => "fund" \in opened \/ phase = "closed" \/ (seen.pending = "open"
                         /\ phase \in Leaving \cup {"open"})
       /\ Has("close") => "close" \in DOMAIN closings \/ phase \in {"coop", "closed"}
  /\ stage = "closed" =>
       /\ Has("fund") => "fund" \in opened \/ phase = "closed" \/ (seen.pending = "open"
                         /\ seen.open \in Leaving)
       /\ Has("close") => "close" \in DOMAIN closings \/ phase \in {"coop", "closed"}
  /\ stage \in {"sweeps", "offchain", "prices2", "invoices", "payments", "forwards", "done"} =>
       /\ Has("fund") => "fund" \in opened \/ Slipped
       /\ Has("close") => "close" \in DOMAIN closings \/ CoopWaiting

\* Fees of the transactions of w are looked up as the chain knows them.
FeesOf(w, u) == \A i \in DOMAIN w : u.getFee[w[i].txid] = w[i].chainFee

OffTypeNames == {"CircularReceipt", "Receipt", "CircularPayment", "Payment", "CircularPaymentFee",
                 "Fee", "Forward", "ForwardFee"}

\* The entries the off chain report can have.
OffData(v) == [ts : Nat, amt : Int, type : OffTypeNames, id : STRING \cup {""},
               cat : {""} \cup {getCategory(l, v.categories) : l \in STRING}]

OffEntry(v) ==
  {newHarmonyEntry(x.ts, x.amt, x.type, x.id, x.cat, FALSE, v) : x \in OffData(v)}

\* r is the on chain report of the transactions ts of the wallet w, for the
\* channels that o and c say were found,
OnChainOf(w, ts, o, c, r) ==
  \E sw, u : FeesOf(w, u) /\ r = onChainReport(ts, o, c, sw, u)

\* or is the answer, with the off chain report after it.
AnswerOf(w, ts, o, c, r) ==
  \E sw, u, v : \E off \in Seq(OffEntry(v)) :
    FeesOf(w, u) /\ r = rpcReportResponse(onChainReport(ts, o, c, sw, u) \o off)

Before == Early \cup {"pending", "open", "closed", "sweeps"}

OffChain == {"offchain", "prices2", "invoices", "payments", "forwards"}

ReportInv ==
  /\ stage \in Before => report = <<>>
  /\ stage \in OffChain => OnChainOf(wallet, txns, opened, closings, report)
  /\ Audited => AnswerOf(wallet, txns, opened, closings, report)

\* Steps that leave what the call has read and the channel alone.
Quiet ==
  /\ UNCHANGED <<phase, wallet, invoices, payments, req, txns, opened, closings, report, offset,
                 listed, invs, pays, seen>>
  /\ \/ stage' = stage
     \/ stage' = "failed"
     \/ stage \in Early /\ stage' \in Early \ {"rates"}
     \/ stage = "idle" /\ stage' = "rates" /\ req.kind = "rates"
     \/ stage = "rates" /\ stage' = "done"
     \/ stage = "offchain" /\ stage' \in {"prices2", "invoices"}
     \/ stage = "prices2" /\ stage' = "invoices"

\* What is assumed of the initial worlds holds of the lists.
LEMMA WorldFacts ==
  ASSUME KeptWorld
  PROVE  /\ wallet \in Seq(WalletTx) /\ req.forwards \in Seq(LndForward)
         /\ invoices \in Seq(LndInvoice) /\ invoices # <<>> /\ payments \in Seq(LndPayment)
         /\ \A i, j \in DOMAIN wallet : wallet[i].txid = wallet[j].txid => i = j
         /\ \A i \in DOMAIN wallet :
              /\ wallet[i].amount = 0 => wallet[i].fee = 0
              /\ wallet[i].txid = "fund" /\ wallet[i].amount < 0
                   => wallet[i].amount + wallet[i].fee < 0
         /\ req.start \in Nat /\ req.end \in Nat
<1>1. PICK s \in Worlds : wallet = s.wallet /\ invoices = s.invoices /\ payments = s.payments
                          /\ req = s.req
  BY DEF KeptWorld
<1>2. \A i \in DOMAIN s.wallet : s.wallet[i] \in ToSet(s.wallet)
  BY DEF ToSet
<1> QED BY <1>1, <1>2, AuditAssumption

\* Numbers of a list have an upper bound.
LEMMA ListBounded ==
  ASSUME NEW n \in Nat, NEW f \in [1..n -> Nat]
  PROVE  \E b \in Nat : \A i \in 1..n : f[i] <= b
<1> DEFINE B(m) == \E b \in Nat : \A i \in 1..m : f[i] <= b
           T == {m \in 0..n : ~B(m)}
<1>1. SUFFICES ASSUME T # {} PROVE FALSE
  <2>1. n \in 0..n
    OBVIOUS
  <2> HIDE DEF B
  <2>2. T = {} => B(n)
    BY <2>1
  <2> QED BY <1>1, <2>2 DEF B
<1>2. PICK m \in T : \A x \in T : m <= x
  <2>1. T \in SUBSET Nat
    OBVIOUS
  <2> HIDE DEF T
  <2> QED BY <1>1, <2>1, LeastNatural
<1>3. m \in 0..n /\ ~B(m)
  OBVIOUS
<1>4. m # 0
  <2>1. B(0)
    <3>1. \A i \in 1..0 : f[i] <= 0
      OBVIOUS
    <3> QED BY <3>1
  <2> HIDE DEF B
  <2> QED BY <1>3, <2>1
<1>5. B(m - 1)
  <2>1. m - 1 \in 0..n /\ ~(m <= m - 1)
    BY <1>3, <1>4
  <2>2. m - 1 \notin T
    <3> HIDE DEF T
    <3> QED BY <1>2, <2>1
  <2> HIDE DEF B
  <2> QED BY <2>1, <2>2
<1>6. PICK b \in Nat : \A i \in 1..(m - 1) : f[i] <= b
  BY <1>5
<1> DEFINE c == IF b <= f[m] THEN f[m] ELSE b
<1>7. m \in 1..n /\ f[m] \in Nat
  BY <1>3, <1>4
<1>8. c \in Nat /\ b <= c /\ f[m] <= c
  BY <1>7
<1> HIDE DEF c
<1>9. ASSUME NEW i \in 1..m PROVE f[i] <= c
  <2>1. CASE i = m
    BY <1>8, <2>1
  <2>2. CASE i # m
    <3>1. i \in 1..(m - 1) /\ i \in 1..n
      BY <1>7, <2>2
    <3> QED BY <1>6, <1>8, <3>1
  <2> QED BY <2>1, <2>2
<1>10. B(m)
  BY <1>8, <1>9
<1> QED BY <1>3, <1>10

\* The time a payment settled is a time.
LEMMA SettleTimeIs ==
  ASSUME NEW p \in LndPayment
  PROVE  settleTime(p) \in Nat
<1> DEFINE H == [ok : BOOLEAN, time : Nat, dest : Nodes]
           hs == p.htlcs
           S == {0} \cup {h.time : h \in {x \in ToSet(hs) : x.ok}}
           f == [i \in 1..Len(hs) |-> hs[i].time]
           Most(x) == x \in S /\ \A y \in S : x >= y
<1>1. hs \in Seq(H)
  BY DEF LndPayment
<1>5. settleTime(p) = CHOOSE x : Most(x)
  BY DEF settleTime, Max
<1> HIDE DEF hs
<1>2. Len(hs) \in Nat /\ DOMAIN hs = 1..Len(hs) /\ \A i \in 1..Len(hs) : hs[i].time \in Nat
  <2>1. \A h \in H : h.time \in Nat
    OBVIOUS
  <2> HIDE DEF H
  <2> QED BY <1>1, <2>1
<1>3. PICK b \in Nat : \A i \in 1..Len(hs) : hs[i].time <= b
  <2>1. f \in [1..Len(hs) -> Nat] /\ \A i \in 1..Len(hs) : f[i] = hs[i].time
    BY <1>2
  <2> HIDE DEF f
  <2>2. \E b \in Nat : \A i \in 1..Len(hs) : f[i] <= b
    BY <1>2, <2>1, ListBounded
  <2> QED BY <2>1, <2>2
<1>4. S \in SUBSET Nat /\ 0 \in S /\ \A x \in S : x <= b
  <2>1. \A h \in ToSet(hs) : h.time \in Nat /\ h.time <= b
    BY <1>2, <1>3 DEF ToSet
  <2> QED BY <2>1
<1> HIDE DEF S
<1>6. \E x : Most(x)
  <2>1. PICK m \in S : m <= b /\ \A y \in S : y <= b => y <= m
    <3>1. S \in SUBSET Int /\ 0 <= b /\ b \in Int
      BY <1>4
    <3> QED BY <1>4, <3>1, Bounded
  <2> QED BY <1>4, <2>1
<1>7. Most(settleTime(p))
  <2> HIDE DEF Most
  <2> QED BY <1>5, <1>6
<1> QED BY <1>4, <1>7

\* What preProcessPayments makes of payments.
LEMMA PaymentInfos ==
  ASSUME NEW all \in Seq(LndPayment)
  PROVE  preProcessPayments(all) \in Seq(PaymentInfo)
<1> DEFINE Info(p) == [hash |-> p.hash, amount |-> p.amount, fee |-> p.fee, state |-> p.state,
                       destination |-> IF paymentHtlcDestination(p) # None
                                       THEN paymentHtlcDestination(p) ELSE p.payReq,
                       settleTime |-> IF p.state = "succeeded" THEN settleTime(p) ELSE 0]
<1>1. ASSUME NEW p \in LndPayment PROVE Info(p) \in PaymentInfo
  <2>1. /\ p.hash \in STRING /\ p.amount \in Nat /\ p.fee \in Nat /\ p.payReq \in Nodes
        /\ p.state \in {"inflight", "succeeded", "failed"}
        /\ p.htlcs \in Seq([ok : BOOLEAN, time : Nat, dest : Nodes])
    BY DEF LndPayment
  <2>2. paymentHtlcDestination(p) \in Nodes
    <3>1. CASE p.htlcs = <<>>
      BY <3>1 DEF paymentHtlcDestination, Nodes
    <3>2. CASE p.htlcs # <<>>
      <4> DEFINE H == [ok : BOOLEAN, time : Nat, dest : Nodes]
                 hs == p.htlcs
      <4>1. hs[1] \in H
        <5>1. hs \in Seq(H) /\ hs # <<>>
          BY <2>1, <3>2
        <5> HIDE DEF H, hs
        <5> QED BY <5>1
      <4> QED BY <3>2, <4>1 DEF paymentHtlcDestination
    <3> QED BY <3>1, <3>2
  <2>3. settleTime(p) \in Nat
    BY SettleTimeIs
  <2> QED BY <2>1, <2>2, <2>3 DEF PaymentInfo
<1>2. preProcessPayments(all) = [i \in DOMAIN all |-> Info(all[i])]
  BY DEF preProcessPayments
<1> HIDE DEF Info
<1>3. DOMAIN all = 1..Len(all) /\ Len(all) \in Nat /\ \A i \in 1..Len(all) : all[i] \in LndPayment
  OBVIOUS
<1> QED BY <1>1, <1>2, <1>3

\* A page holds indexes of the list that is read.
LEMMA PageIs ==
  ASSUME NEW T, NEW list \in Seq(T), NEW S \in SUBSET DOMAIN list, listed \in Seq(T)
  PROVE  Gathered(list, NextPage(S)) \in Seq(T)
<1> DEFINE R == {i \in S : i > offset}
           after == InOrder(R)
           m == Min({Page, Len(after)})
           page == NextPage(S)
<1>1. Len(list) \in Nat /\ DOMAIN list = 1..Len(list) /\ R \in SUBSET (1..Len(list))
  OBVIOUS
<1>2. IsFiniteSet(R) /\ R \in SUBSET Nat
  <2>1. IsFiniteSet(1..Len(list))
    BY <1>1, FS_Interval
  <2>2. 1..Len(list) \in SUBSET Nat
    BY <1>1
  <2> HIDE DEF R
  <2>3. IsFiniteSet(R)
    BY <1>1, <2>1, FS_Subset
  <2> QED BY <1>1, <2>2, <2>3
<1>3. page = SubSeq(after, 1, m)
  BY DEF NextPage
<1> HIDE DEF R
<1>4. after \in Seq(R) /\ Len(after) \in Nat
  BY <1>2, InOrderIs
<1> HIDE DEF after
<1>5. m \in 0..Len(after)
  <2>1. Page \in Nat
    BY AuditAssumption
  <2> DEFINE n == Len(after)
  <2>2. n \in Int /\ Page \in Int /\ n \in Nat
    BY <1>4, <2>1
  <2> HIDE DEF n
  <2>3. Min({Page, n}) = IF Page <= n THEN Page ELSE n
    BY <2>2, MinOfTwo
  <2>4. Min({Page, n}) \in 0..n
    BY <2>1, <2>2, <2>3
  <2> QED BY <2>4 DEF n
<1> HIDE DEF m
<1>6. page \in Seq(R)
  BY <1>3, <1>4, <1>5
<1>7. Gathered(list, page) = listed \o [i \in DOMAIN page |-> list[page[i]]]
  BY DEF Gathered
<1> HIDE DEF page
<1>8. DOMAIN page = 1..Len(page) /\ Len(page) \in Nat /\ \A i \in 1..Len(page) : page[i] \in R
  BY <1>6
<1>9. [i \in DOMAIN page |-> list[page[i]]] \in Seq(T)
  <2>1. \A i \in 1..Len(page) : list[page[i]] \in T
    <3>1. \A x \in 1..Len(list) : list[x] \in T
      BY <1>1
    <3> QED BY <1>1, <1>8, <3>1
  <2> QED BY <1>8, <2>1
<1>10. Gathered(list, page) \in Seq(T)
  BY <1>7, <1>9
<1> QED BY <1>10 DEF page

\* What ListTransactions and filterOnChain leave: transactions of the wallet, as
\* it is when they are listed, each once.
LEMMA TransactionsRead ==
  ASSUME KeptWorld, RangeType, ~ReceiveWithFee(Transactions, Window, Now),
         NEW ts, ts = filterOnChain(Transactions, Window, Now)
  PROVE  /\ ts \in Seq(Tx)
         /\ \A j \in DOMAIN ts : \E i \in DOMAIN wallet : Shows(ts[j], wallet[i])
                                                          /\ InWallet(wallet[i])
         /\ \A i, j \in DOMAIN ts : ts[i].txid = ts[j].txid => i = j
<1> DEFINE S == {i \in DOMAIN wallet :
                   /\ InWallet(wallet[i])
                   /\ IF Mined(wallet[i]) THEN Queried(wallet[i].height) ELSE heights.end = 0}
           shown == ItemsAt(wallet, S)
           o == InOrder(S)
           Item(x) == [txid |-> x.txid, amount |-> x.amount, fee |-> x.fee,
                       time |-> IF Mined(x) THEN blockTime[x.height] ELSE 0,
                       conf |-> IF Mined(x) THEN 1 ELSE 0,
                       label |-> x.label, ours |-> x.ours]
           L == Transactions
           R == {i \in DOMAIN L : inRange(filtered(L[i], Now).time, Window)}
           kept == ItemsAt(L, R)
           r == InOrder(R)
<1>1. /\ wallet \in Seq(WalletTx)
      /\ \A i, j \in DOMAIN wallet : wallet[i].txid = wallet[j].txid => i = j
      /\ \A i \in DOMAIN wallet : wallet[i].amount = 0 => wallet[i].fee = 0
  BY WorldFacts
<1>2. L = [i \in DOMAIN shown |-> Item(shown[i])]
  BY DEF Transactions
<1>3. ASSUME NEW x \in WalletTx
      PROVE  /\ Item(x) \in Tx /\ Item(x).txid = x.txid /\ Item(x).amount = x.amount
             /\ Item(x).fee = x.fee /\ Item(x).ours = x.ours
  <2>1. Mined(x) => blockTime[x.height] \in Nat
    <3>1. Mined(x) => x.height \in Heights
      BY ChainFacts DEF Mined, Heights
    <3> QED BY <3>1, ChainFacts
  <2>2. /\ x.txid \in STRING /\ x.amount \in Int /\ x.fee \in Nat /\ x.label \in STRING
        /\ x.ours \in BOOLEAN
    BY DEF WalletTx
  <2> QED BY <2>1, <2>2 DEF Tx
<1>4. /\ shown \in Seq(WalletTx)
      /\ \A k \in DOMAIN shown : o[k] \in S /\ shown[k] = wallet[o[k]]
      /\ \A k, l \in DOMAIN shown : o[k] = o[l] => k = l
  <2>1. S \in SUBSET DOMAIN wallet
    OBVIOUS
  <2> HIDE DEF S
  <2> QED BY <1>1, <2>1, ItemsAtIs
<1>5. \A i \in S : i \in DOMAIN wallet /\ InWallet(wallet[i])
  OBVIOUS
<1>6. kept = InWindow(L, Window, Now)
  BY DEF InWindow
<1> HIDE DEF S, shown, o, Item
<1>7. L \in Seq(Tx) /\ DOMAIN L = DOMAIN shown /\ \A k \in DOMAIN L : L[k] = Item(shown[k])
  <2> HIDE DEF L
  <2>1. DOMAIN shown = 1..Len(shown) /\ Len(shown) \in Nat
        /\ \A k \in 1..Len(shown) : shown[k] \in WalletTx
    BY <1>4
  <2>2. \A k \in 1..Len(shown) : Item(shown[k]) \in Tx
    BY <1>3, <2>1
  <2>3. L = [k \in 1..Len(shown) |-> Item(shown[k])]
    BY <1>2, <2>1
  <2> QED BY <2>1, <2>2, <2>3
<1>8. /\ kept \in Seq(Tx)
      /\ \A k \in DOMAIN kept : r[k] \in DOMAIN L /\ kept[k] = L[r[k]]
      /\ \A k, l \in DOMAIN kept : r[k] = r[l] => k = l
  <2>1. R \in SUBSET DOMAIN L
    OBVIOUS
  <2> HIDE DEF R, L
  <2> QED BY <1>7, <2>1, ItemsAtIs
<1>9. \A k \in DOMAIN kept : ~(kept[k].amount > 0 /\ kept[k].fee # 0)
  BY <1>6 DEF ReceiveWithFee, ToSet
<1>10. ts = [k \in DOMAIN kept |-> filtered(kept[k], Now)]
  BY <1>6 DEF filterOnChain
<1> HIDE DEF R, L, kept, r
<1>11. ASSUME NEW k \in DOMAIN kept
       PROVE  LET tx == wallet[o[r[k]]]
              IN  /\ o[r[k]] \in DOMAIN wallet /\ InWallet(tx)
                  /\ kept[k] \in ListedTx /\ filtered(kept[k], Now) \in Tx
                  /\ kept[k].txid = tx.txid /\ kept[k].amount = tx.amount
                  /\ kept[k].fee = tx.fee /\ kept[k].ours = tx.ours
  <2> DEFINE x == shown[r[k]]
  <2>1. r[k] \in DOMAIN shown /\ kept[k] = Item(x) /\ x = wallet[o[r[k]]]
    BY <1>4, <1>7, <1>8
  <2>2. o[r[k]] \in DOMAIN wallet /\ InWallet(wallet[o[r[k]]])
    BY <1>4, <1>5, <2>1
  <2>3. x \in WalletTx
    BY <1>4, <2>1
  <2> HIDE DEF x
  <2>4. /\ kept[k] \in Tx /\ kept[k].txid = x.txid /\ kept[k].amount = x.amount
        /\ kept[k].fee = x.fee /\ kept[k].ours = x.ours
    BY <1>3, <2>1, <2>3
  <2>5. kept[k].amount >= 0 => kept[k].fee = 0
    <3>1. x.amount = 0 => x.fee = 0
      BY <1>1, <2>1, <2>2
    <3>2. kept[k].amount \in Int
      BY <2>4 DEF Tx
    <3> QED BY <1>9, <2>4, <3>1, <3>2
  <2>6. kept[k] \in ListedTx
    BY <2>4, <2>5 DEF ListedTx, Tx
  <2>7. filtered(kept[k], Now) \in Tx
    <3> DEFINE t == kept[k]
    <3>1. t \in Tx /\ Now \in Nat
      BY <2>4, PriceAssumption
    <3> HIDE DEF t
    <3>2. filtered(t, Now) \in Tx
      <4>1. (IF t.conf = 0 THEN Now ELSE t.time) \in Nat
            /\ (IF t.amount < 0 THEN t.amount + t.fee ELSE t.amount) \in Int
        BY <3>1 DEF Tx
      <4> QED BY <3>1, <4>1 DEF Tx, filtered
    <3> QED BY <3>2 DEF t
  <2> QED BY <2>1, <2>2, <2>4, <2>6, <2>7
<1>12. ts \in Seq(Tx) /\ DOMAIN ts = DOMAIN kept
  <2>1. DOMAIN kept = 1..Len(kept) /\ Len(kept) \in Nat
    BY <1>8
  <2>2. \A k \in 1..Len(kept) : filtered(kept[k], Now) \in Tx
    BY <1>11, <2>1
  <2> QED BY <1>10, <2>1, <2>2
<1>13. ASSUME NEW j \in DOMAIN ts
       PROVE  \E i \in DOMAIN wallet : Shows(ts[j], wallet[i]) /\ InWallet(wallet[i])
  <2>1. j \in DOMAIN kept /\ ts[j] = filtered(kept[j], Now)
    BY <1>10, <1>12
  <2>2. Shows(ts[j], wallet[o[r[j]]])
    BY <1>11, <2>1 DEF Shows
  <2> QED BY <1>11, <2>1, <2>2
<1>14. ASSUME NEW i \in DOMAIN ts, NEW j \in DOMAIN ts, ts[i].txid = ts[j].txid PROVE i = j
  <2>1. /\ i \in DOMAIN kept /\ ts[i] = filtered(kept[i], Now)
        /\ j \in DOMAIN kept /\ ts[j] = filtered(kept[j], Now)
    BY <1>10, <1>12
  <2>2. ts[i].txid = kept[i].txid /\ ts[j].txid = kept[j].txid
    BY <1>11, <2>1, FilteredTx
  <2>3. o[r[i]] = o[r[j]]
    BY <1>1, <1>11, <1>14, <2>1, <2>2
  <2>4. r[i] \in DOMAIN shown /\ r[j] \in DOMAIN shown
    BY <1>7, <1>8, <2>1
  <2> QED BY <1>4, <1>8, <2>1, <2>3, <2>4
<1> QED BY <1>12, <1>13, <1>14

\* The lists of invoices and of payments are of their types.
LEMMA ListsTyped ==
  ASSUME KeptWorld
  PROVE  Invoices \in Seq(LndInvoice) /\ Payments \in Seq(LndPayment)
<1>1. invoices \in Seq(LndInvoice) /\ invoices # <<>> /\ payments \in Seq(LndPayment)
  BY WorldFacts
<1>2. 1 \in DOMAIN invoices /\ invoices[1] \in LndInvoice /\ DOMAIN invoices = 1..Len(invoices)
      /\ Len(invoices) \in Nat /\ \A i \in DOMAIN invoices : invoices[i] \in LndInvoice
  BY <1>1
<1>3. Invoices \in Seq(LndInvoice)
  <2> DEFINE st == IF pay >= 3 THEN "settled" ELSE "open"
             one == [invoices[1] EXCEPT !.state = st]
  <2>1. one \in LndInvoice
    <3>1. st = "settled" \/ st = "open"
      BY Zenon
    <3> HIDE DEF st
    <3> QED BY <1>2, <3>1 DEF LndInvoice
  <2>2. Invoices = [invoices EXCEPT ![1] = one]
    BY DEF Invoices
  <2> HIDE DEF one
  <2>3. Invoices \in [1..Len(invoices) -> LndInvoice]
    <3>1. invoices \in [1..Len(invoices) -> LndInvoice]
      BY <1>1
    <3> QED BY <1>2, <2>1, <2>2, <3>1
  <2> QED BY <1>2, <2>3
<1>4. SelfPayment \in LndPayment
  <2> DEFINE H == [ok : BOOLEAN, time : Nat, dest : Nodes]
             h == [ok |-> pay = 4, time |-> invoices[1].settle + 1, dest |-> Own]
             hs == IF pay < 2 THEN <<>> ELSE <<h>>
             st == IF pay = 4 THEN "succeeded" ELSE "inflight"
             a == invoices[1]
  <2>1. a.settle \in Nat /\ a.amount \in Nat /\ a.hash \in STRING
    BY <1>2 DEF LndInvoice
  <2>2. h \in H
    BY <2>1 DEF Nodes
  <2>3. hs \in Seq(H)
    <3> HIDE DEF h, H
    <3> QED BY <2>2
  <2>4. (st = "succeeded" \/ st = "inflight") /\ None \in Nodes
    BY Zenon DEF Nodes
  <2>5. SelfPayment = [hash |-> a.hash, amount |-> a.amount, fee |-> 1, payReq |-> None,
                       state |-> st, htlcs |-> hs]
    BY DEF SelfPayment, SelfHash
  <2> HIDE DEF a, hs, st, H
  <2> QED BY <2>1, <2>3, <2>4, <2>5 DEF LndPayment, H
<1>5. Payments \in Seq(LndPayment)
  <2> HIDE DEF LndPayment
  <2> QED BY <1>1, <1>4 DEF Payments
<1> QED BY <1>3, <1>5

\* Every other step reads a list or moves the channel.
LEMMA StepKinds ==
  [Next]_auditVars =>
    \/ Quiet \/ ChannelMoves \/ ListTransactions
    \/ PendingChannels \/ OpenChannels \/ ClosedChannels \/ ListSweeps
    \/ ListInvoices \/ ListPayments \/ ListForwards
<1> SUFFICES ASSUME [Next]_auditVars,
                    ~(\/ ChannelMoves \/ ListTransactions
                      \/ PendingChannels \/ OpenChannels \/ ClosedChannels \/ ListSweeps
                      \/ ListInvoices \/ ListPayments \/ ListForwards)
             PROVE  Quiet
  OBVIOUS
<1>1. CASE PaymentMoves \/ BlockMined \/ SearchHeights \/ Fetch
  BY <1>1 DEF PaymentMoves, BlockMined, SearchHeights, Fetch, world, callVars, Quiet
<1>2. CASE AuditRefused \/ CannotAsk \/ FetchFails \/ ErrReceiveWithFee \/ CallFails
  BY <1>2 DEF AuditRefused, CannotAsk, FetchFails, ErrReceiveWithFee, CallFails, Fail, To, world,
              callVars, Quiet
<1>3. CASE AuditBegins
  BY <1>3 DEF AuditBegins, world, callVars, Quiet, Early
<1>4. CASE AskPrices
  BY <1>4 DEF AskPrices, BeforePrices, world, callVars, Quiet, Early
<1>5. CASE WithoutPrices
  BY <1>5 DEF WithoutPrices, BeforePrices, To, world, callVars, Quiet, Early
<1>6. CASE RatesBegin
  BY <1>6 DEF RatesBegin, Fail, To, world, callVars, Quiet
<1>7. CASE Fetched
  <2>1. UNCHANGED <<world, callVars>>
    BY <1>7 DEF Fetched, To
  <2>2. CASE stage = "prices"
    BY <1>7, <2>1, <2>2 DEF Fetched, To, world, callVars, Quiet, Early
  <2>3. CASE stage = "prices2"
    BY <1>7, <2>1, <2>3 DEF Fetched, To, world, callVars, Quiet
  <2>4. CASE stage = "rates"
    <3>1. stage' = "done" \/ stage' = "failed"
      BY <1>7, <2>4 DEF Fetched, To
    <3> QED BY <2>1, <2>4, <3>1 DEF world, callVars, Quiet
  <2> QED BY <1>7, <2>2, <2>3, <2>4 DEF Fetched, Fetching
<1>8. CASE Finished \/ UNCHANGED auditVars
  BY <1>8 DEF Finished, auditVars, world, callVars, Quiet
<1> QED BY <1>1, <1>2, <1>3, <1>4, <1>5, <1>6, <1>7, <1>8 DEF Next

\* lnd's lists, and the request, stay.
LEMMA ListsStay == [Next]_auditVars => UNCHANGED <<wallet, invoices, payments, req>>
<1> SUFFICES ASSUME [Next]_auditVars PROVE UNCHANGED <<wallet, invoices, payments, req>>
  OBVIOUS
<1>1. CASE Quiet
  BY <1>1 DEF Quiet
<1>2. CASE ChannelMoves
  BY <1>2 DEF ChannelMoves, callVars
<1>3. CASE ListTransactions \/ ListSweeps
  BY <1>3 DEF ListTransactions, ListSweeps, world
<1>4. CASE PendingChannels \/ OpenChannels \/ ClosedChannels
  BY <1>4 DEF PendingChannels, OpenChannels, ClosedChannels, AddChannels, world
<1>5. CASE ListInvoices \/ ListPayments \/ ListForwards
  BY <1>5 DEF ListInvoices, ListPayments, ListForwards, QueryPaginated, world
<1> QED BY <1>1, <1>2, <1>3, <1>4, <1>5, StepKinds

LEMMA WorldStep == KeptWorld /\ [Next]_auditVars => KeptWorld'
  BY ListsStay DEF KeptWorld

\* The transactions are read once.
LEMMA TxnsStep == KeptWorld /\ RangeInv /\ TxnsInv /\ [Next]_auditVars => TxnsInv'
<1> SUFFICES ASSUME KeptWorld, RangeInv, TxnsInv, [Next]_auditVars PROVE TxnsInv'
  OBVIOUS
<1>1. CASE ListTransactions
  <2>1. /\ ~ReceiveWithFee(Transactions, Window, Now)
        /\ txns' = filterOnChain(Transactions, Window, Now) /\ wallet' = wallet
    BY <1>1 DEF ListTransactions, world
  <2> DEFINE ts == txns'
  <2>2. /\ ts \in Seq(Tx)
        /\ \A j \in DOMAIN ts : \E i \in DOMAIN wallet : Shows(ts[j], wallet[i])
        /\ \A i, j \in DOMAIN ts : ts[i].txid = ts[j].txid => i = j
    BY <2>1, TransactionsRead DEF RangeInv
  <2> QED BY <2>1, <2>2 DEF TxnsInv, Shows
<1>2. CASE ~ListTransactions
  <2>1. UNCHANGED <<wallet, txns>>
    <3>1. CASE Quiet
      BY <3>1 DEF Quiet
    <3>2. CASE ChannelMoves
      BY <3>2 DEF ChannelMoves, callVars
    <3>3. CASE ListSweeps
      BY <3>3 DEF ListSweeps, world
    <3>4. CASE PendingChannels \/ OpenChannels \/ ClosedChannels
      BY <3>4 DEF PendingChannels, OpenChannels, ClosedChannels, AddChannels, world
    <3>5. CASE ListInvoices \/ ListPayments \/ ListForwards
      BY <3>5 DEF ListInvoices, ListPayments, ListForwards, QueryPaginated, world
    <3> QED BY <1>2, <3>1, <3>2, <3>3, <3>4, <3>5, StepKinds
  <2> QED BY <2>1 DEF TxnsInv, Shows
<1> QED BY <1>1, <1>2

\* The lists that are read page by page hold what lnd lists.
LEMMA ListStep == KeptWorld /\ ListInv /\ [Next]_auditVars => ListInv'
<1> SUFFICES ASSUME KeptWorld, ListInv, [Next]_auditVars PROVE ListInv'
  OBVIOUS
<1>1. CASE Quiet
  <2>1. UNCHANGED <<listed, invs, pays>>
    BY <1>1 DEF Quiet
  <2>2. <<>> \in Seq(LndInvoice)
    OBVIOUS
  <2>3. stage' = stage \/ stage' \in {"done", "failed"}
        \/ (stage \notin {"invoices", "payments", "forwards", "done", "failed"}
            /\ stage' \notin {"payments", "forwards"})
    BY <1>1 DEF Quiet, Early
  <2> QED BY <2>1, <2>2, <2>3 DEF ListInv
<1>2. CASE ChannelMoves
  BY <1>2 DEF ChannelMoves, callVars, ListInv
<1>3. CASE ListTransactions
  <2>1. stage = "txns" /\ stage' \in {"offchain", "pending"} /\ UNCHANGED <<listed, invs, pays>>
    BY <1>3 DEF ListTransactions
  <2> QED BY <2>1 DEF ListInv
<1>4. CASE PendingChannels \/ OpenChannels \/ ClosedChannels
  BY <1>4 DEF PendingChannels, OpenChannels, ClosedChannels, AddChannels, ListInv
<1>5. CASE ListSweeps
  BY <1>5 DEF ListSweeps, ListInv
<1>6. CASE ListInvoices
  <2> DEFINE page == NextPage(DOMAIN Invoices)
             all == Gathered(Invoices, page)
  <2>1. stage = "invoices" /\ listed \in Seq(LndInvoice)
    BY <1>6 DEF ListInvoices, ListInv
  <2>2. Invoices \in Seq(LndInvoice) /\ all \in Seq(LndInvoice)
    BY <2>1, ListsTyped, PageIs
  <2>3. CASE LastPage(page)
    <3>1. invs' = filterInvoices(all, Window) /\ stage' = "payments" /\ pays' = pays
          /\ listed' = <<>>
      BY <1>6, <2>3 DEF ListInvoices, InvoicesRead, QueryPaginated
    <3>2. invs' \in Seq(LndInvoice)
      <4> HIDE DEF all
      <4> DEFINE S == {i \in DOMAIN all : /\ all[i].state = "settled"
                                          /\ inRange(all[i].settle, Window)}
      <4>1. invs' = ItemsAt(all, S)
        BY <3>1 DEF filterInvoices
      <4>2. S \in SUBSET DOMAIN all
        OBVIOUS
      <4> HIDE DEF S
      <4> QED BY <2>2, <4>1, <4>2, ItemsAtIs
    <3> QED BY <3>1, <3>2 DEF ListInv
  <2>4. CASE ~LastPage(page)
    <3>1. listed' = all /\ UNCHANGED <<stage, invs, pays>>
      BY <1>6, <2>4 DEF ListInvoices, QueryPaginated
    <3> QED BY <2>1, <2>2, <3>1 DEF ListInv
  <2> QED BY <2>3, <2>4
<1>7. CASE ListPayments
  <2> DEFINE S == {i \in DOMAIN Payments : Succeeded(Payments[i])}
             page == NextPage(S)
             all == Gathered(Payments, page)
  <2>1. stage = "payments" /\ listed \in Seq(LndPayment)
    BY <1>7 DEF ListPayments, ListInv
  <2>2. Payments \in Seq(LndPayment) /\ all \in Seq(LndPayment)
    <3>1. S \in SUBSET DOMAIN Payments
      OBVIOUS
    <3> HIDE DEF S
    <3> QED BY <2>1, <3>1, ListsTyped, PageIs
  <2>3. CASE LastPage(page)
    <3>1. PaymentsRead(all) /\ listed' = <<>>
      BY <1>7, <2>3 DEF ListPayments, QueryPaginated
    <3>2. pays' = preProcessPayments(all) /\ stage' \in {"failed", "forwards"} /\ invs' = invs
      BY <3>1 DEF PaymentsRead
    <3>3. pays' \in Seq(PaymentInfo)
      BY <2>2, <3>2, PaymentInfos
    <3> QED BY <3>1, <3>2, <3>3 DEF ListInv
  <2>4. CASE ~LastPage(page)
    <3>1. listed' = all /\ UNCHANGED <<stage, invs, pays>>
      BY <1>7, <2>4 DEF ListPayments, QueryPaginated
    <3> QED BY <2>1, <2>2, <3>1 DEF ListInv
  <2> QED BY <2>3, <2>4
<1>8. CASE ListForwards
  <2> DEFINE page == NextPage(DOMAIN req.forwards)
             all == Gathered(req.forwards, page)
  <2>1. stage = "forwards" /\ listed \in Seq(LndForward)
    BY <1>8 DEF ListForwards, ListInv
  <2>2. all \in Seq(LndForward)
    BY <2>1, WorldFacts, PageIs
  <2>3. CASE LastPage(page)
    <3>1. ForwardsRead(all)
      BY <1>8, <2>3 DEF ListForwards
    <3>2. stage' \in {"done", "failed"} /\ UNCHANGED <<invs, pays>>
      BY <3>1 DEF ForwardsRead
    <3> QED BY <3>2 DEF ListInv
  <2>4. CASE ~LastPage(page)
    <3>1. listed' = all /\ UNCHANGED <<stage, invs, pays>>
      BY <1>8, <2>4 DEF ListForwards, QueryPaginated
    <3> QED BY <2>1, <2>2, <3>1 DEF ListInv
  <2> QED BY <2>3, <2>4
<1> QED BY <1>1, <1>2, <1>3, <1>4, <1>5, <1>6, <1>7, <1>8, StepKinds

\* While its lists are read the channel only moves on, so that it is found in
\* one of them unless it slips by.
LEMMA TrackStep ==
  KeptWorld /\ RangeInv /\ TrackInv /\ [Next]_auditVars => TrackInv'
<1> SUFFICES ASSUME KeptWorld, RangeInv, TrackInv, [Next]_auditVars PROVE TrackInv'
  OBVIOUS
<1>1. CASE Quiet
  <2>1. UNCHANGED <<phase, req, txns, opened, closings, seen>>
    BY <1>1 DEF Quiet
  <2>2. (Has("fund")' <=> Has("fund")) /\ (Has("close")' <=> Has("close"))
        /\ (Slipped' <=> Slipped) /\ (CoopWaiting' <=> CoopWaiting)
    BY <2>1 DEF Has, Slipped, CoopWaiting
  <2>3. stage \in Early => ~Has("fund") /\ ~Has("close")
    BY DEF TrackInv, Has
  <2> HIDE DEF Has, Slipped, CoopWaiting
  <2> QED BY <1>1, <2>1, <2>2, <2>3 DEF Quiet, TrackInv, Early
<1>2. CASE ChannelMoves
  <2>1. /\ phase' \in Moves(phase)
        /\ UNCHANGED <<stage, req, txns, opened, closings, seen>>
    BY <1>2 DEF ChannelMoves, callVars
  <2>2. (Has("fund")' <=> Has("fund")) /\ (Has("close")' <=> Has("close"))
        /\ (Slipped' <=> Slipped) /\ (CoopWaiting' <=> CoopWaiting)
    BY <2>1 DEF Has, Slipped, CoopWaiting
  <2>3. /\ phase' \in {"open", "coop", "closing", "forced", "closed"}
        /\ phase \in {"opening", "open", "coop", "closing", "forced"}
        /\ phase = "open" => phase' \in Leaving
        /\ phase = "coop" => phase' = "closed"
        /\ phase \in Leaving => phase' \in {"forced", "closed"}
    BY <2>1 DEF Moves, TrackInv, Phases, Leaving
  <2>4. phase' \in Phases
    BY <2>3 DEF Phases
  <2> HIDE DEF Has, Slipped, CoopWaiting
  <2> QED BY <2>1, <2>2, <2>3, <2>4 DEF TrackInv, Leaving
<1>3. CASE ListTransactions
  <2>1. /\ ~ReceiveWithFee(Transactions, Window, Now)
        /\ txns' = filterOnChain(Transactions, Window, Now)
        /\ stage' = IF txns' = <<>> THEN "offchain" ELSE "pending"
        /\ seen' = [seen EXCEPT !.txns = phase]
        /\ UNCHANGED <<phase, req, opened, closings>>
    BY <1>3 DEF ListTransactions, world
  <2> DEFINE ts == txns'
  <2>2. \A j \in DOMAIN ts : \E i \in DOMAIN wallet : Shows(ts[j], wallet[i])
                                                      /\ InWallet(wallet[i])
    BY <2>1, TransactionsRead DEF RangeInv
  <2>3. ASSUME NEW id, Has(id)' PROVE \E i \in DOMAIN wallet : wallet[i].txid = id
                                                              /\ InWallet(wallet[i])
    <3>1. PICK j \in DOMAIN ts : ts[j].txid = id
      BY <2>3 DEF Has
    <3>2. PICK i \in DOMAIN wallet : Shows(ts[j], wallet[i]) /\ InWallet(wallet[i])
      BY <2>2
    <3>3. ts[j].txid = wallet[i].txid
      BY <3>2, FilteredTx DEF Shows
    <3> QED BY <3>1, <3>2, <3>3
  <2>4. Has("fund")' => phase # "none"
    BY <2>3 DEF InWallet
  <2>5. Has("close")' => phase \in Leaving \cup {"closed"}
    BY <2>3 DEF InWallet, Leaving
  <2>6. stage' = "offchain" => ~Has("fund")' /\ ~Has("close")'
    BY <2>1 DEF Has
  <2>7. DOMAIN seen' = DOMAIN seen
    BY <2>1
  <2> HIDE DEF Has
  <2> QED BY <2>1, <2>4, <2>5, <2>6, <2>7 DEF TrackInv, Early
<1>4. ASSUME PendingChannels \/ OpenChannels \/ ClosedChannels
      PROVE  /\ UNCHANGED <<phase, req, txns>>
             /\ opened' \subseteq {"fund"} /\ opened \subseteq opened'
             /\ DOMAIN closings' \subseteq {"close"} /\ DOMAIN closings \subseteq DOMAIN closings'
             /\ Has("fund")' = Has("fund") /\ Has("close")' = Has("close")
  <2>1. PICK a, b : AddChannels(a, b)
    BY <1>4 DEF PendingChannels, OpenChannels, ClosedChannels
  <2> QED BY <2>1 DEF AddChannels, world, TrackInv, Has
<1>5. CASE PendingChannels
  <2>1. /\ stage = "pending" /\ stage' = "open" /\ DOMAIN seen' = DOMAIN seen
        /\ seen'.pending = phase
        /\ phase \in {"opening", "coop", "closing", "forced"} => "fund" \in opened'
        /\ phase \in {"closing", "forced"} => "close" \in DOMAIN closings'
    BY <1>5 DEF PendingChannels, AddChannels, TrackInv
  <2> HIDE DEF Has
  <2> QED BY <1>4, <1>5, <2>1 DEF TrackInv, Phases, Leaving, Early
<1>6. CASE OpenChannels
  <2>1. /\ stage = "open" /\ stage' = "closed" /\ DOMAIN seen' = DOMAIN seen
        /\ seen'.open = phase /\ seen'.pending = seen.pending
        /\ phase = "open" => "fund" \in opened'
    BY <1>6 DEF OpenChannels, AddChannels, TrackInv
  <2> HIDE DEF Has
  <2> QED BY <1>4, <1>6, <2>1 DEF TrackInv, Phases, Leaving, Early
<1>7. CASE ClosedChannels
  <2>1. /\ stage = "closed" /\ stage' = "sweeps" /\ DOMAIN seen' = DOMAIN seen
        /\ seen'.open = seen.open /\ seen'.pending = seen.pending /\ seen'.closed = phase
        /\ phase = "closed" => "fund" \in opened' /\ "close" \in DOMAIN closings'
    BY <1>7 DEF ClosedChannels, AddChannels, TrackInv
  <2> HIDE DEF Has
  <2> QED BY <1>4, <1>7, <2>1 DEF TrackInv, Phases, Leaving, Early, Slipped, CoopWaiting
<1>8. CASE ListSweeps \/ ListInvoices \/ ListPayments \/ ListForwards
  <2>1. /\ UNCHANGED <<phase, req, txns, opened, closings>>
        /\ seen'.open = seen.open /\ seen'.pending = seen.pending /\ seen'.closed = seen.closed
        /\ DOMAIN seen' = DOMAIN seen
        /\ stage \in {"sweeps", "invoices", "payments", "forwards"}
        /\ stage' \in {"offchain", "invoices", "payments", "forwards", "done", "failed"}
    <3>1. CASE ListSweeps
      BY <3>1 DEF ListSweeps, world
    <3>2. CASE ListInvoices
      BY <3>2 DEF ListInvoices, InvoicesRead, QueryPaginated, world
    <3>3. CASE ListPayments
      BY <3>3 DEF ListPayments, PaymentsRead, QueryPaginated, world, TrackInv
    <3>4. CASE ListForwards
      BY <3>4 DEF ListForwards, ForwardsRead, QueryPaginated, world
    <3> QED BY <1>8, <3>1, <3>2, <3>3, <3>4
  <2>2. (Has("fund")' <=> Has("fund")) /\ (Has("close")' <=> Has("close"))
        /\ (Slipped' <=> Slipped) /\ (CoopWaiting' <=> CoopWaiting)
    BY <2>1 DEF Has, Slipped, CoopWaiting
  <2> HIDE DEF Has, Slipped, CoopWaiting
  <2> QED BY <2>1, <2>2 DEF TrackInv, Early
<1> QED BY <1>1, <1>2, <1>3, <1>5, <1>6, <1>7, <1>8, StepKinds

\* The list c is the list b after the list a: where each of its items is from.
After(c, a, b) ==
  /\ Len(a) \in Nat /\ Len(b) \in Nat
  /\ DOMAIN c = 1..(Len(a) + Len(b))
  /\ \A k \in DOMAIN a : k \in DOMAIN c /\ c[k] = a[k]
  /\ \A k \in DOMAIN b : Len(a) + k \in DOMAIN c /\ c[Len(a) + k] = b[k]
  /\ \A k \in DOMAIN c : k \in DOMAIN a \/ \E j \in DOMAIN b : k = Len(a) + j

\* Where the items of a list after another are from.
LEMMA JoinedIs ==
  ASSUME NEW T, NEW a \in Seq(T), NEW b \in Seq(T)
  PROVE  After(a \o b, a, b)
<1>1. PICK m \in Nat : m = Len(a) /\ DOMAIN a = 1..m
  OBVIOUS
<1>2. PICK n \in Nat : n = Len(b) /\ DOMAIN b = 1..n
  OBVIOUS
<1>3. DOMAIN (a \o b) = 1..(m + n)
  BY <1>1, <1>2
<1>4. /\ \A k \in 1..m : k \in 1..(m + n)
      /\ \A k \in 1..n : m + k \in 1..(m + n)
  OBVIOUS
<1>5. ASSUME NEW k \in 1..(m + n), k \notin 1..m PROVE \E j \in 1..n : k = m + j
  <2>1. k - m \in 1..n /\ k = m + (k - m)
    BY <1>5
  <2> QED BY <2>1
<1>6. /\ \A k \in 1..Len(a) : (a \o b)[k] = a[k]
      /\ \A k \in 1..Len(b) : (a \o b)[Len(a) + k] = b[k]
  BY ConcatIs
<1> DEFINE ab == a \o b
<1>7. /\ DOMAIN ab = 1..(m + n)
      /\ \A k \in 1..m : ab[k] = a[k]
      /\ \A k \in 1..n : ab[m + k] = b[k]
  BY ONLY <1>1, <1>2, <1>3, <1>6
<1> HIDE DEF ab
<1>8. \A k \in DOMAIN a : k \in DOMAIN ab /\ ab[k] = a[k]
  BY ONLY <1>1, <1>4, <1>7
<1>9. \A k \in DOMAIN b : m + k \in DOMAIN ab /\ ab[m + k] = b[k]
  BY ONLY <1>2, <1>4, <1>7
<1>10. \A k \in DOMAIN ab : k \in DOMAIN a \/ \E j \in DOMAIN b : k = m + j
  <2>1. \A k \in 1..(m + n) : k \in 1..m \/ \E j \in 1..n : k = m + j
    BY ONLY <1>5, Zenon
  <2>2. DOMAIN ab = 1..(m + n) /\ DOMAIN a = 1..m /\ DOMAIN b = 1..n
    BY ONLY <1>1, <1>2, <1>7
  <2> QED BY ONLY <2>1, <2>2, Zenon
<1>11. /\ m \in Nat /\ n \in Nat
       /\ DOMAIN ab = 1..(m + n)
       /\ \A k \in DOMAIN a : k \in DOMAIN ab /\ ab[k] = a[k]
       /\ \A k \in DOMAIN b : m + k \in DOMAIN ab /\ ab[m + k] = b[k]
       /\ \A k \in DOMAIN ab : k \in DOMAIN a \/ \E j \in DOMAIN b : k = m + j
  BY ONLY <1>7, <1>8, <1>9, <1>10, m \in Nat, n \in Nat, Zenon
<1>12. After(ab, a, b)
  BY ONLY <1>1, <1>2, <1>11, Zenon DEF After
<1> QED BY ONLY <1>12 DEF ab

\* The same, spelled out.
LEMMA Joined ==
  ASSUME NEW T, NEW a \in Seq(T), NEW b \in Seq(T)
  PROVE  /\ Len(a) \in Nat /\ Len(b) \in Nat
         /\ DOMAIN (a \o b) = 1..(Len(a) + Len(b))
         /\ \A k \in DOMAIN a : k \in DOMAIN (a \o b) /\ (a \o b)[k] = a[k]
         /\ \A k \in DOMAIN b : /\ Len(a) + k \in DOMAIN (a \o b)
                                /\ (a \o b)[Len(a) + k] = b[k]
         /\ \A k \in DOMAIN (a \o b) : \/ k \in DOMAIN a
                                       \/ \E j \in DOMAIN b : k = Len(a) + j
  BY JoinedIs DEF After

\* A list of one or two items.
LEMMA FewItems ==
  ASSUME NEW S, NEW a \in S, NEW b \in S
  PROVE  <<a>> \in Seq(S) /\ <<a, b>> \in Seq(S) /\ <<>> \in Seq(S)
         /\ Len(<<a>>) = 1 /\ Len(<<a, b>>) = 2 /\ Len(<<>>) = 0
         /\ <<a>>[1] = a /\ <<a, b>>[1] = a /\ <<a, b>>[2] = b
  OBVIOUS

\* An entry of the off chain report.
LEMMA OffEntryIs ==
  ASSUME NEW v, NEW ts \in Nat, NEW amt \in Int, NEW type \in OffTypeNames,
         NEW id \in STRING \cup {""},
         NEW c \in {""} \cup {getCategory(l, v.categories) : l \in STRING}
  PROVE  newHarmonyEntry(ts, amt, type, id, c, FALSE, v) \in OffEntry(v)
<1> DEFINE x == [ts |-> ts, amt |-> amt, type |-> type, id |-> id, cat |-> c]
<1>1. /\ x \in OffData(v) /\ x.ts = ts /\ x.amt = amt /\ x.type = type /\ x.id = id
      /\ x.cat = c
  BY DEF OffData
<1> HIDE DEF x
<1>2. newHarmonyEntry(x.ts, x.amt, x.type, x.id, x.cat, FALSE, v) \in OffEntry(v)
  BY <1>1 DEF OffEntry
<1> QED BY <1>1, <1>2

PaidTypes(toSelf) ==
  IF toSelf THEN {"CircularPayment", "CircularPaymentFee"} ELSE {"Payment", "Fee"}

\* e is the entry of a payment or of a forward.
OfPayment(e, circular) ==
  \/ e.type \in PaidTypes(e.txid \in circular)
  \/ e.txid = "" /\ e.type \in {"Forward", "ForwardFee"}

\* e is the entry of the invoice x.
OfInvoice(e, x, circular) ==
  /\ e.txid = x.hash
  /\ e.type = IF x.hash \in circular THEN "CircularReceipt" ELSE "Receipt"

\* The entries of invoices, then those of payments and forwards (offChainReport).
LEMMA OffChainIs ==
  ASSUME NEW is \in Seq(LndInvoice), NEW ps \in Seq(PaymentInfo), NEW fs \in Seq(LndForward),
         NEW circular, NEW v, NEW off, off = offChainReport(is, ps, circular, fs, v)
  PROVE  /\ off \in Seq(OffEntry(v))
         /\ \A k \in DOMAIN is : k \in DOMAIN off /\ OfInvoice(off[k], is[k], circular)
         /\ \A k \in DOMAIN off : k \in DOMAIN is \/ OfPayment(off[k], circular)
<1> DEFINE E == OffEntry(v)
           L == {e \in E : OfPayment(e, circular)}
           I(i) == invoiceEntry(is[i], is[i].hash \in circular, v)
           P(i) == paymentEntry(ps[i], ps[i].hash \in circular, v)
           F(i) == forwardingEntry(fs[i], v)
           a == [i \in DOMAIN is |-> I(i)]
           b == [i \in DOMAIN ps |-> P(i)]
           c == [i \in DOMAIN fs |-> F(i)]
<1>1. off = (a \o FlattenSeq(b)) \o FlattenSeq(c)
  BY DEF offChainReport
<1>2. /\ DOMAIN is = 1..Len(is) /\ Len(is) \in Nat
      /\ DOMAIN ps = 1..Len(ps) /\ Len(ps) \in Nat
      /\ DOMAIN fs = 1..Len(fs) /\ Len(fs) \in Nat
  OBVIOUS
<1>3. ASSUME NEW i \in DOMAIN is PROVE I(i) \in E /\ OfInvoice(I(i), is[i], circular)
  <2> DEFINE x == is[i]
             ty == IF x.hash \in circular THEN "CircularReceipt" ELSE "Receipt"
             ct == getCategory(x.label, v.categories)
  <2>1. x \in LndInvoice
    OBVIOUS
  <2>2. I(i) = newHarmonyEntry(x.settle, x.amount, ty, x.hash, ct, FALSE, v)
    BY DEF invoiceEntry
  <2>7. I(i).txid = x.hash /\ I(i).type = ty
    <3> HIDE DEF ty, x, I, ct
    <3> QED BY <2>2 DEF newHarmonyEntry
  <2>8. OfInvoice(I(i), is[i], circular)
    <3> HIDE DEF I
    <3> QED BY <2>7 DEF OfInvoice
  <2> HIDE DEF x
  <2>3. x.settle \in Nat /\ x.amount \in Int /\ x.hash \in STRING /\ x.label \in STRING
    BY <2>1 DEF LndInvoice
  <2>4. ty \in OffTypeNames
    BY DEF OffTypeNames
  <2>5. ct \in {""} \cup {getCategory(l, v.categories) : l \in STRING}
    BY <2>3
  <2>6. x.hash \in STRING \cup {""}
    BY <2>3
  <2> HIDE DEF ty, ct, I
  <2> QED BY <2>2, <2>3, <2>4, <2>5, <2>6, <2>8, OffEntryIs
<1>4. "" \in {""} \cup {getCategory(l, v.categories) : l \in STRING} /\ "" \in STRING \cup {""}
  OBVIOUS
<1>5. ASSUME NEW i \in DOMAIN ps PROVE P(i) \in Seq(L)
  <2> DEFINE x == ps[i]
             ty == IF x.hash \in circular THEN "CircularPayment" ELSE "Payment"
             tf == IF x.hash \in circular THEN "CircularPaymentFee" ELSE "Fee"
             entry == newHarmonyEntry(x.settleTime, -x.amount, ty, x.hash, "", FALSE, v)
             fee == newHarmonyEntry(x.settleTime, -x.fee, tf, x.hash, "", FALSE, v)
  <2>1. x \in PaymentInfo
    OBVIOUS
  <2>2. P(i) = IF x.fee = 0 THEN <<entry>> ELSE <<entry, fee>>
    BY DEF paymentEntry
  <2> HIDE DEF x
  <2>3. x.settleTime \in Nat /\ -x.amount \in Int /\ -x.fee \in Int /\ x.hash \in STRING \cup {""}
    <3>1. x.settleTime \in Nat /\ x.amount \in Nat /\ x.fee \in Nat /\ x.hash \in STRING
      BY <2>1 DEF PaymentInfo
    <3>2. \A n \in Nat : -n \in Int
      OBVIOUS
    <3> QED BY <3>1, <3>2, Zenon
  <2>4. ty \in OffTypeNames /\ tf \in OffTypeNames
    BY DEF OffTypeNames
  <2>7. ty \in PaidTypes(x.hash \in circular) /\ tf \in PaidTypes(x.hash \in circular)
    BY DEF PaidTypes
  <2> HIDE DEF ty, tf
  <2>5. entry \in E /\ fee \in E
    BY <1>4, <2>3, <2>4, OffEntryIs
  <2>8. entry.txid = x.hash /\ entry.type = ty /\ fee.txid = x.hash /\ fee.type = tf
    BY DEF newHarmonyEntry
  <2> HIDE DEF entry, fee, P, E
  <2>6. entry \in L /\ fee \in L
    BY <2>5, <2>7, <2>8 DEF OfPayment
  <2> HIDE DEF L
  <2> QED BY <2>2, <2>6, FewItems
<1>6. ASSUME NEW i \in DOMAIN fs PROVE F(i) \in Seq(L)
  <2> DEFINE x == fs[i]
             entry == newHarmonyEntry(x.time, 0, "Forward", "", "", FALSE, v)
             fee == newHarmonyEntry(x.time, x.fee, "ForwardFee", "", "", FALSE, v)
  <2>1. x \in LndForward
    OBVIOUS
  <2>2. F(i) = IF x.fee = 0 THEN <<entry>> ELSE <<entry, fee>>
    BY DEF forwardingEntry
  <2> HIDE DEF x
  <2>3. x.time \in Nat /\ x.fee \in Int /\ 0 \in Int
    BY <2>1 DEF LndForward
  <2>4. "Forward" \in OffTypeNames /\ "ForwardFee" \in OffTypeNames
    BY DEF OffTypeNames
  <2>5. entry \in E /\ fee \in E
    BY <1>4, <2>3, <2>4, OffEntryIs
  <2>6. entry.txid = "" /\ entry.type = "Forward" /\ fee.txid = "" /\ fee.type = "ForwardFee"
    BY DEF newHarmonyEntry
  <2> HIDE DEF entry, fee, F, E
  <2>7. entry \in L /\ fee \in L
    BY <2>5, <2>6 DEF OfPayment
  <2> HIDE DEF L
  <2> QED BY <2>2, <2>7, FewItems
<1> HIDE DEF E, I, P, F
<1>7. a \in Seq(E) /\ DOMAIN a = DOMAIN is /\ \A i \in DOMAIN is : a[i] = I(i)
  BY <1>2, <1>3
<1>8. b \in Seq(Seq(L)) /\ c \in Seq(Seq(L))
  <2> HIDE DEF L
  <2> QED BY <1>2, <1>5, <1>6
<1>9. FlattenSeq(b) \in Seq(L) /\ FlattenSeq(c) \in Seq(L)
  <2> HIDE DEF L, b, c
  <2> QED BY <1>8, FlattenIs
<1>10. PICK fb \in Seq(L), fc \in Seq(L) : off = (a \o fb) \o fc
  BY <1>1, <1>9
<1>11. fb \in Seq(E) /\ fc \in Seq(E)
  <2>1. ASSUME NEW s \in Seq(L) PROVE s \in Seq(E)
    <3>1. L \subseteq E
      OBVIOUS
    <3> HIDE DEF L
    <3> QED BY <3>1
  <2> QED BY <2>1
<1>12. \A s \in Seq(L) : \A j \in DOMAIN s : OfPayment(s[j], circular)
  <2>1. \A e \in L : OfPayment(e, circular)
    OBVIOUS
  <2> HIDE DEF L
  <2> QED BY <2>1
<1> HIDE DEF a, b, c, L
<1> DEFINE ab == a \o fb
<1>13. ab \in Seq(E) /\ off = ab \o fc /\ off \in Seq(E)
  <2>1. ab \in Seq(E) /\ off = ab \o fc
    BY <1>7, <1>10, <1>11, ConcatIs
  <2> HIDE DEF ab
  <2> QED BY <1>11, <2>1, ConcatIs
<1>14. /\ \A k \in DOMAIN a : k \in DOMAIN ab /\ ab[k] = a[k]
       /\ \A k \in DOMAIN fb : ab[Len(a) + k] = fb[k]
       /\ \A k \in DOMAIN ab : k \in DOMAIN a \/ \E j \in DOMAIN fb : k = Len(a) + j
  <2>1. a \in Seq(E) /\ fb \in Seq(E) /\ ab = a \o fb
    BY <1>7, <1>11
  <2> HIDE DEF ab
  <2>2. After(ab, a, fb)
    BY ONLY <2>1, JoinedIs
  <2> QED BY ONLY <2>2 DEF After
<1> HIDE DEF ab
<1>15. /\ \A k \in DOMAIN ab : k \in DOMAIN off /\ off[k] = ab[k]
       /\ \A k \in DOMAIN fc : off[Len(ab) + k] = fc[k]
       /\ \A k \in DOMAIN off : k \in DOMAIN ab \/ \E j \in DOMAIN fc : k = Len(ab) + j
  <2>1. off = ab \o fc /\ ab \in Seq(E)
    BY <1>13
  <2> QED BY ONLY <1>11, <2>1, Joined
<1>16. ASSUME NEW k \in DOMAIN is PROVE k \in DOMAIN off /\ OfInvoice(off[k], is[k], circular)
  BY <1>3, <1>7, <1>14, <1>15
<1>17. ASSUME NEW k \in DOMAIN off, k \notin DOMAIN is PROVE OfPayment(off[k], circular)
  <2>1. CASE k \in DOMAIN ab
    <3>1. PICK j \in DOMAIN fb : k = Len(a) + j
      BY <1>7, <1>14, <1>17, <2>1
    <3> QED BY <1>12, <1>14, <1>15, <2>1, <3>1
  <2>2. CASE k \notin DOMAIN ab
    <3>1. PICK j \in DOMAIN fc : k = Len(ab) + j
      BY <1>15, <2>2
    <3> QED BY <1>12, <1>15, <3>1
  <2> QED BY <2>1, <2>2
<1> QED BY <1>13, <1>16, <1>17 DEF E

\* Whatever the categories are, fees are looked up as the chain knows them.
LEMMA UtilsFees == KeptWorld => \A c : FeesOf(wallet, Utils(c))
<1> SUFFICES ASSUME KeptWorld, NEW c, NEW i \in DOMAIN wallet
             PROVE  Utils(c).getFee[wallet[i].txid] = wallet[i].chainFee
  BY DEF FeesOf
<1> DEFINE id == wallet[i].txid
           A(tx) == tx \in ToSet(wallet) /\ tx.txid = id
           W == {tx.txid : tx \in ToSet(wallet)}
           g == [x \in W |-> (CHOOSE tx \in ToSet(wallet) : tx.txid = x).chainFee]
<1>1. \A k, l \in DOMAIN wallet : wallet[k].txid = wallet[l].txid => k = l
  BY WorldFacts
<1>2. A(wallet[i]) /\ id \in W
  BY DEF ToSet
<1>3. \A tx : A(tx) => tx = wallet[i]
  BY <1>1 DEF ToSet
<1>4. Utils(c).getFee = g
  BY DEF Utils
<1>5. g[id] = (CHOOSE tx : A(tx)).chainFee
  BY <1>2
<1>6. (CHOOSE tx : A(tx)) = wallet[i]
  <2> HIDE DEF A
  <2> QED BY <1>2, <1>3
<1> QED BY <1>4, <1>5, <1>6

\* The report of no transactions.
LEMMA NothingOnChain == \A o, c, sw, u : onChainReport(<<>>, o, c, sw, u) = <<>>
<1> SUFFICES ASSUME NEW o, NEW c, NEW sw, NEW u
             PROVE  onChainReport(<<>>, o, c, sw, u) = <<>>
  OBVIOUS
<1> DEFINE X(i) == EntriesOf(<<>>[i], o, c, sw, u)
           s == [i \in DOMAIN <<>> |-> X(i)]
<1>1. onChainReport(<<>>, o, c, sw, u) = FlattenSeq(s)
  BY DEF onChainReport
<1> HIDE DEF X
<1>2. s = <<>>
  OBVIOUS
<1>3. Len(s) = 0
  BY <1>2
<1> HIDE DEF s
<1>4. FlattenSeq(s) = s
  BY <1>3 DEF FlattenSeq
<1> QED BY <1>1, <1>2, <1>4

\* Payments that are left are payments.
LEMMA PaymentsLeft ==
  ASSUME NEW ps \in Seq(PaymentInfo), NEW w
  PROVE  filterPayments(ps, w) \in Seq(PaymentInfo)
<1> DEFINE S == {i \in DOMAIN ps : ps[i].state = "succeeded" /\ inRange(ps[i].settleTime, w)}
<1>1. filterPayments(ps, w) = ItemsAt(ps, S)
  BY DEF filterPayments
<1>2. S \in SUBSET DOMAIN ps
  OBVIOUS
<1> HIDE DEF S
<1> QED BY <1>1, <1>2, ItemsAtIs

\* The report is made of what was read.
LEMMA ReportStep ==
  KeptWorld /\ ListInv /\ TrackInv /\ ReportInv /\ [Next]_auditVars => ReportInv'
<1> SUFFICES ASSUME KeptWorld, ListInv, TrackInv, ReportInv, [Next]_auditVars PROVE ReportInv'
  OBVIOUS
<1>1. /\ stage \in Before => report = <<>>
      /\ stage \in OffChain => OnChainOf(wallet, txns, opened, closings, report)
      /\ stage = "done" /\ req.kind = "audit"
           => AnswerOf(wallet, txns, opened, closings, report)
  BY DEF ReportInv, Audited
<1>2. SUFFICES /\ stage' \in Before => report' = <<>>
               /\ stage' \in OffChain => OnChainOf(wallet, txns', opened', closings', report')
               /\ stage' = "done" /\ req'.kind = "audit"
                    => AnswerOf(wallet, txns', opened', closings', report')
  <2>1. wallet' = wallet
    <3>1. CASE ListInvoices \/ ListPayments \/ ListForwards
      BY <3>1 DEF ListInvoices, ListPayments, ListForwards, QueryPaginated, world
    <3> QED BY <3>1, StepKinds DEF Quiet, ChannelMoves, ListTransactions, PendingChannels,
               OpenChannels, ClosedChannels, AddChannels, ListSweeps, world
  <2> QED BY <1>2, <2>1 DEF ReportInv, Audited, Before, OffChain, Early
<1>5. CASE Quiet
  <2>1. UNCHANGED <<req, txns, opened, closings, report>>
    BY <1>5 DEF Quiet
  <2>2. stage = "rates" => req.kind = "rates"
    BY DEF TrackInv
  <2>3. stage' = "done" /\ req.kind = "audit" => stage = "done"
    BY <1>5, <2>2 DEF Quiet, Early
  <2>4. (stage' \in Before => stage \in Before) /\ (stage' \in OffChain => stage \in OffChain)
    BY <1>5 DEF Quiet, Early, Before, OffChain
  <2> QED BY <1>1, <2>1, <2>3, <2>4
<1>6. CASE ChannelMoves
  <2>1. UNCHANGED <<stage, req, txns, opened, closings, report>>
    BY <1>6 DEF ChannelMoves, callVars
  <2> QED BY <1>1, <2>1
<1>7. CASE ListTransactions
  <2>1. /\ stage = "txns" /\ UNCHANGED <<opened, closings, report>>
        /\ \/ stage' = "offchain" /\ txns' = <<>>
           \/ stage' = "pending"
    BY <1>7 DEF ListTransactions
  <2>2. report = <<>>
    BY <1>1, <2>1 DEF Before, Early
  <2>3. OnChainOf(wallet, <<>>, opened, closings, <<>>)
    BY UtilsFees, NothingOnChain DEF OnChainOf
  <2> QED BY <2>1, <2>2, <2>3 DEF Before, OffChain, Early
<1>8. CASE PendingChannels \/ OpenChannels \/ ClosedChannels
  <2>1. /\ stage \in {"pending", "open", "closed"} /\ stage' \in {"open", "closed", "sweeps"}
        /\ report' = report
    BY <1>8 DEF PendingChannels, OpenChannels, ClosedChannels, AddChannels
  <2> QED BY <1>1, <2>1 DEF Before, OffChain
<1>9. CASE ListSweeps
  <2>1. /\ stage' = "offchain" /\ report' = OnChainEntries /\ UNCHANGED <<txns, opened, closings>>
    BY <1>9 DEF ListSweeps
  <2> DEFINE ut == Utils(getCategories(req.cats, TRUE))
             sw == Sweeps
  <2>2. report' = onChainReport(txns, opened, closings, sw, ut)
    BY <2>1 DEF OnChainEntries
  <2>3. FeesOf(wallet, ut)
    BY UtilsFees
  <2> HIDE DEF ut, sw
  <2>4. OnChainOf(wallet, txns', opened', closings', report')
    BY <2>1, <2>2, <2>3 DEF OnChainOf
  <2> QED BY <2>1, <2>4 DEF Before, OffChain, Early
<1>10. CASE ListInvoices \/ ListPayments
  <2>1. /\ stage \in {"invoices", "payments"}
        /\ stage' \in {"invoices", "payments", "forwards", "failed"}
        /\ UNCHANGED <<req, txns, opened, closings, report>>
    <3>1. CASE ListInvoices
      BY <3>1 DEF ListInvoices, InvoicesRead, QueryPaginated
    <3>2. CASE ListPayments
      BY <3>2 DEF ListPayments, PaymentsRead, QueryPaginated
    <3> QED BY <1>10, <3>1, <3>2
  <2> QED BY <1>1, <2>1 DEF Before, OffChain, Early
<1>11. CASE ListForwards
  <2> DEFINE page == NextPage(DOMAIN req.forwards)
             all == Gathered(req.forwards, page)
  <2>1. /\ stage = "forwards" /\ listed \in Seq(LndForward)
        /\ UNCHANGED <<txns, opened, closings>>
    BY <1>11 DEF ListForwards, ListInv, QueryPaginated
  <2>2. all \in Seq(LndForward)
    BY <2>1, WorldFacts, PageIs
  <2>3. OnChainOf(wallet, txns, opened, closings, report)
    BY <1>1, <2>1 DEF OffChain
  <2>4. CASE LastPage(page)
    <3> DEFINE v == Utils(getCategories(req.cats, FALSE))
               circular == getCircularPayments(pays)
               ps == filterPayments(pays, Window)
               off == offChainReport(invs, ps, circular, all, v)
    <3>1. ForwardsRead(all)
      BY <1>11, <2>4 DEF ListForwards
    <3>2. report' = rpcReportResponse(report \o off) /\ stage' \in {"done", "failed"}
      BY <3>1 DEF ForwardsRead
    <3>3. ps \in Seq(PaymentInfo)
      BY PaymentsLeft DEF ListInv
    <3> HIDE DEF ps, all, circular, v
    <3>4. off \in Seq(OffEntry(v))
      <4>1. invs \in Seq(LndInvoice)
        BY DEF ListInv
      <4> QED BY <2>2, <3>3, <4>1, OffChainIs
    <3> HIDE DEF off
    <3>5. PICK sw, u : FeesOf(wallet, u) /\ report = onChainReport(txns, opened, closings, sw, u)
      BY <2>3 DEF OnChainOf
    <3>6. report' = rpcReportResponse(onChainReport(txns', opened', closings', sw, u) \o off)
      BY <2>1, <3>2, <3>5
    <3>7. AnswerOf(wallet, txns', opened', closings', report')
      BY <3>4, <3>5, <3>6 DEF AnswerOf
    <3> QED BY <3>2, <3>7 DEF Before, OffChain, Early
  <2>5. CASE ~LastPage(page)
    <3>1. UNCHANGED <<stage, req, report>>
      BY <1>11, <2>5 DEF ListForwards, QueryPaginated
    <3> QED BY <1>1, <2>1, <3>1
  <2> QED BY <2>4, <2>5
<1> QED BY <1>5, <1>6, <1>7, <1>8, <1>9, <1>10, <1>11, StepKinds

PlainTypes == {"Payment", "Receipt", "Fee"}
OnTypeNames ==
  OpenTypes \cup PlainTypes \cup {"ChannelClose", "ChannelCloseFee", "Sweep", "SweepFee"}

\* The entries the on chain report can have.
OnData == [tx : Tx, amt : Int, type : OnTypeNames]

OnEntry(u) == {txEntry(x.tx, x.amt, x.type, u) : x \in OnData}

\* An entry of the on chain report.
LEMMA OnEntryIs ==
  ASSUME NEW t \in Tx, NEW amt \in Int, NEW ty \in OnTypeNames, NEW u,
         NEW e, e = txEntry(t, amt, ty, u)
  PROVE  /\ e \in OnEntry(u) /\ e.txid = t.txid /\ e.onChain /\ e.type = ty /\ e.time = t.time
         /\ Signed(e) = amt
<1> DEFINE x == [tx |-> t, amt |-> amt, type |-> ty]
<1>1. x \in OnData /\ x.tx = t /\ x.amt = amt /\ x.type = ty
  BY DEF OnData
<1> HIDE DEF x
<1>2. e \in OnEntry(u)
  <2>1. txEntry(x.tx, x.amt, x.type, u) \in OnEntry(u)
    BY <1>1 DEF OnEntry
  <2> QED BY <1>1, <2>1
<1>3. e.txid = t.txid /\ e.onChain = TRUE /\ e.type = ty /\ e.time = t.time
  BY DEF txEntry, newHarmonyEntry
<1>4. Signed(e) = amt
  BY SignedAmount
<1> QED BY <1>2, <1>3, <1>4

\* A transaction has at most two entries, and what they are is known from what
\* it is taken for.  The fee of a close or of a sweep comes with an entry of its
\* own.
LEMMA EntriesAre ==
  ASSUME NEW t \in Tx, NEW o, NEW c, NEW sw, NEW u, u.getFee[t.txid] \in Nat,
         NEW E, E = EntriesOf(t, o, c, sw, u)
  PROVE  /\ E \in Seq(OnEntry(u)) /\ Len(E) \in 0..2
         /\ \A m \in 1..Len(E) : /\ E[m].txid = t.txid /\ E[m].onChain /\ E[m].time \in Nat
                                 /\ Signed(E[m]) \in Int
         /\ t.txid \in o => \A m \in 1..Len(E) : E[m].type \in OpenTypes
         /\ t.txid \notin o \cup DOMAIN c \cup sw =>
              \A m \in 1..Len(E) : E[m].type \in PlainTypes
         /\ t.txid \notin o /\ t.txid \in DOMAIN c =>
              \/ /\ Len(E) = 1 /\ E[1].type = "ChannelClose"
                 /\ Net(E) = satsToMsat(t.amount)
              \/ /\ Len(E) = 2 /\ E[1].type = "ChannelClose" /\ E[2].type = "ChannelCloseFee"
                 /\ Net(E) = satsToMsat(t.amount) + (-satsToMsat(u.getFee[t.txid]))
         /\ t.txid \notin o \cup DOMAIN c /\ t.txid \in sw =>
              \/ /\ Len(E) = 1 /\ E[1].type = "Sweep"
                 /\ Net(E) = satsToMsat(t.amount)
              \/ /\ Len(E) = 2 /\ E[1].type = "Sweep" /\ E[2].type = "SweepFee"
                 /\ Net(E) = satsToMsat(t.amount) + (-satsToMsat(u.getFee[t.txid]))
<1> DEFINE S == OnEntry(u)
           a == satsToMsat(t.amount)
           f == -satsToMsat(t.fee)
           g == -satsToMsat(u.getFee[t.txid])
           e(amt, ty) == txEntry(t, amt, ty, u)
           one(amt, ty) == <<e(amt, ty)>>
           two(amt, ty, bmt, tz) == <<e(amt, ty), e(bmt, tz)>>
<1>1. a \in Int /\ f \in Int /\ g \in Int /\ t.time \in Nat
  <2>1. t.amount \in Int /\ t.fee \in Nat /\ t.time \in Nat
    BY DEF Tx
  <2> QED BY <2>1 DEF satsToMsat
<1>2. ASSUME NEW amt \in Int, NEW ty \in OnTypeNames
      PROVE  /\ e(amt, ty) \in S /\ e(amt, ty).txid = t.txid /\ e(amt, ty).onChain
             /\ e(amt, ty).type = ty /\ e(amt, ty).time = t.time /\ Signed(e(amt, ty)) = amt
  BY OnEntryIs
<1>3. /\ "LocalChannelOpen" \in OnTypeNames /\ "RemoteChannelOpen" \in OnTypeNames
      /\ "ChannelOpenFee" \in OnTypeNames /\ "Payment" \in OnTypeNames
      /\ "Receipt" \in OnTypeNames /\ "Fee" \in OnTypeNames
      /\ "ChannelClose" \in OnTypeNames /\ "ChannelCloseFee" \in OnTypeNames
      /\ "Sweep" \in OnTypeNames /\ "SweepFee" \in OnTypeNames
  BY DEF OnTypeNames, OpenTypes, PlainTypes
<1>4. \/ /\ t.txid \in o
         /\ E = two(a, "LocalChannelOpen", f, "ChannelOpenFee")
            \/ E = one(a, "RemoteChannelOpen")
      \/ /\ t.txid \notin o /\ t.txid \in DOMAIN c
         /\ E = one(a, "ChannelClose")
            \/ E = two(a, "ChannelClose", g, "ChannelCloseFee")
      \/ /\ t.txid \notin o \cup DOMAIN c /\ t.txid \in sw
         /\ E = one(a, "Sweep") \/ E = two(a, "Sweep", g, "SweepFee")
      \/ /\ t.txid \notin o \cup DOMAIN c \cup sw
         /\ \/ E = <<>> \/ E = one(f, "Fee")
            \/ E = one(a, "Payment") \/ E = one(a, "Receipt")
            \/ E = two(a, "Payment", f, "Fee") \/ E = two(a, "Receipt", f, "Fee")
  <2>1. CASE t.txid \in o
    <3>1. E = channelOpenEntries(t, u)
      BY <2>1 DEF EntriesOf
    <3> QED BY <2>1, <3>1 DEF channelOpenEntries
  <2>2. CASE t.txid \notin o /\ t.txid \in DOMAIN c
    <3>1. E = closedChannelEntries(c[t.txid], t, u)
      BY <2>2 DEF EntriesOf
    <3> QED BY <2>2, <3>1 DEF closedChannelEntries
  <2>3. CASE t.txid \notin o \cup DOMAIN c /\ t.txid \in sw
    <3>1. E = sweepEntries(t, u)
      BY <2>3 DEF EntriesOf
    <3> QED BY <2>3, <3>1 DEF sweepEntries
  <2>4. CASE t.txid \notin o \cup DOMAIN c \cup sw
    <3>1. E = onChainEntries(t, u)
      BY <2>4 DEF EntriesOf
    <3>2. CASE t.amount = 0
      <4>1. E = one(f, "Fee") \/ E = <<>>
        BY <3>1, <3>2 DEF onChainEntries, createOnchainFeeEntry
      <4> QED BY <2>4, <4>1
    <3>3. CASE t.amount # 0 /\ t.amount < 0
      <4>1. E = one(a, "Payment") \/ E = two(a, "Payment", f, "Fee")
        BY <3>1, <3>3 DEF onChainEntries, createOnchainFeeEntry
      <4> QED BY <2>4, <4>1
    <3>4. CASE t.amount # 0 /\ ~(t.amount < 0)
      <4>1. E = one(a, "Receipt") \/ E = two(a, "Receipt", f, "Fee")
        BY <3>1, <3>4 DEF onChainEntries, createOnchainFeeEntry
      <4> QED BY <2>4, <4>1
    <3> QED BY <3>2, <3>3, <3>4
  <2> QED BY <2>1, <2>2, <2>3, <2>4
<1> DEFINE Good(F, ts) ==
             /\ F \in Seq(S) /\ Len(F) \in 0..2
             /\ \A m \in 1..Len(F) : /\ F[m].txid = t.txid /\ F[m].onChain /\ F[m].time \in Nat
                                     /\ Signed(F[m]) \in Int /\ F[m].type \in ts
<1> HIDE DEF S, a, f, g, e
<1>5. ASSUME NEW amt \in Int, NEW ty \in OnTypeNames, NEW ts, ty \in ts
      PROVE  /\ Good(one(amt, ty), ts) /\ Net(one(amt, ty)) = amt
             /\ Len(one(amt, ty)) = 1 /\ one(amt, ty)[1].type = ty
  <2> DEFINE x == e(amt, ty)
  <2>1. /\ x \in S /\ x.txid = t.txid /\ x.onChain /\ x.type = ty /\ x.time = t.time
        /\ Signed(x) = amt
    BY <1>2
  <2> HIDE DEF x
  <2>2. <<x>> \in Seq(S) /\ Len(<<x>>) = 1 /\ <<x>>[1] = x /\ Net(<<x>>) = amt
    BY <2>1, FewItems, NetOfOne
  <2>3. \A m \in 1..Len(<<x>>) : <<x>>[m] = x
    BY <2>2
  <2>4. Good(<<x>>, ts)
    <3> DEFINE F == <<x>>
    <3>1. F \in Seq(S) /\ Len(F) = 1 /\ \A m \in 1..Len(F) : F[m] = x
      BY <2>2, <2>3
    <3> HIDE DEF F
    <3>2. Good(F, ts)
      BY <1>1, <1>5, <2>1, <3>1
    <3> QED BY <3>2 DEF F
  <2> QED BY <2>1, <2>2, <2>4 DEF x
<1>6. ASSUME NEW amt \in Int, NEW ty \in OnTypeNames, NEW bmt \in Int, NEW tz \in OnTypeNames,
             NEW ts, ty \in ts, tz \in ts
      PROVE  /\ Good(two(amt, ty, bmt, tz), ts) /\ Net(two(amt, ty, bmt, tz)) = amt + bmt
             /\ Len(two(amt, ty, bmt, tz)) = 2
             /\ two(amt, ty, bmt, tz)[1].type = ty /\ two(amt, ty, bmt, tz)[2].type = tz
  <2> DEFINE x == e(amt, ty)
             y == e(bmt, tz)
             F == <<x, y>>
  <2>1. /\ x \in S /\ x.txid = t.txid /\ x.onChain /\ x.type = ty /\ x.time = t.time
        /\ Signed(x) = amt
    BY <1>2
  <2>2. /\ y \in S /\ y.txid = t.txid /\ y.onChain /\ y.type = tz /\ y.time = t.time
        /\ Signed(y) = bmt
    BY <1>2
  <2> HIDE DEF x, y
  <2>3. F \in Seq(S) /\ Len(F) = 2 /\ F[1] = x /\ F[2] = y /\ Net(F) = amt + bmt
    BY <2>1, <2>2, FewItems, NetOfTwo
  <2> HIDE DEF F
  <2>4. \A m \in 1..Len(F) : F[m] = x \/ F[m] = y
    BY <2>3
  <2>5. Good(F, ts)
    BY <1>1, <1>6, <2>1, <2>2, <2>3, <2>4
  <2> QED BY <2>1, <2>2, <2>3, <2>5 DEF F, x, y
<1>7. \A ts : Good(<<>>, ts)
  <2>1. <<>> \in Seq(S) /\ Len(<<>>) = 0 /\ 1..0 = {}
    OBVIOUS
  <2> QED BY <2>1
<1> HIDE DEF one, two
<1>8. ASSUME t.txid \in o
      PROVE  Good(E, OpenTypes)
  <2>1. "LocalChannelOpen" \in OpenTypes /\ "ChannelOpenFee" \in OpenTypes
        /\ "RemoteChannelOpen" \in OpenTypes
    BY DEF OpenTypes
  <2> HIDE DEF Good
  <2>2. \/ E = two(a, "LocalChannelOpen", f, "ChannelOpenFee")
        \/ E = one(a, "RemoteChannelOpen")
    BY <1>4, <1>8
  <2>3. Good(two(a, "LocalChannelOpen", f, "ChannelOpenFee"), OpenTypes)
    BY <1>1, <1>3, <1>6, <2>1
  <2>4. Good(one(a, "RemoteChannelOpen"), OpenTypes)
    BY <1>1, <1>3, <1>5, <2>1
  <2> QED BY <2>2, <2>3, <2>4
<1>9. ASSUME t.txid \notin o /\ t.txid \in DOMAIN c
      PROVE  /\ Good(E, OnTypeNames)
             /\ \/ Len(E) = 1 /\ E[1].type = "ChannelClose" /\ Net(E) = a
                \/ /\ Len(E) = 2 /\ E[1].type = "ChannelClose" /\ E[2].type = "ChannelCloseFee"
                   /\ Net(E) = a + g
  <2> HIDE DEF Good
  <2>1. E = one(a, "ChannelClose") \/ E = two(a, "ChannelClose", g, "ChannelCloseFee")
    BY <1>4, <1>9
  <2>2. CASE E = one(a, "ChannelClose")
    BY <1>1, <1>3, <1>5, <2>2
  <2>3. CASE E = two(a, "ChannelClose", g, "ChannelCloseFee")
    BY <1>1, <1>3, <1>6, <2>3
  <2> QED BY <2>1, <2>2, <2>3
<1>10. ASSUME t.txid \notin o \cup DOMAIN c /\ t.txid \in sw
       PROVE  /\ Good(E, OnTypeNames)
              /\ \/ Len(E) = 1 /\ E[1].type = "Sweep" /\ Net(E) = a
                 \/ /\ Len(E) = 2 /\ E[1].type = "Sweep" /\ E[2].type = "SweepFee"
                    /\ Net(E) = a + g
  <2> HIDE DEF Good
  <2>1. E = one(a, "Sweep") \/ E = two(a, "Sweep", g, "SweepFee")
    BY <1>4, <1>10
  <2>2. CASE E = one(a, "Sweep")
    BY <1>1, <1>3, <1>5, <2>2
  <2>3. CASE E = two(a, "Sweep", g, "SweepFee")
    BY <1>1, <1>3, <1>6, <2>3
  <2> QED BY <2>1, <2>2, <2>3
<1>11. ASSUME t.txid \notin o \cup DOMAIN c \cup sw
       PROVE  Good(E, PlainTypes)
  <2>1. "Fee" \in PlainTypes /\ "Payment" \in PlainTypes /\ "Receipt" \in PlainTypes
    BY DEF PlainTypes
  <2> HIDE DEF Good
  <2>2. \/ E = <<>> \/ E = one(f, "Fee")
        \/ E = one(a, "Payment") \/ E = one(a, "Receipt")
        \/ E = two(a, "Payment", f, "Fee") \/ E = two(a, "Receipt", f, "Fee")
    BY <1>4, <1>11
  <2>3. /\ Good(one(f, "Fee"), PlainTypes)
        /\ Good(one(a, "Payment"), PlainTypes) /\ Good(one(a, "Receipt"), PlainTypes)
    BY <1>1, <1>3, <1>5, <2>1
  <2>4. /\ Good(two(a, "Payment", f, "Fee"), PlainTypes)
        /\ Good(two(a, "Receipt", f, "Fee"), PlainTypes)
    BY <1>1, <1>3, <1>6, <2>1
  <2> QED BY <1>7, <2>2, <2>3, <2>4
<1>12. \E ts : Good(E, ts)
  <2> HIDE DEF Good
  <2> QED BY <1>8, <1>9, <1>10, <1>11
<1> QED BY <1>8, <1>9, <1>10, <1>11, <1>12 DEF a, g, S

\* P gives each entry of each transaction a place of its own in the answer, and
\* there are no other on chain entries.
Placed(P, sw, u) ==
  /\ \A j \in DOMAIN txns : \A m \in 1..Len(EntriesOf(txns[j], opened, closings, sw, u)) :
       /\ P[j][m] \in DOMAIN report
       /\ report[P[j][m]] = EntriesOf(txns[j], opened, closings, sw, u)[m]
  /\ \A j \in DOMAIN txns : \A m, n \in 1..Len(EntriesOf(txns[j], opened, closings, sw, u)) :
       P[j][m] = P[j][n] => m = n
  /\ \A i \in DOMAIN report : report[i].onChain =>
       \E j \in DOMAIN txns : \E m \in 1..Len(EntriesOf(txns[j], opened, closings, sw, u)) :
         i = P[j][m]

\* A fee that is looked up is an amount.
LEMMA FeeKnown ==
  ASSUME KeptWorld, TxnsInv, NEW u, FeesOf(wallet, u), NEW j \in DOMAIN txns
  PROVE  txns[j] \in Tx /\ u.getFee[txns[j].txid] \in Nat
<1>1. PICK i \in DOMAIN wallet : Shows(txns[j], wallet[i])
  BY DEF TxnsInv
<1>2. txns[j].txid = wallet[i].txid
  BY <1>1, FilteredTx DEF Shows
<1>3. wallet[i].chainFee \in Nat
  <2>1. wallet[i] \in WalletTx
    BY WorldFacts
  <2> QED BY <2>1 DEF WalletTx
<1>4. txns[j] \in Tx
  BY DEF TxnsInv
<1> QED BY <1>2, <1>3, <1>4 DEF FeesOf

\* What is known of the entries of both reports.
LEMMA EntryFacts ==
  ASSUME NEW u, NEW v
  PROVE  /\ \A e \in OnEntry(u) : /\ e.time \in Nat /\ e.amount \in Nat /\ e.onChain = TRUE
                                  /\ e.type \in OnTypeNames
         /\ \A e \in OffEntry(v) : e.time \in Nat /\ e.amount \in Nat /\ e.onChain = FALSE
<1>1. \A a \in Int : Abs(a) \in Nat
  BY DEF Abs
<1>2. ASSUME NEW x \in OnData, NEW e, e = txEntry(x.tx, x.amt, x.type, u)
      PROVE  e.time \in Nat /\ e.amount \in Nat /\ e.onChain = TRUE /\ e.type \in OnTypeNames
  <2>1. x.tx \in Tx /\ x.amt \in Int /\ x.type \in OnTypeNames
    BY DEF OnData
  <2>2. x.tx.time \in Nat
    BY <2>1 DEF Tx
  <2>3. e.time = x.tx.time /\ e.amount = Abs(x.amt) /\ e.onChain = TRUE /\ e.type = x.type
    BY <1>2 DEF txEntry, newHarmonyEntry
  <2> QED BY <1>1, <2>1, <2>2, <2>3
<1>3. ASSUME NEW x \in OffData(v),
             NEW e, e = newHarmonyEntry(x.ts, x.amt, x.type, x.id, x.cat, FALSE, v)
      PROVE  e.time \in Nat /\ e.amount \in Nat /\ e.onChain = FALSE
  <2>1. x.ts \in Nat /\ x.amt \in Int
    BY DEF OffData
  <2>2. e.time = x.ts /\ e.amount = Abs(x.amt) /\ e.onChain = FALSE
    BY <1>3 DEF newHarmonyEntry
  <2> QED BY <1>1, <2>1, <2>2
<1> QED BY <1>2, <1>3 DEF OnEntry, OffEntry

\* The answer is the entries of the transactions among others.
LEMMA AnswerIs ==
  ASSUME KeptWorld, TxnsInv, AnswerOf(wallet, txns, opened, closings, report)
  PROVE  \E sw, u : FeesOf(wallet, u) /\ \E P : Placed(P, sw, u)
<1>1. PICK sw, u, v : \E off \in Seq(OffEntry(v)) :
        /\ FeesOf(wallet, u)
        /\ report = rpcReportResponse(onChainReport(txns, opened, closings, sw, u) \o off)
  BY DEF AnswerOf
<1>2. PICK off \in Seq(OffEntry(v)) :
        /\ FeesOf(wallet, u)
        /\ report = rpcReportResponse(onChainReport(txns, opened, closings, sw, u) \o off)
  BY <1>1
<1> DEFINE E(j) == EntriesOf(txns[j], opened, closings, sw, u)
           n == Len(txns)
           ss == [j \in DOMAIN txns |-> E(j)]
           on == FlattenSeq(ss)
           S == OnEntry(u) \cup OffEntry(v)
           all == on \o off
           D == DOMAIN all
<1>3. onChainReport(txns, opened, closings, sw, u) = on
  BY DEF onChainReport
<1>4. ASSUME NEW j \in DOMAIN txns
      PROVE  /\ E(j) \in Seq(OnEntry(u)) /\ Len(E(j)) \in 0..2
             /\ \A m \in 1..Len(E(j)) : E(j)[m].onChain /\ E(j)[m].time \in Nat
  <2>1. txns[j] \in Tx /\ u.getFee[txns[j].txid] \in Nat
    BY <1>2, FeeKnown
  <2> QED BY <2>1, EntriesAre
<1>5. n \in Nat /\ DOMAIN txns = 1..n
  BY DEF TxnsInv
<1> HIDE DEF E, n
<1>6. /\ ss \in Seq(Seq(S)) /\ Len(ss) = n /\ \A j \in 1..n : ss[j] = E(j)
      /\ off \in Seq(S)
  <2>1. ASSUME NEW T, NEW s \in Seq(T), T \subseteq S PROVE s \in Seq(S)
    BY <2>1
  <2>2. OnEntry(u) \subseteq S /\ OffEntry(v) \subseteq S
    OBVIOUS
  <2> HIDE DEF S
  <2>3. \A j \in 1..n : E(j) \in Seq(S)
    BY <1>4, <1>5, <2>1, <2>2
  <2>4. ss = [j \in 1..n |-> E(j)]
    BY <1>5
  <2>5. off \in Seq(S)
    BY <2>1, <2>2
  <2> HIDE DEF ss
  <2> QED BY <1>5, <2>3, <2>4, <2>5
<1>7. \A x \in OffEntry(v) : x.time \in Nat /\ x.onChain = FALSE
  BY EntryFacts
<1>8. \A x \in OnEntry(u) : x.time \in Nat /\ x.onChain = TRUE
  BY EntryFacts
<1>9. \A x \in S : x.time \in Int
  BY <1>7, <1>8
<1> HIDE DEF S, ss
<1>10. on \in Seq(S) /\ \E o \in [0..n -> Nat] : Parts(on, ss, n, o)
  BY <1>6, FlattenIs
<1> HIDE DEF on
<1>11. PICK o \in [0..n -> Nat] : Parts(on, ss, n, o)
  BY <1>10
<1>12. /\ Len(on) \in Nat /\ Len(off) \in Nat
       /\ all \in Seq(S) /\ Len(all) = Len(on) + Len(off) /\ D = 1..Len(all)
       /\ \A k \in 1..Len(on) : all[k] = on[k]
       /\ \A j \in 1..Len(off) : all[Len(on) + j] = off[j]
  <2>1. /\ on \o off \in Seq(S) /\ Len(on \o off) = Len(on) + Len(off)
        /\ \A k \in 1..Len(on) : (on \o off)[k] = on[k]
        /\ \A j \in 1..Len(off) : (on \o off)[Len(on) + j] = off[j]
    BY <1>6, <1>10, ConcatIs
  <2>2. Len(on) \in Nat /\ Len(off) \in Nat
    BY <1>6, <1>10
  <2> QED BY <2>1, <2>2
<1>13. report = rpcReportResponse(all)
  BY <1>2, <1>3
<1> HIDE DEF all
<1>14. \A k \in D : all[k].time \in Int
  BY <1>9, <1>12
<1>15. /\ DOMAIN report = D
       /\ \E q \in [D -> D] : /\ \A k \in D : report[k] = all[q[k]]
                              /\ \A k, l \in D : q[k] = q[l] => k = l
                              /\ \A i \in D : \E k \in D : q[k] = i
  <2> DEFINE r == rpcReportResponse(all)
  <2>1. \A k \in DOMAIN all : all[k].time \in Int
    BY <1>14
  <2> HIDE DEF D
  <2>2. /\ DOMAIN r = DOMAIN all
        /\ \E q \in [DOMAIN all -> DOMAIN all] :
             /\ \A k \in DOMAIN all : r[k] = all[q[k]]
             /\ \A k, l \in DOMAIN all : q[k] = q[l] => k = l
             /\ \A i \in DOMAIN all : \E k \in DOMAIN all : q[k] = i
    BY <1>12, <2>1, ResponseIs
  <2>3. report = r
    BY <1>13
  <2> HIDE DEF r
  <2> QED BY <2>2, <2>3 DEF D
<1>16. PICK q \in [D -> D] : /\ \A k \in D : report[k] = all[q[k]]
                             /\ \A k, l \in D : q[k] = q[l] => k = l
                             /\ \A i \in D : \E k \in D : q[k] = i
  BY <1>15
<1> HIDE DEF D
<1> DEFINE At(i) == CHOOSE k \in D : q[k] = i
           P == [j \in 1..n |-> [m \in 1..Len(E(j)) |-> At(o[j - 1] + m)]]
<1>17. ASSUME NEW i \in D PROVE At(i) \in D /\ q[At(i)] = i
  BY <1>16
<1> HIDE DEF At
<1>18. ASSUME NEW j \in 1..n, NEW m \in 1..Len(E(j))
       PROVE  /\ P[j][m] \in D /\ q[P[j][m]] = o[j - 1] + m
              /\ report[P[j][m]] = E(j)[m]
  <2> DEFINE i == o[j - 1] + m
  <2>1. Len(E(j)) = Len(ss[j]) /\ ss[j] = E(j)
    BY <1>6
  <2>2. i \in 1..o[n] /\ on[i] = E(j)[m] /\ Len(on) = o[n]
    BY <1>11, <2>1 DEF Parts
  <2>3. P[j][m] = At(i)
    OBVIOUS
  <2> HIDE DEF i, P
  <2>4. i \in D /\ all[i] = on[i]
    BY <1>12, <2>2
  <2>5. P[j][m] \in D /\ q[P[j][m]] = i
    BY <1>17, <2>3, <2>4
  <2>6. report[P[j][m]] = E(j)[m]
    BY <1>16, <2>2, <2>4, <2>5
  <2> QED BY <2>5, <2>6 DEF i
<1> HIDE DEF P
<1>19. ASSUME NEW j \in 1..n, NEW m \in 1..Len(E(j)), NEW l \in 1..Len(E(j)), P[j][m] = P[j][l]
       PROVE  m = l
  <2>1. o[j - 1] + m = o[j - 1] + l
    <3>1. q[P[j][m]] = o[j - 1] + m
      BY <1>18
    <3>2. q[P[j][l]] = o[j - 1] + l
      BY <1>18
    <3> QED BY <1>19, <3>1, <3>2, Zenon
  <2>2. o[j - 1] \in Nat /\ m \in Nat /\ l \in Nat
    <3>1. j - 1 \in 0..n
      BY <1>5
    <3>2. Len(E(j)) \in Nat
      BY <1>4, <1>5
    <3> QED BY <3>1, <3>2
  <2> QED BY <2>1, <2>2
<1>20. ASSUME NEW i \in DOMAIN report, report[i].onChain
       PROVE  \E j \in 1..n : \E m \in 1..Len(E(j)) : i = P[j][m]
  <2>1. i \in D /\ q[i] \in D /\ report[i] = all[q[i]]
    BY <1>15, <1>16
  <2>2. q[i] \in 1..Len(on)
    <3> SUFFICES ASSUME q[i] \notin 1..Len(on) PROVE FALSE
      OBVIOUS
    <3> DEFINE d == q[i] - Len(on)
    <3>1. d \in 1..Len(off) /\ q[i] = Len(on) + d
      BY <1>12, <2>1
    <3> HIDE DEF d
    <3>2. all[q[i]] = off[d] /\ off[d] \in OffEntry(v)
      BY <1>12, <3>1
    <3> QED BY <1>7, <1>20, <2>1, <3>2
  <2>3. Len(on) = o[n]
    BY <1>11 DEF Parts
  <2>4. PICK j \in 1..n : \E m \in 1..Len(ss[j]) : q[i] = o[j - 1] + m
    BY <1>11, <2>2, <2>3 DEF Parts
  <2>5. PICK m \in 1..Len(E(j)) : q[i] = o[j - 1] + m
    BY <1>6, <2>4
  <2>6. P[j][m] \in D /\ q[P[j][m]] = q[i]
    BY <1>18, <2>5
  <2>7. i = P[j][m]
    BY <1>16, <2>1, <2>6
  <2> QED BY <2>7
<1>21. Placed(P, sw, u)
  <2>1. \A j \in DOMAIN txns : \A m \in 1..Len(E(j)) :
          P[j][m] \in DOMAIN report /\ report[P[j][m]] = E(j)[m]
    <3> SUFFICES ASSUME NEW j \in DOMAIN txns, NEW m \in 1..Len(E(j))
                 PROVE  P[j][m] \in DOMAIN report /\ report[P[j][m]] = E(j)[m]
      OBVIOUS
    <3>1. j \in 1..n
      BY <1>5
    <3> QED BY <1>15, <1>18, <3>1
  <2>3. \A j \in DOMAIN txns : \A m, l \in 1..Len(E(j)) : P[j][m] = P[j][l] => m = l
    <3> SUFFICES ASSUME NEW j \in DOMAIN txns, NEW m \in 1..Len(E(j)), NEW l \in 1..Len(E(j)),
                        P[j][m] = P[j][l]
                 PROVE  m = l
      OBVIOUS
    <3>1. j \in 1..n
      BY <1>5
    <3> QED BY <1>19, <3>1
  <2>2. \A i \in DOMAIN report : report[i].onChain =>
          \E j \in DOMAIN txns : \E m \in 1..Len(E(j)) : i = P[j][m]
    BY <1>5, <1>20
  <2> QED BY <2>1, <2>2, <2>3, Zenon DEF Placed, E
<1> QED BY <1>2, <1>21

\* The invariant of the whole call.
AuditInv ==
  RangeInv /\ RequestOK /\ KeptWorld /\ TxnsInv /\ ListInv /\ TrackInv /\ ReportInv

\* AuditInv holds at first.
LEMMA AuditInvInit == Init => AuditInv
<1> SUFFICES ASSUME Init PROVE AuditInv
  OBVIOUS
<1>1. RangeInv /\ RequestOK
  BY InitIsRangeInit, RangeInvInit
<1>2. PICK s \in Worlds :
        /\ req = s.req /\ stage = "idle" /\ phase = s.phase /\ wallet = s.wallet
        /\ invoices = s.invoices /\ payments = s.payments
        /\ txns = <<>> /\ opened = {} /\ closings = [id \in {} |-> "unknown"]
        /\ report = <<>> /\ listed = <<>> /\ invs = <<>> /\ pays = <<>>
        /\ seen = [txns |-> "none", pending |-> "none", open |-> "none", closed |-> "none",
                   pay |-> 0]
  BY DEF Init
<1>3. KeptWorld
  BY <1>2 DEF KeptWorld
<1>4. TxnsInv
  BY <1>2 DEF TxnsInv
<1>5. ListInv
  BY <1>2 DEF ListInv
<1>6. s.phase \in Phases
  BY AuditAssumption
<1>7. TrackInv
  <2>1. DOMAIN closings = {} /\ DOMAIN seen = {"txns", "pending", "open", "closed", "pay"}
    BY <1>2
  <2> QED BY <1>2, <1>6, <2>1 DEF TrackInv, Early
<1>8. ReportInv
  BY <1>2 DEF ReportInv, Before, OffChain, Early, Audited
<1> QED BY <1>1, <1>3, <1>4, <1>5, <1>7, <1>8 DEF AuditInv

\* AuditInv is inductive.
LEMMA AuditInvStep == AuditInv /\ [Next]_auditVars => AuditInv'
BY StepIsRangeStep, RangeInvStep, WorldStep, TxnsStep, ListStep, TrackStep, ReportStep
DEF AuditInv

\* However lnd's channel moves while the report reads pending, open and closed
\* channels one after the other, its funding transaction is reported as an
\* opening, unless it slipped by, and its closing transaction as a close
\* (ChannelTxsRecognised).
THEOREM ChannelsAreRecognised == Spec => []ChannelTxsRecognised
<1>1. ASSUME AuditInv PROVE ChannelTxsRecognised
  <2>1. SUFFICES ASSUME Audited
                 PROVE  /\ Slipped \/ TypesOf("fund") \subseteq OpenTypes
                        /\ CoopWaiting
                           \/ TypesOf("close") \subseteq {"ChannelClose", "ChannelCloseFee"}
    BY DEF ChannelTxsRecognised, CloseTypes
  <2>2. KeptWorld /\ TxnsInv /\ TrackInv /\ AnswerOf(wallet, txns, opened, closings, report)
        /\ stage = "done"
    BY <1>1, <2>1 DEF AuditInv, ReportInv, Audited
  <2>3. PICK sw, u : FeesOf(wallet, u) /\ \E P : Placed(P, sw, u)
    BY <2>2, AnswerIs
  <2>4. PICK P : Placed(P, sw, u)
    BY <2>3
  <2> DEFINE E(j) == EntriesOf(txns[j], opened, closings, sw, u)
  <2>5. ASSUME NEW id, NEW ty \in TypesOf(id)
        PROVE  \E j \in DOMAIN txns : \E m \in 1..Len(E(j)) : /\ txns[j].txid = id
                                                              /\ E(j)[m].type = ty
    <3>1. PICK i \in DOMAIN report : report[i].onChain /\ report[i].txid = id
                                     /\ report[i].type = ty
      BY <2>5 DEF TypesOf
    <3>2. PICK j \in DOMAIN txns : \E m \in 1..Len(E(j)) : i = P[j][m]
      BY <2>4, <3>1 DEF Placed
    <3>3. PICK m \in 1..Len(E(j)) : i = P[j][m]
      BY <3>2
    <3>4. report[i] = E(j)[m]
      BY <2>4, <3>3 DEF Placed
    <3>5. E(j)[m].txid = txns[j].txid
      <4>1. txns[j] \in Tx /\ u.getFee[txns[j].txid] \in Nat
        BY <2>2, <2>3, FeeKnown
      <4> QED BY <4>1, EntriesAre
    <3> HIDE DEF E
    <3> QED BY <3>1, <3>4, <3>5
  <2>6. ASSUME ~Slipped, NEW ty \in TypesOf("fund") PROVE ty \in OpenTypes
    <3>1. PICK j \in DOMAIN txns : \E m \in 1..Len(E(j)) : /\ txns[j].txid = "fund"
                                                           /\ E(j)[m].type = ty
      BY <2>5
    <3>2. txns[j].txid \in opened
      BY <2>2, <2>6, <3>1 DEF TrackInv, Has
    <3>3. txns[j] \in Tx /\ u.getFee[txns[j].txid] \in Nat
      BY <2>2, <2>3, FeeKnown
    <3>4. \A m \in 1..Len(E(j)) : E(j)[m].type \in OpenTypes
      BY <3>2, <3>3, EntriesAre
    <3> HIDE DEF E
    <3> QED BY <3>1, <3>4
  <2>7. ASSUME ~CoopWaiting, NEW ty \in TypesOf("close")
        PROVE  ty \in {"ChannelClose", "ChannelCloseFee"}
    <3>1. PICK j \in DOMAIN txns : \E m \in 1..Len(E(j)) : /\ txns[j].txid = "close"
                                                           /\ E(j)[m].type = ty
      BY <2>5
    <3>2. txns[j].txid \in DOMAIN closings /\ txns[j].txid \notin opened
      BY <2>2, <2>7, <3>1 DEF TrackInv, Has
    <3>3. txns[j] \in Tx /\ u.getFee[txns[j].txid] \in Nat
      BY <2>2, <2>3, FeeKnown
    <3>4. \/ Len(E(j)) = 1 /\ E(j)[1].type = "ChannelClose"
          \/ Len(E(j)) = 2 /\ E(j)[1].type = "ChannelClose" /\ E(j)[2].type = "ChannelCloseFee"
      BY <3>2, <3>3, EntriesAre
    <3> HIDE DEF E
    <3>5. PICK m \in 1..Len(E(j)) : E(j)[m].type = ty
      BY <3>1
    <3>6. m = 1 \/ (m = 2 /\ Len(E(j)) = 2)
      <4> DEFINE k == Len(E(j))
      <4>1. (k = 1 \/ k = 2) /\ m \in 1..k
        BY <3>4
      <4> HIDE DEF k
      <4>2. m = 1 \/ (m = 2 /\ k = 2)
        BY <4>1
      <4> QED BY <4>2 DEF k
    <3> QED BY <3>4, <3>5, <3>6
  <2> QED BY <2>6, <2>7
<1> QED BY <1>1, AuditInvInit, AuditInvStep, PTL DEF Spec

\* The entries of the transaction txid in the answer are E.
Says(txid, E) ==
  /\ \A ty : ty \in TypesOf(txid) <=> \E m \in 1..Len(E) : E[m].type = ty
  /\ Reported(txid) = Net(E)

\* The answer says of a transaction what its entries say.
LEMMA ReportedIs ==
  ASSUME KeptWorld, TxnsInv, NEW sw, NEW u, FeesOf(wallet, u), NEW P, Placed(P, sw, u),
         NEW j \in DOMAIN txns
  PROVE  Says(txns[j].txid, EntriesOf(txns[j], opened, closings, sw, u))
<1>0. PICK E : E = EntriesOf(txns[j], opened, closings, sw, u)
  OBVIOUS
<1> DEFINE id == txns[j].txid
           S == {i \in DOMAIN report : report[i].onChain /\ report[i].txid = id}
           X(k) == EntriesOf(txns[k], opened, closings, sw, u)
<1>1. ASSUME NEW k \in DOMAIN txns
      PROVE  \A m \in 1..Len(X(k)) : X(k)[m].txid = txns[k].txid
  <2>1. txns[k] \in Tx /\ u.getFee[txns[k].txid] \in Nat
    BY FeeKnown
  <2> QED BY <2>1, EntriesAre
<1>2. /\ E \in Seq(OnEntry(u)) /\ Len(E) \in 0..2
      /\ \A m \in 1..Len(E) : E[m].txid = id /\ E[m].onChain /\ Signed(E[m]) \in Int
  <2>1. txns[j] \in Tx /\ u.getFee[txns[j].txid] \in Nat
    BY FeeKnown
  <2> QED BY <1>0, <2>1, EntriesAre
<1>3. \A m \in 1..Len(E) : P[j][m] \in DOMAIN report /\ report[P[j][m]] = E[m]
  BY <1>0 DEF Placed
<1>4. \A m, n \in 1..Len(E) : P[j][m] = P[j][n] => m = n
  BY <1>0 DEF Placed
<1>5. \A m \in 1..Len(E) : P[j][m] \in S
  <2> SUFFICES ASSUME NEW m \in 1..Len(E) PROVE P[j][m] \in S
    OBVIOUS
  <2> QED BY <1>2, <1>3
<1>6. ASSUME NEW i \in S PROVE \E m \in 1..Len(E) : i = P[j][m]
  <2>1. i \in DOMAIN report /\ report[i].onChain /\ report[i].txid = id
    OBVIOUS
  <2>2. PICK k \in DOMAIN txns : \E m \in 1..Len(X(k)) : i = P[k][m]
    BY <2>1 DEF Placed
  <2>3. PICK m \in 1..Len(X(k)) : i = P[k][m]
    BY <2>2
  <2>4. report[i] = X(k)[m]
    BY <2>3 DEF Placed
  <2> HIDE DEF X
  <2>5. txns[k].txid = id
    BY <1>1, <2>1, <2>4
  <2>6. k = j
    BY <2>5 DEF TxnsInv
  <2>7. X(k) = E
    BY <1>0, <2>6 DEF X
  <2> QED BY <2>3, <2>6, <2>7
<1>7. TypesOf(id) = {report[i].type : i \in S}
  BY DEF TypesOf
<1>8. Reported(id) = SumAt(S)
  BY DEF Reported, SumAt
<1> HIDE DEF S, X, id
<1>9. \A ty : ty \in TypesOf(id) <=> \E m \in 1..Len(E) : E[m].type = ty
  <2>1. ASSUME NEW i \in S PROVE \E m \in 1..Len(E) : E[m].type = report[i].type
    BY <1>3, <1>6
  <2>2. ASSUME NEW m \in 1..Len(E) PROVE E[m].type \in {report[i].type : i \in S}
    BY <1>3, <1>5
  <2> QED BY <1>7, <2>1, <2>2
<1>10. SumAt(S) = Net(E)
  <2>1. CASE Len(E) = 0
    <3>1. S = {}
      BY <1>6, <2>1
    <3>2. ASSUME NEW a, NEW b, a # b, NEW z \in Int PROVE SumAt(S) = 0
      <4>1. S \in SUBSET {a, b} /\ a \notin S /\ b \notin S
        BY <3>1
      <4>2. SumAt(S) = (IF a \in S THEN z ELSE 0) + (IF b \in S THEN z ELSE 0)
        BY <3>2, <4>1, SumOfFew
      <4> QED BY <4>1, <4>2
    <3>3. SumAt(S) = 0
      BY <3>2, 0 # 1
    <3> QED BY <2>1, <3>3 DEF Net
  <2>2. CASE Len(E) = 1
    <3> DEFINE a == P[j][1]
               b == IF a = 0 THEN 1 ELSE 0
               va == Signed(E[1])
    <3>1. a \in S /\ report[a] = E[1] /\ va \in Int
      BY <1>2, <1>3, <1>5, <2>2
    <3>2. \A i \in S : i = a
      BY <1>6, <2>2
    <3>3. a # b
      OBVIOUS
    <3>4. Net(E) = va
      BY <2>2 DEF Net
    <3>5. Signed(report[a]) = va
      BY <3>1
    <3> HIDE DEF a, b, va
    <3>6. S \in SUBSET {a, b} /\ b \notin S
      BY <3>2, <3>3
    <3>7. SumAt(S) = (IF a \in S THEN va ELSE 0) + (IF b \in S THEN 0 ELSE 0)
      BY <3>1, <3>3, <3>5, <3>6, SumOfFew
    <3> QED BY <3>1, <3>4, <3>6, <3>7
  <2>3. CASE Len(E) = 2
    <3> DEFINE a == P[j][1]
               b == P[j][2]
               va == Signed(E[1])
               vb == Signed(E[2])
    <3>0. 1 \in 1..Len(E) /\ 2 \in 1..Len(E) /\ \A m \in 1..Len(E) : m = 1 \/ m = 2
      BY <2>3
    <3>1. a \in S /\ report[a] = E[1] /\ va \in Int /\ b \in S /\ report[b] = E[2] /\ vb \in Int
      BY <1>2, <1>3, <1>5, <3>0
    <3>2. \A i \in S : i = a \/ i = b
      BY <1>6, <3>0
    <3>3. a # b
      BY <1>4, <3>0
    <3>4. Net(E) = va + vb
      BY <2>3 DEF Net
    <3>5. Signed(report[a]) = va /\ Signed(report[b]) = vb
      BY <3>1
    <3> HIDE DEF a, b, va, vb
    <3>6. S \in SUBSET {a, b}
      BY <3>2
    <3>7. SumAt(S) = (IF a \in S THEN va ELSE 0) + (IF b \in S THEN vb ELSE 0)
      BY <3>1, <3>3, <3>5, <3>6, SumOfFew
    <3> QED BY <3>1, <3>4, <3>7
  <2> QED BY <1>2, <2>1, <2>2, <2>3
<1> QED BY <1>0, <1>8, <1>9, <1>10 DEF id, Says

\* A wallet's transaction in txns, and what filterOnChain made of it.
LEMMA ShownIs ==
  ASSUME KeptWorld, TxnsInv, NEW i \in DOMAIN wallet, NEW j \in DOMAIN txns,
         txns[j].txid = wallet[i].txid
  PROVE  \E l \in ListedTx : /\ txns[j] = filtered(l, Now) /\ l.txid = wallet[i].txid
                             /\ l.amount = wallet[i].amount /\ l.fee = wallet[i].fee
                             /\ l.ours = wallet[i].ours
<1>1. PICK k \in DOMAIN wallet : Shows(txns[j], wallet[k])
  BY DEF TxnsInv
<1>2. txns[j].txid = wallet[k].txid
  BY <1>1, FilteredTx DEF Shows
<1>3. k = i
  BY <1>2, WorldFacts
<1> QED BY <1>1, <1>3 DEF Shows

\* Fees are part of a wallet's amount or looked up, never both, and never
\* twice: the entries of each transaction add up (BalanceKept).
THEOREM BalanceIsKept == Spec => []BalanceKept
<1>1. ASSUME AuditInv PROVE BalanceKept
  <2> SUFFICES ASSUME Audited, NEW i \in DOMAIN wallet, NEW j \in DOMAIN txns,
                      txns[j].txid = wallet[i].txid
               PROVE  LET tx == wallet[i]
                      IN  \/ FeeOnlyToOthers(tx)
                          \/ TypesOf(tx.txid) \cap {"Sweep", "ChannelClose"} = {}
                             /\ Reported(tx.txid) = satsToMsat(tx.amount)
                          \/ TypesOf(tx.txid) \cap {"Sweep", "ChannelClose"} # {}
                             /\ Reported(tx.txid)
                                  = satsToMsat(tx.amount + tx.fee - LookedUp(tx.txid))
    BY DEF BalanceKept
  <2> DEFINE tx == wallet[i]
             t == txns[j]
             id == tx.txid
             Looked == {"ChannelCloseFee", "SweepFee"}
  <2>1. KeptWorld /\ TxnsInv /\ TrackInv /\ AnswerOf(wallet, txns, opened, closings, report)
    BY <1>1 DEF AuditInv, ReportInv
  <2>2. PICK sw, u : FeesOf(wallet, u) /\ \E P : Placed(P, sw, u)
    BY <2>1, AnswerIs
  <2>3. PICK P : Placed(P, sw, u)
    BY <2>2
  <2>0. PICK E : E = EntriesOf(txns[j], opened, closings, sw, u)
    OBVIOUS
  <2>4. /\ \A ty : ty \in TypesOf(id) <=> \E m \in 1..Len(E) : E[m].type = ty
        /\ Reported(id) = Net(E)
    <3>1. FeesOf(wallet, u) /\ KeptWorld /\ TxnsInv /\ txns[j].txid = id
      BY <2>1, <2>2
    <3>2. Says(txns[j].txid, EntriesOf(txns[j], opened, closings, sw, u))
      BY <2>3, <3>1, ReportedIs
    <3>3. Says(id, E)
      BY <2>0, <3>1, <3>2
    <3> QED BY <3>3 DEF Says
  <2>5. PICK l \in ListedTx : /\ t = filtered(l, Now) /\ l.txid = id /\ l.amount = tx.amount
                              /\ l.fee = tx.fee /\ l.ours = tx.ours
    BY <2>1, ShownIs
  <2>6. /\ l.amount \in Int /\ l.fee \in Nat /\ (l.amount >= 0 => l.fee = 0)
        /\ t.amount = l.amount + l.fee /\ t.txid = id
    <3>1. l.amount \in Int /\ l.fee \in Nat /\ (l.amount >= 0 => l.fee = 0)
      BY DEF ListedTx
    <3>2. t.amount = (IF l.amount < 0 THEN l.amount + l.fee ELSE l.amount) /\ t.txid = l.txid
      BY <2>5, FilteredTx
    <3> QED BY <2>5, <3>1, <3>2
  <2>7. t \in Tx /\ u.getFee[id] \in Nat /\ u.getFee[id] = tx.chainFee
    <3>1. t \in Tx /\ u.getFee[t.txid] \in Nat
      BY <2>1, <2>2, FeeKnown
    <3> QED BY <2>2, <2>6, <3>1 DEF FeesOf
  <2>8. LookedUp(id) = IF TypesOf(id) \cap Looked = {} THEN 0 ELSE tx.chainFee
    <3> DEFINE A(x) == x \in ToSet(wallet) /\ x.txid = id
    <3>1. A(tx)
      BY DEF ToSet
    <3>2. \A x : A(x) => x = tx
      <4>1. \A k \in DOMAIN wallet : wallet[k].txid = id => k = i
        BY <2>1, WorldFacts
      <4> QED BY <4>1 DEF ToSet
    <3>3. (CHOOSE x : A(x)) = tx
      <4> HIDE DEF A
      <4> QED BY <3>1, <3>2
    <3>4. LookedUp(id) = IF TypesOf(id) \cap Looked = {} THEN 0 ELSE (CHOOSE x : A(x)).chainFee
      BY DEF LookedUp
    <3> QED BY <3>3, <3>4
  <2>9. CASE id \in opened
    <3>1. \A m \in 1..Len(E) : E[m].type \in OpenTypes
      BY <2>6, <2>7, <2>9, <2>0, EntriesAre
    <3>2. TypesOf(id) \cap {"Sweep", "ChannelClose"} = {}
      <4> QED BY <2>4, <3>1 DEF OpenTypes
    <3> DEFINE none == [x \in {} |-> "unknown"]
    <3>3. E = EntriesOf(t, opened, none, {}, u)
      BY <2>0, <2>6, <2>9 DEF EntriesOf
    <3>4. l.amount < 0 => l.amount + l.fee < 0
      <4>1. id = "fund"
        BY <2>1, <2>9 DEF TrackInv
      <4> QED BY <2>1, <2>5, <4>1, WorldFacts
    <3>5. l.txid \notin DOMAIN none /\ l.txid \notin {} /\ l.txid \in opened
      BY <2>5, <2>9
    <3> HIDE DEF none
    <3>6. Net(EntriesOf(filtered(l, Now), opened, none, {}, u)) = satsToMsat(l.amount)
      BY <3>4, <3>5, FeesCountedOnce
    <3> QED BY <2>4, <2>5, <3>2, <3>3, <3>6
  <2>10. CASE id \notin opened \cup DOMAIN closings \cup sw
    <3>1. \A m \in 1..Len(E) : E[m].type \in PlainTypes
      BY <2>6, <2>7, <2>10, <2>0, EntriesAre
    <3>2. TypesOf(id) \cap {"Sweep", "ChannelClose"} = {}
      <4> QED BY <2>4, <3>1 DEF PlainTypes
    <3>3. CASE ~FeeOnlyToOthers(tx)
      <4>1. l.amount + l.fee # 0 \/ l.ours
        BY <2>5, <3>3 DEF FeeOnlyToOthers
      <4>2. l.txid \notin opened /\ l.txid \notin DOMAIN closings /\ l.txid \notin sw
        BY <2>5, <2>10
      <4>3. Net(EntriesOf(filtered(l, Now), opened, closings, sw, u)) = satsToMsat(l.amount)
        BY <4>1, <4>2, FeesCountedOnce
      <4> QED BY <2>0, <2>4, <2>5, <3>2, <4>3
    <3> QED BY <3>3
  <2>11. ASSUME \/ /\ Len(E) = 1 /\ E[1].type \in {"Sweep", "ChannelClose"}
                   /\ Net(E) = satsToMsat(t.amount)
                \/ /\ Len(E) = 2 /\ E[1].type \in {"Sweep", "ChannelClose"} /\ E[2].type \in Looked
                   /\ Net(E) = satsToMsat(t.amount) + (-satsToMsat(u.getFee[id]))
         PROVE  /\ TypesOf(id) \cap {"Sweep", "ChannelClose"} # {}
                /\ Reported(id) = satsToMsat(tx.amount + tx.fee - LookedUp(id))
    <3>1. CASE Len(E) = 1
      <4>1. TypesOf(id) = {E[1].type}
        <5>1. \A m \in 1..Len(E) : m = 1
          BY <3>1
        <5>2. 1 \in 1..Len(E)
          BY <3>1
        <5> QED BY <2>4, <5>1, <5>2
      <4>2. E[1].type \in {"Sweep", "ChannelClose"} /\ Net(E) = satsToMsat(t.amount)
        BY <2>11, <3>1
      <4>3. LookedUp(id) = 0
        BY <2>8, <4>1, <4>2
      <4>4. tx.amount + tx.fee - 0 = t.amount
        BY <2>5, <2>6
      <4> QED BY <2>4, <4>1, <4>2, <4>3, <4>4
    <3>2. CASE Len(E) = 2
      <4>1. E[1].type \in TypesOf(id) /\ E[2].type \in TypesOf(id)
        <5>1. 1 \in 1..Len(E) /\ 2 \in 1..Len(E)
          BY <3>2
        <5> QED BY <2>4, <5>1
      <4>2. /\ E[1].type \in {"Sweep", "ChannelClose"} /\ E[2].type \in Looked
            /\ Net(E) = satsToMsat(t.amount) + (-satsToMsat(u.getFee[id]))
        BY <2>11, <3>2
      <4>3. LookedUp(id) = u.getFee[id]
        BY <2>7, <2>8, <4>1, <4>2
      <4>4. tx.amount + tx.fee - LookedUp(id) = t.amount - u.getFee[id]
        <5>1. PICK a, f, g : a = l.amount /\ f = l.fee /\ g = u.getFee[id]
          OBVIOUS
        <5>2. a \in Int /\ f \in Int /\ g \in Int
          BY <2>6, <2>7, <5>1
        <5>3. a + (f - g) = (a + f) - g
          BY <5>2
        <5>4. tx.amount = a /\ tx.fee = f /\ LookedUp(id) = g /\ t.amount = a + f
          BY <2>5, <2>6, <4>3, <5>1
        <5> HIDE DEF tx, t, id
        <5> QED BY <5>1, <5>3, <5>4
      <4>5. satsToMsat(t.amount - u.getFee[id])
              = satsToMsat(t.amount) + (-satsToMsat(u.getFee[id]))
        <5> DEFINE a == t.amount
                   b == u.getFee[id]
        <5>1. a \in Int /\ b \in Nat
          BY <2>6, <2>7
        <5> HIDE DEF a, b
        <5>2. (a - b) * 1000 = (a * 1000) + (-(b * 1000))
          BY <5>1
        <5>3. satsToMsat(a - b) = satsToMsat(a) + (-satsToMsat(b))
          BY <5>2 DEF satsToMsat
        <5> QED BY <5>3 DEF a, b
      <4> QED BY <2>4, <4>1, <4>2, <4>4, <4>5
    <3> QED BY <2>11, <3>1, <3>2
  <2>12. CASE id \notin opened /\ id \in DOMAIN closings
    <3>1. \/ /\ Len(E) = 1 /\ E[1].type = "ChannelClose"
             /\ Net(E) = satsToMsat(t.amount)
          \/ /\ Len(E) = 2 /\ E[1].type = "ChannelClose" /\ E[2].type = "ChannelCloseFee"
             /\ Net(E) = satsToMsat(t.amount) + (-satsToMsat(u.getFee[id]))
      BY <2>6, <2>7, <2>12, <2>0, EntriesAre
    <3> QED BY <2>11, <3>1
  <2>13. CASE id \notin opened \cup DOMAIN closings /\ id \in sw
    <3>1. \/ /\ Len(E) = 1 /\ E[1].type = "Sweep"
             /\ Net(E) = satsToMsat(t.amount)
          \/ /\ Len(E) = 2 /\ E[1].type = "Sweep" /\ E[2].type = "SweepFee"
             /\ Net(E) = satsToMsat(t.amount) + (-satsToMsat(u.getFee[id]))
      BY <2>6, <2>7, <2>13, <2>0, EntriesAre
    <3> QED BY <2>11, <3>1
  <2> QED BY <2>9, <2>10, <2>12, <2>13
<1> QED BY <1>1, AuditInvInit, AuditInvStep, PTL DEF Spec

-----------------------------------------------------------------------------
(* Payments to ourselves.                                                    *)

\* x is the k-th invoice, as it was when its page was read.
IsInvoice(x, k) ==
  /\ k \in DOMAIN invoices /\ x.hash = invoices[k].hash /\ x.settle = invoices[k].settle
  /\ k > 1 => x = invoices[k]

\* The pages of invoices, and what is left of them: each hash once, and all the
\* invoices that were settled before the call.
InvoicesInv ==
  /\ stage \notin {"invoices", "payments", "forwards", "done", "failed"} => offset = 0
  /\ stage = "invoices" => /\ Len(listed) = offset
                           /\ \A k \in DOMAIN listed : IsInvoice(listed[k], k)
  /\ stage \in {"payments", "forwards"} \/ Audited =>
       /\ \A k, l \in DOMAIN invs : invs[k].hash = invs[l].hash => k = l
       /\ \A i \in DOMAIN invoices :
            (i > 1 /\ invoices[i].state = "settled" /\ inRange(invoices[i].settle, Window))
              => \E k \in DOMAIN invs : invs[k].hash = invoices[i].hash

\* A payment lnd has listed: an older one, or the one to ourselves once it had
\* succeeded.
IsPayment(p) == p \in ToSet(payments) \/ (pay = 4 /\ p = SelfPayment)

\* The payment to ourselves is in ps.
HasSelf(ps) == pay = 4 /\ \E k \in DOMAIN ps : ps[k] = SelfPayment

\* Some payment of this hash is one to ourselves.
PaidToSelf(hash) ==
  \/ pay = 4 /\ hash = SelfHash
  \/ \E p \in ToSet(payments) : p.hash = hash /\ ToOurselves(p)

\* The pages of payments: who has read up to the last has read the one to
\* ourselves.  Then the hashes of payments to ourselves.
PaymentsInv ==
  /\ pay \in PayStates
  /\ stage = "payments" =>
       /\ offset \in Nat
       /\ \A k \in DOMAIN listed : IsPayment(listed[k])
       /\ offset > Len(payments) => HasSelf(listed)
  /\ stage = "forwards" \/ Audited =>
       /\ seen.pay = 4 => SelfHash \in getCircularPayments(pays)
       /\ \A hash \in getCircularPayments(pays) : PaidToSelf(hash)

\* The numbers after a, up to n, in their order.
LEMMA RangeInOrder ==
  ASSUME NEW a \in Nat, NEW n \in Nat, a <= n
  PROVE  InOrder((a + 1)..n) = [k \in 1..(n - a) |-> a + k]
<1> DEFINE S == (a + 1)..n
           B(i) == {j \in S : j <= i}
           At(k, i) == i \in S /\ Cardinality(B(i)) = k
<1>1. Cardinality(S) = n - a
  <2>1. PICK b \in Int : b = a + 1
    OBVIOUS
  <2>2. Cardinality(b..n) = IF b > n THEN 0 ELSE n - b + 1
    BY FS_Interval
  <2> QED BY <2>1, <2>2
<1>2. ASSUME NEW i \in S PROVE Cardinality(B(i)) = i - a
  <2>1. B(i) = (a + 1)..i
    OBVIOUS
  <2>2. Cardinality((a + 1)..i) = i - a
    BY FS_Interval
  <2> HIDE DEF B
  <2> QED BY <2>1, <2>2
<1>3. InOrder(S) = [k \in 1..(n - a) |-> CHOOSE i : At(k, i)]
  <2>1. InOrder(S) = [k \in 1..Cardinality(S) |-> CHOOSE i \in S : Cardinality(B(i)) = k]
    BY DEF InOrder
  <2> HIDE DEF S, B
  <2> QED BY <1>1, <2>1
<1>4. ASSUME NEW k \in 1..(n - a) PROVE (CHOOSE i : At(k, i)) = a + k
  <2>1. At(k, a + k)
    <3>1. a + k \in S /\ (a + k) - a = k
      OBVIOUS
    <3> HIDE DEF B
    <3> QED BY <1>2, <3>1
  <2>2. \A i : At(k, i) => i = a + k
    <3> SUFFICES ASSUME NEW i, At(k, i) PROVE i = a + k
      OBVIOUS
    <3>1. i \in S /\ i - a = k
      <4> HIDE DEF B, S
      <4> QED BY <1>2
    <3> QED BY <3>1
  <2> HIDE DEF At
  <2> QED BY <2>1, <2>2
<1> HIDE DEF At
<1> QED BY <1>3, <1>4

\* A page of a list that is asked for as a whole.
LEMMA WholePage ==
  ASSUME NEW n \in Nat, offset \in 0..n
  PROVE  \E m \in 0..(n - offset) :
           /\ NextPage(1..n) = [k \in 1..m |-> offset + k]
           /\ LastPage(NextPage(1..n)) => m = n - offset
           /\ ~LastPage(NextPage(1..n)) => m = Page
<1> DEFINE after == InOrder({i \in 1..n : i > offset})
<1>1. {i \in 1..n : i > offset} = (offset + 1)..n
  OBVIOUS
<1>2. after = [k \in 1..(n - offset) |-> offset + k]
  <2>1. PICK a \in Nat : a = offset /\ a <= n
    OBVIOUS
  <2>2. InOrder((a + 1)..n) = [k \in 1..(n - a) |-> a + k]
    BY <2>1, RangeInOrder
  <2> QED BY <1>1, <2>1, <2>2
<1>3. NextPage(1..n) = SubSeq(after, 1, Min({Page, Len(after)}))
  BY DEF NextPage
<1> HIDE DEF after
<1>4. PICK d \in Nat : d = n - offset
  OBVIOUS
<1>5. Len(after) = d /\ after \in Seq(Nat)
  <2>1. after = [k \in 1..d |-> offset + k]
    BY <1>2, <1>4
  <2> QED BY <2>1
<1>6. Page \in Nat \ {0}
  BY AuditAssumption
<1>7. PICK m \in 0..d : m = Min({Page, Len(after)}) /\ m = IF Page <= d THEN Page ELSE d
  <2>1. Min({Page, d}) = IF Page <= d THEN Page ELSE d
    BY <1>6, MinOfTwo
  <2> QED BY <1>5, <1>6, <2>1
<1>8. NextPage(1..n) = [k \in 1..m |-> offset + k]
  <2>1. NextPage(1..n) = SubSeq(after, 1, m)
    BY <1>3, <1>7
  <2>2. SubSeq(after, 1, m) = [k \in 1..m |-> after[k]]
    BY <1>5, <1>7
  <2>3. \A k \in 1..m : after[k] = offset + k
    BY <1>2, <1>4, <1>7
  <2> QED BY <2>1, <2>2, <2>3
<1>9. Len(NextPage(1..n)) = m
  <2>1. m \in Nat /\ \A k \in 1..m : offset + k \in Nat
    OBVIOUS
  <2> QED BY <1>8, <2>1
<1>10. LastPage(NextPage(1..n)) => m = d
  BY <1>6, <1>7, <1>9 DEF LastPage
<1>11. ~LastPage(NextPage(1..n)) => m = Page
  BY <1>6, <1>7, <1>9 DEF LastPage
<1> QED BY <1>4, <1>8, <1>10, <1>11

\* A page of a list that is asked for in part: numbers after the offset, and all
\* of them when it is the last.
LEMMA PartPage ==
  ASSUME NEW n \in Nat, NEW S \in SUBSET (1..n), offset \in Nat
  PROVE  /\ NextPage(S) \in Seq({i \in S : i > offset})
         /\ ~LastPage(NextPage(S)) => NextPage(S) # <<>>
         /\ LastPage(NextPage(S)) =>
              \A i \in S : i > offset => \E k \in DOMAIN NextPage(S) : NextPage(S)[k] = i
<1> DEFINE R == {i \in S : i > offset}
           after == InOrder(R)
<1>1. R \in SUBSET (1..n) /\ R \in SUBSET Nat
  <2>1. 1..n \in SUBSET Nat /\ R \in SUBSET S
    OBVIOUS
  <2> HIDE DEF R
  <2> QED BY <2>1
<1>2. IsFiniteSet(R)
  <2>1. IsFiniteSet(1..n)
    BY FS_Interval
  <2> HIDE DEF R
  <2> QED BY <1>1, <2>1, FS_Subset
<1>3. NextPage(S) = SubSeq(after, 1, Min({Page, Len(after)}))
  BY DEF NextPage
<1>4. \A i \in S : i > offset => i \in R
  OBVIOUS
<1> HIDE DEF R
<1>5. PICK d \in Nat : d = Cardinality(R) /\ after \in Seq(R) /\ Len(after) = d
                       /\ \A i \in R : \E k \in 1..d : after[k] = i
  BY <1>1, <1>2, InOrderIs
<1> HIDE DEF after
<1>6. Page \in Nat \ {0}
  BY AuditAssumption
<1>7. PICK m \in 0..d : m = Min({Page, Len(after)}) /\ m = IF Page <= d THEN Page ELSE d
  <2>1. Min({Page, d}) = IF Page <= d THEN Page ELSE d
    BY <1>6, MinOfTwo
  <2> QED BY <1>5, <1>6, <2>1
<1>8. NextPage(S) = [k \in 1..m |-> after[k]] /\ NextPage(S) \in Seq(R) /\ Len(NextPage(S)) = m
  <2>1. NextPage(S) = SubSeq(after, 1, m)
    BY <1>3, <1>7
  <2>2. m \in Nat /\ \A k \in 1..m : after[k] \in R
    <3>1. m \in Nat /\ \A k \in 1..m : k \in 1..d
      OBVIOUS
    <3>2. DOMAIN after = 1..d /\ \A k \in DOMAIN after : after[k] \in R
      BY <1>5
    <3> QED BY <3>1, <3>2
  <2>3. SubSeq(after, 1, m) = [k \in 1..m |-> after[k]]
    BY <1>5, <1>7
  <2> QED BY <2>1, <2>2, <2>3
<1>9. LastPage(NextPage(S)) => m = d
  BY <1>6, <1>7, <1>8 DEF LastPage
<1>10. ~LastPage(NextPage(S)) => NextPage(S) # <<>>
  <2>1. ~LastPage(NextPage(S)) => m # 0
    BY <1>6, <1>7, <1>8 DEF LastPage
  <2> QED BY <1>8, <2>1
<1>11. ASSUME LastPage(NextPage(S)), NEW i \in S, i > offset
       PROVE  \E k \in DOMAIN NextPage(S) : NextPage(S)[k] = i
  <2>1. PICK k \in 1..d : after[k] = i
    BY <1>4, <1>5, <1>11
  <2> QED BY <1>8, <1>9, <1>11, <2>1
<1> QED BY <1>8, <1>10, <1>11 DEF R

\* The list of invoices differs from the one at the start in the state of the
\* first only.
LEMMA InvoicesAre ==
  ASSUME KeptWorld
  PROVE  /\ Len(invoices) \in Nat /\ DOMAIN invoices = 1..Len(invoices)
         /\ DOMAIN Invoices = 1..Len(invoices)
         /\ \A k \in 1..Len(invoices) : IsInvoice(Invoices[k], k)
         /\ \A k, l \in DOMAIN invoices : invoices[k].hash = invoices[l].hash => k = l
<1>1. invoices \in Seq(LndInvoice) /\ invoices # <<>>
  BY WorldFacts
<1>2. Len(invoices) \in Nat /\ DOMAIN invoices = 1..Len(invoices) /\ 1 \in DOMAIN invoices
  BY <1>1
<1> DEFINE one == [invoices[1] EXCEPT !.state = IF pay >= 3 THEN "settled" ELSE "open"]
<1>3. Invoices = [invoices EXCEPT ![1] = one]
  BY DEF Invoices
<1>4. one.hash = invoices[1].hash /\ one.settle = invoices[1].settle
  <2>1. invoices[1] \in LndInvoice
    BY <1>1, <1>2
  <2> QED BY <2>1 DEF LndInvoice
<1> HIDE DEF one
<1>5. DOMAIN Invoices = 1..Len(invoices)
  BY <1>2, <1>3
<1>6. ASSUME NEW k \in 1..Len(invoices) PROVE IsInvoice(Invoices[k], k)
  BY <1>2, <1>3, <1>4 DEF IsInvoice
<1>7. \A k, l \in DOMAIN invoices : invoices[k].hash = invoices[l].hash => k = l
  BY AuditAssumption DEF KeptWorld
<1> QED BY <1>2, <1>5, <1>6, <1>7

\* What one more page makes of the list of invoices.
LEMMA InvoicesPage ==
  ASSUME KeptWorld, ListInv, InvoicesInv, stage = "invoices",
         NEW page, page = NextPage(DOMAIN Invoices)
  PROVE  LET all == Gathered(Invoices, page)
         IN  /\ all \in Seq(LndInvoice)
             /\ \A k \in DOMAIN all : IsInvoice(all[k], k)
             /\ ~LastPage(page) => Len(all) = Last(page)
             /\ LastPage(page) => Len(all) = Len(invoices)
<1> DEFINE all == Gathered(Invoices, page)
<1>1. PICK n \in Nat : /\ n = Len(invoices) /\ DOMAIN invoices = 1..n /\ DOMAIN Invoices = 1..n
                       /\ \A k \in 1..n : IsInvoice(Invoices[k], k)
  BY InvoicesAre
<1>2. /\ listed \in Seq(LndInvoice) /\ Len(listed) = offset /\ DOMAIN listed = 1..offset
      /\ \A k \in DOMAIN listed : IsInvoice(listed[k], k)
  BY DEF ListInv, InvoicesInv
<1>3. offset \in 0..n
  <2>1. offset \in Nat
    BY <1>2
  <2>2. offset = 0 \/ offset \in DOMAIN listed
    BY <1>2, <2>1
  <2>3. offset \in DOMAIN listed => offset \in 1..n
    BY <1>1, <1>2 DEF IsInvoice
  <2> QED BY <2>1, <2>2, <2>3
<1>4. PICK m \in 0..(n - offset) : /\ page = [k \in 1..m |-> offset + k]
                                   /\ LastPage(page) => m = n - offset
                                   /\ ~LastPage(page) => m = Page
  BY <1>1, <1>3, WholePage
<1>5. Invoices \in Seq(LndInvoice)
  BY ListsTyped
<1>6. all \in Seq(LndInvoice)
  <2>1. DOMAIN Invoices \in SUBSET DOMAIN Invoices
    OBVIOUS
  <2> QED BY <1>2, <1>5, <2>1, PageIs
<1> DEFINE more == [k \in 1..m |-> Invoices[offset + k]]
<1>7. all = listed \o more
  <2>1. DOMAIN page = 1..m /\ \A k \in 1..m : page[k] = offset + k
    BY <1>4
  <2>2. [i \in DOMAIN page |-> Invoices[page[i]]] = more
    BY <2>1
  <2> QED BY <2>2 DEF Gathered
<1>8. m \in Nat /\ offset \in Nat /\ \A k \in 1..m : offset + k \in 1..n
  BY <1>3
<1>9. more \in Seq(LndInvoice) /\ Len(more) = m
  <2>1. \A k \in 1..m : Invoices[offset + k] \in LndInvoice
    BY <1>1, <1>5, <1>8
  <2> QED BY <1>8, <2>1
<1>10. Len(all) = offset + m /\ DOMAIN all = 1..(offset + m)
  BY <1>2, <1>7, <1>9, <1>8
<1>11. ASSUME NEW k \in DOMAIN all PROVE IsInvoice(all[k], k)
  <2>1. CASE k <= offset
    <3>1. all[k] = listed[k] /\ k \in DOMAIN listed
      BY <1>2, <1>7, <1>8, <1>9, <1>10, <2>1
    <3> QED BY <1>2, <3>1
  <2>2. CASE ~(k <= offset)
    <3>1. PICK j \in 1..m : j = k - offset
      BY <1>8, <1>10, <2>2
    <3>2. all[k] = more[j]
      <4>1. k = offset + j /\ k \in 1..(offset + m) /\ offset = Len(listed)
        BY <1>2, <1>8, <1>10, <3>1
      <4> HIDE DEF more, all
      <4> QED BY <1>2, <1>7, <1>9, <4>1
    <3>3. more[j] = Invoices[k] /\ k \in 1..n
      <4>1. k = offset + j
        BY <1>8, <1>10, <3>1
      <4>2. more[j] = Invoices[offset + j]
        OBVIOUS
      <4> QED BY <1>8, <4>1, <4>2
    <3> QED BY <1>1, <3>2, <3>3
  <2> QED BY <2>1, <2>2
<1>12. ASSUME ~LastPage(page) PROVE Len(all) = Last(page)
  <2>1. m = Page /\ Page \in Nat \ {0}
    BY <1>4, <1>12, AuditAssumption
  <2>2. Len(page) = m /\ page[m] = offset + m
    BY <1>4, <1>8, <2>1
  <2>3. Last(page) = page[m]
    BY <2>2 DEF Last
  <2> QED BY <1>10, <2>2, <2>3
<1>13. ASSUME LastPage(page) PROVE Len(all) = n
  BY <1>3, <1>4, <1>10, <1>13
<1> QED BY <1>1, <1>6, <1>11, <1>12, <1>13

\* What filterInvoices leaves of all the invoices.
LEMMA InvoicesLeft ==
  ASSUME KeptWorld, NEW all \in Seq(LndInvoice), Len(all) = Len(invoices),
         \A k \in DOMAIN all : IsInvoice(all[k], k),
         NEW w, NEW is, is = filterInvoices(all, w)
  PROVE  /\ \A k, l \in DOMAIN is : is[k].hash = is[l].hash => k = l
         /\ \A i \in DOMAIN invoices :
              (i > 1 /\ invoices[i].state = "settled" /\ inRange(invoices[i].settle, w))
                => \E k \in DOMAIN is : is[k].hash = invoices[i].hash
<1> DEFINE S == {i \in DOMAIN all : all[i].state = "settled" /\ inRange(all[i].settle, w)}
           o == InOrder(S)
<1>1. is = ItemsAt(all, S)
  BY DEF filterInvoices
<1>2. S \in SUBSET DOMAIN all
  OBVIOUS
<1>3. DOMAIN all = DOMAIN invoices
  BY InvoicesAre
<1>4. \A i \in DOMAIN invoices :
        (i > 1 /\ invoices[i].state = "settled" /\ inRange(invoices[i].settle, w))
          => i \in S /\ all[i].hash = invoices[i].hash
  BY <1>3 DEF IsInvoice
<1> HIDE DEF S
<1>5. /\ \A k \in DOMAIN is : o[k] \in S /\ is[k] = all[o[k]]
      /\ \A k, l \in DOMAIN is : o[k] = o[l] => k = l
      /\ \A i \in S : \E k \in DOMAIN is : is[k] = all[i]
  BY <1>1, <1>2, ItemsAtIs
<1> HIDE DEF o
<1>6. ASSUME NEW k \in DOMAIN is, NEW l \in DOMAIN is, is[k].hash = is[l].hash PROVE k = l
  <2>1. o[k] \in DOMAIN invoices /\ o[l] \in DOMAIN invoices
        /\ invoices[o[k]].hash = invoices[o[l]].hash
    BY <1>2, <1>3, <1>5, <1>6 DEF IsInvoice
  <2>2. o[k] = o[l]
    BY <2>1, InvoicesAre
  <2> QED BY <1>5, <2>2
<1> QED BY <1>4, <1>5, <1>6

\* Every step keeps the pages of invoices.
LEMMA InvoicesStep ==
  KeptWorld /\ ListInv /\ TrackInv /\ InvoicesInv /\ [Next]_auditVars => InvoicesInv'
<1> SUFFICES ASSUME KeptWorld, ListInv, TrackInv, InvoicesInv, [Next]_auditVars
             PROVE  InvoicesInv'
  OBVIOUS
<1> DEFINE Plain == {"idle", "search", "prices", "txns", "pending", "open", "closed", "sweeps",
                     "offchain", "prices2", "rates"}
<1>1. UNCHANGED <<invoices, req>> /\ Window' = Window
  BY ListsStay DEF Window
<1>2. \A x, k : IsInvoice(x, k)' <=> IsInvoice(x, k)
  BY <1>1 DEF IsInvoice
\* Nothing but the stage changes.
<1>3. ASSUME UNCHANGED <<listed, offset, invs>>,
             \/ stage' = stage
             \/ stage' = "failed"
             \/ stage' \notin {"invoices", "payments", "forwards", "done"} /\ offset = 0
             \/ stage' = "invoices" /\ offset = 0 /\ listed = <<>>
             \/ stage' = "done" /\ req.kind # "audit"
      PROVE  InvoicesInv'
  <2>1. stage' = stage => InvoicesInv'
    BY <1>1, <1>2, <1>3 DEF InvoicesInv, Audited, IsInvoice
  <2>2. stage' # stage => InvoicesInv'
    BY <1>1, <1>3 DEF InvoicesInv, Audited
  <2> QED BY <2>1, <2>2
<1>4. CASE Quiet
  <2>1. stage = "rates" => req.kind = "rates"
    BY DEF TrackInv
  <2>2. stage \notin {"invoices", "payments", "forwards", "done", "failed"}
          => offset = 0 /\ listed = <<>>
    BY DEF ListInv, InvoicesInv
  <2>3. UNCHANGED <<listed, offset, invs>>
    BY <1>4 DEF Quiet
  <2> QED BY <1>3, <1>4, <2>1, <2>2, <2>3 DEF Quiet, Early
<1>5. CASE ChannelMoves
  BY <1>3, <1>5 DEF ChannelMoves, callVars
<1>6. CASE ListTransactions \/ ListSweeps
  BY <1>3, <1>6 DEF ListTransactions, ListSweeps, InvoicesInv
<1>7. CASE PendingChannels \/ OpenChannels \/ ClosedChannels
  BY <1>3, <1>7 DEF PendingChannels, OpenChannels, ClosedChannels, AddChannels, InvoicesInv
<1>8. CASE ListInvoices
  <2>1. PICK page : page = NextPage(DOMAIN Invoices)
    OBVIOUS
  <2>2. PICK all : all = Gathered(Invoices, page)
    OBVIOUS
  <2>3. /\ stage = "invoices"
        /\ LastPage(page) => InvoicesRead(all)
        /\ QueryPaginated(Invoices, page)
    BY <1>8, <2>1, <2>2 DEF ListInvoices
  <2>4. /\ all \in Seq(LndInvoice) /\ \A k \in DOMAIN all : IsInvoice(all[k], k)
        /\ ~LastPage(page) => Len(all) = Last(page)
        /\ LastPage(page) => Len(all) = Len(invoices)
    BY <2>1, <2>2, <2>3, InvoicesPage
  <2>5. CASE LastPage(page)
    <3>1. invs' = filterInvoices(all, Window) /\ stage' = "payments"
      BY <2>3, <2>5 DEF InvoicesRead
    <3>2. /\ \A k, l \in DOMAIN invs' : invs'[k].hash = invs'[l].hash => k = l
          /\ \A i \in DOMAIN invoices :
               (i > 1 /\ invoices[i].state = "settled" /\ inRange(invoices[i].settle, Window))
                 => \E k \in DOMAIN invs' : invs'[k].hash = invoices[i].hash
      BY <2>4, <2>5, <3>1, InvoicesLeft
    <3> QED BY <1>1, <3>1, <3>2 DEF InvoicesInv, Audited
  <2>6. CASE ~LastPage(page)
    <3>1. /\ offset' = Last(page) /\ listed' = all /\ stage' = "invoices"
      BY <2>2, <2>3, <2>6 DEF QueryPaginated
    <3>2. Len(listed') = offset' /\ \A k \in DOMAIN listed' : IsInvoice(listed[k], k)'
      BY <1>2, <2>4, <2>6, <3>1
    <3> QED BY <3>1, <3>2 DEF InvoicesInv, Audited
  <2> QED BY <2>5, <2>6
<1>9. CASE ListPayments \/ ListForwards
  <2>1. /\ stage \in {"payments", "forwards"} /\ invs' = invs
        /\ stage' \in {"payments", "forwards", "done", "failed"}
    <3>1. CASE ListPayments
      BY <3>1 DEF ListPayments, PaymentsRead, QueryPaginated
    <3>2. CASE ListForwards
      BY <3>2 DEF ListForwards, ForwardsRead, QueryPaginated
    <3> QED BY <1>9, <3>1, <3>2
  <2> QED BY <1>1, <2>1 DEF InvoicesInv, Audited
<1> QED BY <1>4, <1>5, <1>6, <1>7, <1>8, <1>9, StepKinds

\* The payment to ourselves only moves on, and lnd's steps are bounded.
LEMMA PayStep ==
  ASSUME pay \in PayStates, [Next]_auditVars
  PROVE  /\ pay' \in PayStates /\ (pay = 4 => pay' = 4) /\ initiator' = initiator
         /\ moves' = moves \/ (moves < MaxMoves /\ moves' = moves + 1)
<1>1. CASE PaymentMoves
  BY <1>1 DEF PaymentMoves, PayStates
<1>2. CASE ChannelMoves
  BY <1>2 DEF ChannelMoves
<1>3. CASE ~PaymentMoves /\ ~ChannelMoves
  <2>1. UNCHANGED <<pay, moves, initiator>>
    <3>2. CASE BlockMined \/ AuditBegins \/ SearchHeights \/ AskPrices \/ RatesBegin \/ Fetch
      BY <3>2 DEF BlockMined, AuditBegins, SearchHeights, AskPrices, RatesBegin, Fetch, Fail, To,
                  world
    <3>3. CASE AuditRefused \/ CannotAsk \/ WithoutPrices \/ FetchFails \/ Fetched
               \/ ErrReceiveWithFee \/ CallFails
      BY <3>3 DEF AuditRefused, CannotAsk, WithoutPrices, FetchFails, Fetched, ErrReceiveWithFee,
                  CallFails, Fail, To, world
    <3>4. CASE ListTransactions \/ ListSweeps
      BY <3>4 DEF ListTransactions, ListSweeps, world
    <3>5. CASE PendingChannels \/ OpenChannels \/ ClosedChannels
      BY <3>5 DEF PendingChannels, OpenChannels, ClosedChannels, AddChannels, world
    <3>6. CASE ListInvoices \/ ListPayments \/ ListForwards
      BY <3>6 DEF ListInvoices, ListPayments, ListForwards, QueryPaginated, world
    <3>7. CASE Finished \/ UNCHANGED auditVars
      BY <3>7 DEF Finished, auditVars, world
    <3> QED BY <1>3, <3>2, <3>3, <3>4, <3>5, <3>6, <3>7 DEF Next
  <2> QED BY <2>1
<1> QED BY <1>1, <1>2, <1>3

\* The payments that lnd lists as succeeded.
LEMMA PaymentsAre ==
  ASSUME KeptWorld, pay \in PayStates
  PROVE  /\ Len(payments) \in Nat /\ DOMAIN payments = 1..Len(payments)
         /\ Len(Payments) \in Nat /\ DOMAIN Payments = 1..Len(Payments)
         /\ Len(Payments) <= Len(payments) + 1
         /\ \A i \in DOMAIN Payments : Succeeded(Payments[i]) =>
              /\ IsPayment(Payments[i])
              /\ i > Len(payments) => pay = 4 /\ Payments[i] = SelfPayment
         /\ pay = 4 => /\ Len(payments) + 1 \in DOMAIN Payments
                       /\ Payments[Len(payments) + 1] = SelfPayment
                       /\ Succeeded(SelfPayment)
<1>1. payments \in Seq(LndPayment) /\ Payments \in Seq(LndPayment)
  BY WorldFacts, ListsTyped
<1>2. PICK n \in Nat : n = Len(payments) /\ DOMAIN payments = 1..n
  BY <1>1
<1>3. Succeeded(SelfPayment) <=> pay = 4
  BY DEF Succeeded, SelfPayment
<1>4. CASE pay = 0
  <2>1. Payments = payments
    BY <1>4 DEF Payments
  <2>2. \A i \in DOMAIN payments : payments[i] \in ToSet(payments)
    BY DEF ToSet
  <2>3. \A i \in 1..n : ~(i > n)
    OBVIOUS
  <2> QED BY <1>1, <1>2, <1>4, <2>1, <2>2, <2>3 DEF IsPayment
<1>5. CASE pay # 0
  <2>1. Payments = Append(payments, SelfPayment)
    BY <1>5 DEF Payments
  <2>2. \A i \in DOMAIN payments : payments[i] \in ToSet(payments)
    BY DEF ToSet
  <2>3. /\ Len(Payments) = n + 1 /\ DOMAIN Payments = 1..(n + 1)
        /\ \A i \in 1..n : Payments[i] = payments[i]
        /\ Payments[n + 1] = SelfPayment
    BY <1>1, <1>2, <2>1
  <2>4. n + 1 \in 1..(n + 1) /\ \A i \in 1..(n + 1) : (i \in 1..n /\ ~(i > n)) \/ i = n + 1
    OBVIOUS
  <2> QED BY <1>1, <1>2, <1>3, <2>2, <2>3, <2>4 DEF IsPayment
<1> QED BY <1>4, <1>5

\* What one more page makes of the list of payments.
LEMMA PaymentsPage ==
  ASSUME KeptWorld, ListInv, PaymentsInv, stage = "payments",
         NEW page, page = NextPage({i \in DOMAIN Payments : Succeeded(Payments[i])}),
         NEW all, all = Gathered(Payments, page)
  PROVE  /\ all \in Seq(LndPayment)
         /\ \A k \in DOMAIN all : IsPayment(all[k])
         /\ ~LastPage(page) => /\ Last(page) \in Nat
                               /\ Last(page) > Len(payments) => HasSelf(all)
         /\ LastPage(page) /\ pay = 4 => HasSelf(all)
<1> DEFINE S == {i \in DOMAIN Payments : Succeeded(Payments[i])}
<1>1. PICK n \in Nat : n = Len(payments) /\ DOMAIN payments = 1..n
  BY PaymentsAre DEF PaymentsInv
<1>2. PICK d \in Nat : d = Len(Payments) /\ DOMAIN Payments = 1..d
  BY PaymentsAre DEF PaymentsInv
<1>3. /\ \A i \in S : /\ IsPayment(Payments[i])
                      /\ i > n => pay = 4 /\ Payments[i] = SelfPayment
      /\ pay = 4 => n + 1 \in S /\ Payments[n + 1] = SelfPayment
  BY <1>1, PaymentsAre DEF PaymentsInv
<1>4. S \in SUBSET (1..d) /\ S \in SUBSET DOMAIN Payments
  BY <1>2
<1>5. page = NextPage(S)
  OBVIOUS
<1>6. /\ listed \in Seq(LndPayment) /\ offset \in Nat
      /\ \A k \in DOMAIN listed : IsPayment(listed[k])
      /\ offset > n => HasSelf(listed)
  BY <1>1 DEF ListInv, PaymentsInv
<1> HIDE DEF S
<1> DEFINE R == {i \in S : i > offset}
<1>7. /\ page \in Seq(R)
      /\ ~LastPage(page) => page # <<>>
      /\ LastPage(page) => \A i \in S : i > offset => \E k \in DOMAIN page : page[k] = i
  BY <1>4, <1>5, <1>6, PartPage
<1>8. PICK m \in Nat : m = Len(page) /\ DOMAIN page = 1..m
  <2>1. page \in Seq(R)
    BY <1>7
  <2> QED BY ONLY <2>1
<1>9. \A k \in 1..m : page[k] \in R
  <2> HIDE DEF R
  <2> QED BY <1>7, <1>8
<1>10. \A k \in 1..m : page[k] \in S /\ page[k] \in Nat
  <2>1. \A i \in R : i \in S /\ i \in Nat
    BY <1>4
  <2> HIDE DEF R
  <2> QED BY <1>9, <2>1
<1>11. Payments \in Seq(LndPayment)
  BY ListsTyped
<1>12. all \in Seq(LndPayment)
  BY <1>4, <1>5, <1>6, <1>11, PageIs
<1> DEFINE more == [k \in DOMAIN page |-> Payments[page[k]]]
<1>13. more \in Seq(LndPayment) /\ Len(more) = m
  <2>1. \A k \in 1..m : Payments[page[k]] \in LndPayment
    BY <1>4, <1>10, <1>11
  <2> QED BY <1>8, <2>1
<1>14. PICK l \in Nat : l = Len(listed) /\ DOMAIN listed = 1..l
  BY <1>6
<1>15. all = listed \o more
  BY DEF Gathered
<1>16. \A k \in 1..m : more[k] = Payments[page[k]]
  BY <1>8
<1> HIDE DEF more
<1>17. /\ DOMAIN all = 1..(l + m)
       /\ \A k \in 1..l : all[k] = listed[k]
       /\ \A k \in 1..m : all[l + k] = more[k]
  <2>1. DOMAIN more = 1..m
    BY ONLY <1>13
  <2>2. listed \in Seq(LndPayment) /\ more \in Seq(LndPayment)
    BY ONLY <1>6, <1>13
  <2>3. /\ DOMAIN (listed \o more) = 1..(Len(listed) + Len(more))
        /\ \A k \in DOMAIN listed : (listed \o more)[k] = listed[k]
        /\ \A k \in DOMAIN more : (listed \o more)[Len(listed) + k] = more[k]
    BY ONLY <2>2, Joined
  <2> QED BY ONLY <1>13, <1>14, <1>15, <2>1, <2>3
<1>18. ASSUME NEW k \in DOMAIN all PROVE IsPayment(all[k])
  <2>1. CASE k \in 1..l
    BY <1>6, <1>14, <1>17, <2>1
  <2>2. CASE k \notin 1..l
    <3>1. PICK j \in 1..m : k = l + j
      <4>1. k - l \in 1..m /\ k = l + (k - l)
        BY <1>17, <2>2
      <4> QED BY <4>1
    <3>2. all[k] = Payments[page[j]]
      BY <1>16, <1>17, <3>1
    <3>3. page[j] \in S
      BY <1>10
    <3> QED BY <1>3, <3>2, <3>3
  <2> QED BY <2>1, <2>2
\* A page with the newest payment has it, and a list keeps it.
<1>19. ASSUME NEW k \in 1..m, page[k] > n PROVE HasSelf(all)
  <2>1. pay = 4 /\ all[l + k] = SelfPayment
    BY <1>3, <1>10, <1>16, <1>17, <1>19
  <2>2. l + k \in DOMAIN all
    BY <1>17
  <2> QED BY <2>1, <2>2 DEF HasSelf
<1>20. HasSelf(listed) => HasSelf(all)
  <2>1. \A k \in 1..l : k \in 1..(l + m)
    OBVIOUS
  <2> QED BY <1>14, <1>17, <2>1 DEF HasSelf
<1>21. ASSUME ~LastPage(page)
       PROVE  Last(page) \in Nat /\ (Last(page) > n => HasSelf(all))
  <2>1. m # 0
    BY <1>7, <1>8, <1>21
  <2>2. m \in 1..m /\ Last(page) = page[m]
    BY <1>8, <2>1 DEF Last
  <2> QED BY <1>10, <1>19, <2>2
<1>22. ASSUME LastPage(page), pay = 4 PROVE HasSelf(all)
  <2>1. CASE offset > n
    BY <1>6, <1>20, <2>1
  <2>2. CASE ~(offset > n)
    <3>1. n + 1 > offset /\ n + 1 > n
      BY <1>6, <2>2
    <3>2. PICK k \in DOMAIN page : page[k] = n + 1
      BY <1>3, <1>7, <1>22, <3>1
    <3> QED BY <1>8, <1>19, <3>1, <3>2
  <2> QED BY <2>1, <2>2
<1> QED BY <1>1, <1>12, <1>18, <1>21, <1>22

\* Whose hashes getCircularPayments has.
LEMMA CircularAre ==
  ASSUME KeptWorld, NEW all \in Seq(LndPayment), \A k \in DOMAIN all : IsPayment(all[k]),
         NEW infos, infos = preProcessPayments(all)
  PROVE  /\ HasSelf(all) => SelfHash \in getCircularPayments(infos)
         /\ \A hash \in getCircularPayments(infos) : PaidToSelf(hash)
<1> DEFINE To1(p) == IF paymentHtlcDestination(p) # None
                     THEN paymentHtlcDestination(p) ELSE p.payReq
<1>1. /\ DOMAIN infos = DOMAIN all
      /\ \A k \in DOMAIN all : infos[k].hash = all[k].hash /\ infos[k].destination = To1(all[k])
  BY DEF preProcessPayments
<1>2. None # Own
  BY AuditAssumption
<1>3. ASSUME HasSelf(all) PROVE SelfHash \in getCircularPayments(infos)
  <2>1. PICK k \in DOMAIN all : pay = 4 /\ all[k] = SelfPayment
    BY <1>3 DEF HasSelf
  <2>2. SelfPayment.htlcs = <<[ok |-> pay = 4, time |-> invoices[1].settle + 1, dest |-> Own]>>
        /\ SelfPayment.hash = SelfHash
    BY <2>1 DEF SelfPayment
  <2>3. paymentHtlcDestination(SelfPayment) = Own
    BY <2>2 DEF paymentHtlcDestination
  <2>4. infos[k] \in ToSet(infos) /\ infos[k].destination = Own /\ infos[k].hash = SelfHash
    BY <1>1, <1>2, <2>1, <2>2, <2>3 DEF ToSet
  <2> QED BY <2>4 DEF getCircularPayments
<1>4. ASSUME NEW hash \in getCircularPayments(infos) PROVE PaidToSelf(hash)
  <2>1. PICK k \in DOMAIN all : all[k].hash = hash /\ To1(all[k]) = Own
    BY <1>1 DEF getCircularPayments, ToSet
  <2>2. ToOurselves(all[k])
    <3>1. CASE all[k].payReq = Own
      BY <3>1 DEF ToOurselves
    <3>2. CASE all[k].payReq # Own
      <4> DEFINE hs == all[k].htlcs
      <4>1. hs # <<>> /\ hs[1].dest = Own
        BY <1>2, <2>1, <3>2 DEF paymentHtlcDestination
      <4>2. hs \in Seq([ok : BOOLEAN, time : Nat, dest : Nodes])
        <5>1. all[k] \in LndPayment
          OBVIOUS
        <5> QED BY <5>1 DEF LndPayment
      <4> DEFINE H == [ok : BOOLEAN, time : Nat, dest : Nodes]
      <4>3. 1 \in DOMAIN hs
        <5>1. hs \in Seq(H)
          BY <4>2
        <5> HIDE DEF hs, H
        <5> QED BY <4>1, <5>1
      <4>4. hs[1] \in ToSet(hs)
        BY <4>3 DEF ToSet
      <4> QED BY <4>1, <4>4 DEF ToOurselves
    <3> QED BY <3>1, <3>2
  <2>3. IsPayment(all[k])
    OBVIOUS
  <2>4. SelfPayment.hash = SelfHash
    BY DEF SelfPayment
  <2> QED BY <2>1, <2>2, <2>3, <2>4 DEF IsPayment, PaidToSelf
<1> QED BY <1>3, <1>4

\* Every step keeps the pages of payments.
LEMMA PaymentsStep ==
  KeptWorld /\ ListInv /\ TrackInv /\ PaymentsInv /\ [Next]_auditVars => PaymentsInv'
<1> SUFFICES ASSUME KeptWorld, ListInv, TrackInv, PaymentsInv, [Next]_auditVars
             PROVE  PaymentsInv'
  OBVIOUS
<1>1. UNCHANGED <<invoices, payments, req>>
  BY ListsStay
<1>2. pay' \in PayStates /\ (pay = 4 => pay' = 4)
  BY PayStep DEF PaymentsInv
<1>3. SelfHash' = SelfHash /\ (pay = 4 => SelfPayment' = SelfPayment)
  <2>1. SelfHash' = SelfHash
    BY <1>1 DEF SelfHash
  <2>2. ASSUME pay = 4 PROVE SelfPayment' = SelfPayment
    <3>1. pay' = pay
      BY <1>2, <2>2
    <3> QED BY <1>1, <2>1, <3>1 DEF SelfPayment
  <2> QED BY <2>1, <2>2
<1>4. /\ \A p : IsPayment(p) => IsPayment(p)'
      /\ \A ps : HasSelf(ps) => HasSelf(ps)'
      /\ \A hash : PaidToSelf(hash) => PaidToSelf(hash)'
  <2>1. \A p : IsPayment(p) => IsPayment(p)'
    BY <1>1, <1>2, <1>3 DEF IsPayment
  <2>2. \A ps : HasSelf(ps) => HasSelf(ps)'
    BY <1>2, <1>3 DEF HasSelf
  <2>3. \A hash : PaidToSelf(hash) => PaidToSelf(hash)'
    BY <1>1, <1>2, <1>3 DEF PaidToSelf
  <2> QED BY <2>1, <2>2, <2>3
<1> DEFINE Pages(o, ls) == /\ o \in Nat
                           /\ \A k \in DOMAIN ls : IsPayment(ls[k])
                           /\ o > Len(payments) => HasSelf(ls)
           Hashes(sp, ps) == /\ sp = 4 => SelfHash \in getCircularPayments(ps)
                             /\ \A hash \in getCircularPayments(ps) : PaidToSelf(hash)
<1>5. /\ stage = "payments" => Pages(offset, listed)
      /\ stage = "forwards" \/ Audited => Hashes(seen.pay, pays)
  BY DEF PaymentsInv
<1>6. SUFFICES /\ stage' = "payments" => Pages(offset', listed')
               /\ stage' = "forwards" \/ (stage' = "done" /\ req.kind = "audit")
                    => Hashes(seen'.pay, pays')
  <2>1. ASSUME stage' = "payments", Pages(offset', listed')
        PROVE  /\ offset' \in Nat
               /\ \A k \in DOMAIN listed' : IsPayment(listed[k])'
               /\ (offset > Len(payments))' => HasSelf(listed)'
    <3>1. \A k \in DOMAIN listed' : IsPayment(listed[k])'
      <4> SUFFICES ASSUME NEW k \in DOMAIN listed' PROVE IsPayment(listed[k])'
        OBVIOUS
      <4>1. IsPayment(listed'[k])
        BY <2>1
      <4> QED BY <1>1, <1>2, <1>3, <4>1 DEF IsPayment
    <3>2. (offset > Len(payments))' => HasSelf(listed)'
      <4> SUFFICES ASSUME (offset > Len(payments))' PROVE HasSelf(listed)'
        OBVIOUS
      <4>1. HasSelf(listed')
        BY <1>1, <2>1
      <4> QED BY <1>2, <1>3, <4>1 DEF HasSelf
    <3> QED BY <2>1, <3>1, <3>2
  <2>2. ASSUME Hashes(seen'.pay, pays')
        PROVE  /\ seen'.pay = 4 => SelfHash' \in getCircularPayments(pays)'
               /\ \A hash \in getCircularPayments(pays)' : PaidToSelf(hash)'
    <3>1. getCircularPayments(pays)' = getCircularPayments(pays')
      BY DEF getCircularPayments
    <3> QED BY <1>3, <1>4, <2>2, <3>1
  <2> QED BY <1>1, <1>2, <1>6, <2>1, <2>2 DEF PaymentsInv, Audited
<1> HIDE DEF Pages, Hashes
\* Nothing but the stage changes.
<1>7. ASSUME UNCHANGED <<listed, offset, pays, seen>>,
             \/ stage' = stage
             \/ stage' \notin {"payments", "forwards", "done"}
             \/ stage' = "done" /\ req.kind # "audit"
      PROVE  /\ stage' = "payments" => Pages(offset', listed')
             /\ stage' = "forwards" \/ (stage' = "done" /\ req.kind = "audit")
                  => Hashes(seen'.pay, pays')
  BY <1>5, <1>7 DEF Audited
<1>8. CASE Quiet
  <2>1. stage = "rates" => req.kind = "rates"
    BY DEF TrackInv
  <2> QED BY <1>7, <1>8, <2>1 DEF Quiet, Early
<1>9. CASE ChannelMoves
  BY <1>7, <1>9 DEF ChannelMoves, callVars
<1>10. CASE ListTransactions \/ ListSweeps
  <2>1. stage' \in {"offchain", "pending"}
    BY <1>10 DEF ListTransactions, ListSweeps
  <2> QED BY <2>1
<1>11. CASE PendingChannels \/ OpenChannels \/ ClosedChannels
  <2>1. stage' \in {"open", "closed", "sweeps"}
    BY <1>11 DEF PendingChannels, OpenChannels, ClosedChannels
  <2> QED BY <2>1
<1>12. CASE ListInvoices
  <2>1. \/ stage' = "invoices"
        \/ stage' = "payments" /\ offset' = 0 /\ listed' = <<>>
    BY <1>12 DEF ListInvoices, InvoicesRead, QueryPaginated
  <2>2. Pages(0, <<>>)
    <3>1. Len(payments) \in Nat
      BY PaymentsAre DEF PaymentsInv
    <3>2. ~(0 > Len(payments)) /\ 0 \in Nat
      BY <3>1
    <3>3. DOMAIN <<>> = {}
      OBVIOUS
    <3> QED BY <3>2, <3>3 DEF Pages
  <2> QED BY <2>1, <2>2
<1>13. CASE ListPayments
  <2>1. PICK page : page = NextPage({i \in DOMAIN Payments : Succeeded(Payments[i])})
    OBVIOUS
  <2>2. PICK all : all = Gathered(Payments, page)
    OBVIOUS
  <2>3. /\ stage = "payments"
        /\ LastPage(page) => PaymentsRead(all)
        /\ QueryPaginated(Payments, page)
    BY <1>13, <2>1, <2>2 DEF ListPayments
  <2>4. /\ all \in Seq(LndPayment) /\ \A k \in DOMAIN all : IsPayment(all[k])
        /\ ~LastPage(page) => /\ Last(page) \in Nat
                              /\ Last(page) > Len(payments) => HasSelf(all)
        /\ LastPage(page) /\ pay = 4 => HasSelf(all)
    BY <2>1, <2>2, <2>3, PaymentsPage
  <2>5. CASE LastPage(page)
    <3>1. pays' = preProcessPayments(all) /\ stage' \in {"forwards", "failed"}
          /\ seen' = [seen EXCEPT !.pay = pay]
      BY <2>3, <2>5 DEF PaymentsRead
    <3>2. seen'.pay = pay
      BY <3>1 DEF TrackInv
    <3>3. /\ HasSelf(all) => SelfHash \in getCircularPayments(pays')
          /\ \A hash \in getCircularPayments(pays') : PaidToSelf(hash)
      BY <2>4, <3>1, CircularAre
    <3>4. Hashes(seen'.pay, pays')
      BY <2>4, <2>5, <3>2, <3>3 DEF Hashes
    <3> QED BY <3>1, <3>4
  <2>6. CASE ~LastPage(page)
    <3>1. offset' = Last(page) /\ listed' = all /\ stage' = "payments"
      BY <2>2, <2>3, <2>6 DEF QueryPaginated
    <3>2. Pages(offset', listed')
      BY <2>4, <2>6, <3>1 DEF Pages
    <3> QED BY <3>1, <3>2
  <2> QED BY <2>5, <2>6
<1>14. CASE ListForwards
  <2>1. stage = "forwards" /\ stage' \in {"forwards", "done", "failed"} /\ UNCHANGED <<pays, seen>>
    BY <1>14 DEF ListForwards, ForwardsRead, QueryPaginated
  <2> QED BY <1>5, <2>1
<1> QED BY <1>8, <1>9, <1>10, <1>11, <1>12, <1>13, <1>14, StepKinds

\* An on chain report is made of on chain entries.
LEMMA OnChainTyped ==
  ASSUME KeptWorld, TxnsInv, NEW r, OnChainOf(wallet, txns, opened, closings, r)
  PROVE  \E u : r \in Seq(OnEntry(u))
<1>1. PICK sw, u : FeesOf(wallet, u) /\ r = onChainReport(txns, opened, closings, sw, u)
  BY DEF OnChainOf
<1> DEFINE E(j) == EntriesOf(txns[j], opened, closings, sw, u)
           ss == [j \in DOMAIN txns |-> E(j)]
<1>2. r = FlattenSeq(ss)
  BY <1>1 DEF onChainReport
<1>3. \A j \in DOMAIN txns : E(j) \in Seq(OnEntry(u))
  <2> SUFFICES ASSUME NEW j \in DOMAIN txns PROVE E(j) \in Seq(OnEntry(u))
    OBVIOUS
  <2>1. txns[j] \in Tx /\ u.getFee[txns[j].txid] \in Nat
    BY <1>1, FeeKnown
  <2> QED BY <2>1, EntriesAre
<1>4. DOMAIN txns = 1..Len(txns) /\ Len(txns) \in Nat
  BY DEF TxnsInv
<1> HIDE DEF E
<1>5. ss \in Seq(Seq(OnEntry(u)))
  BY <1>3, <1>4
<1> HIDE DEF ss
<1>6. r \in Seq(OnEntry(u))
  BY <1>2, <1>5, FlattenIs
<1> QED BY <1>6

\* r is an answer whose off chain part is made of the invoices is and of the
\* payments ps, those of the window w.
OffAnswerOf(is, ps, w, r) ==
  \E u, v : \E on \in Seq(OnEntry(u)), fs \in Seq(LndForward) :
    r = rpcReportResponse(on \o offChainReport(is, filterPayments(ps, w),
                                               getCircularPayments(ps), fs, v))

\* The answer is made of the invoices and payments that were left of the lists.
OffInv == Audited => OffAnswerOf(invs, pays, Window, report)

\* The off chain entries of r: those of the invoices is, which have places of
\* their own, and those of payments and forwards.
Laid(is, circular, r) ==
  \E place \in [DOMAIN is -> DOMAIN r] :
    /\ \A k \in DOMAIN is : /\ r[place[k]].onChain = FALSE
                            /\ OfInvoice(r[place[k]], is[k], circular)
    /\ \A i \in DOMAIN r : \/ r[i].onChain = TRUE /\ r[i].type \in OnTypeNames
                           \/ OfPayment(r[i], circular)
                           \/ \E k \in DOMAIN is : i = place[k]

\* The entries of an answer.
LEMMA AnswerLayout ==
  ASSUME NEW is \in Seq(LndInvoice), NEW ps \in Seq(PaymentInfo), NEW w, NEW r,
         OffAnswerOf(is, ps, w, r)
  PROVE  /\ \A i \in DOMAIN r : r[i].amount \in Nat
         /\ Laid(is, getCircularPayments(ps), r)
<1>1. PICK u, v : \E on \in Seq(OnEntry(u)), fs \in Seq(LndForward) :
        r = rpcReportResponse(on \o offChainReport(is, filterPayments(ps, w),
                                                   getCircularPayments(ps), fs, v))
  BY DEF OffAnswerOf
<1>2. PICK on \in Seq(OnEntry(u)), fs \in Seq(LndForward) :
        r = rpcReportResponse(on \o offChainReport(is, filterPayments(ps, w),
                                                   getCircularPayments(ps), fs, v))
  BY <1>1
<1>3. PICK circular : circular = getCircularPayments(ps)
  OBVIOUS
<1>4. PICK fp \in Seq(PaymentInfo) : fp = filterPayments(ps, w)
  <2>1. filterPayments(ps, w) \in Seq(PaymentInfo)
    BY PaymentsLeft
  <2> QED BY <2>1
<1>5. PICK off : off = offChainReport(is, fp, circular, fs, v)
  OBVIOUS
<1>6. /\ off \in Seq(OffEntry(v))
      /\ \A k \in DOMAIN is : k \in DOMAIN off /\ OfInvoice(off[k], is[k], circular)
      /\ \A k \in DOMAIN off : k \in DOMAIN is \/ OfPayment(off[k], circular)
  BY <1>5, OffChainIs
<1> DEFINE S == OnEntry(u) \cup OffEntry(v)
<1>7. /\ \A e \in OnEntry(u) : /\ e.time \in Nat /\ e.amount \in Nat /\ e.onChain = TRUE
                               /\ e.type \in OnTypeNames
      /\ \A e \in OffEntry(v) : e.time \in Nat /\ e.amount \in Nat /\ e.onChain = FALSE
  BY EntryFacts
<1>8. \A e \in S : e.time \in Int /\ e.amount \in Nat
  BY <1>7
<1>9. on \in Seq(S) /\ off \in Seq(S)
  <2>1. ASSUME NEW T, NEW s \in Seq(T), T \subseteq S PROVE s \in Seq(S)
    BY <2>1
  <2>2. OnEntry(u) \subseteq S /\ OffEntry(v) \subseteq S
    OBVIOUS
  <2> HIDE DEF S
  <2> QED BY <1>6, <2>1, <2>2
<1> HIDE DEF S
<1>10. PICK all : all = on \o off
  OBVIOUS
<1>11. /\ all \in Seq(S)
       /\ \A k \in DOMAIN on : k \in DOMAIN all /\ all[k] = on[k]
       /\ \A k \in DOMAIN off : Len(on) + k \in DOMAIN all /\ all[Len(on) + k] = off[k]
       /\ \A k \in DOMAIN all : k \in DOMAIN on \/ \E j \in DOMAIN off : k = Len(on) + j
  BY ONLY <1>9, <1>10, Joined, ConcatIs
<1>12. r = rpcReportResponse(all)
  BY <1>2, <1>3, <1>4, <1>5, <1>10
<1> DEFINE D == DOMAIN all
<1>13. \A k \in D : all[k] \in S
  BY <1>11
<1>14. DOMAIN r = D /\ \E q \in [D -> D] : /\ \A k \in D : r[k] = all[q[k]]
                                           /\ \A k, l \in D : q[k] = q[l] => k = l
                                           /\ \A i \in D : \E k \in D : q[k] = i
  <2>1. \A k \in D : all[k].time \in Int
    BY <1>8, <1>13
  <2>2. all \in Seq(S)
    BY <1>11
  <2>3. /\ DOMAIN rpcReportResponse(all) = DOMAIN all
        /\ \E q \in [DOMAIN all -> DOMAIN all] :
             /\ \A k \in DOMAIN all : rpcReportResponse(all)[k] = all[q[k]]
             /\ \A k, l \in DOMAIN all : q[k] = q[l] => k = l
             /\ \A i \in DOMAIN all : \E k \in DOMAIN all : q[k] = i
    BY ONLY <2>1, <2>2, ResponseIs
  <2> QED BY <1>12, <2>3
<1>15. PICK q \in [D -> D] : /\ \A k \in D : r[k] = all[q[k]]
                             /\ \A k, l \in D : q[k] = q[l] => k = l
                             /\ \A i \in D : \E k \in D : q[k] = i
  BY <1>14
<1> HIDE DEF D
<1>16. \A i \in DOMAIN r : r[i].amount \in Nat
  <2> SUFFICES ASSUME NEW i \in DOMAIN r PROVE r[i].amount \in Nat
    OBVIOUS
  <2>1. r[i] = all[q[i]] /\ q[i] \in D
    BY <1>14, <1>15
  <2>2. all[q[i]] \in S
    BY <1>13, <2>1 DEF D
  <2> QED BY <1>8, <2>1, <2>2
<1>17. \A k \in DOMAIN is : k \in DOMAIN off /\ Len(on) + k \in D
  BY <1>6, <1>11 DEF D
<1> DEFINE at(k) == CHOOSE i \in D : q[i] = Len(on) + k
           place == [k \in DOMAIN is |-> at(k)]
<1>18. ASSUME NEW k \in DOMAIN is PROVE at(k) \in D /\ q[at(k)] = Len(on) + k
  BY <1>15, <1>17
<1> HIDE DEF at
<1>19. place \in [DOMAIN is -> DOMAIN r] /\ \A k \in DOMAIN is : place[k] = at(k)
  BY <1>14, <1>18
<1> HIDE DEF place
<1>20. ASSUME NEW k \in DOMAIN is
       PROVE  r[place[k]].onChain = FALSE /\ OfInvoice(r[place[k]], is[k], circular)
  <2>1. r[place[k]] = off[k]
    BY <1>11, <1>15, <1>17, <1>18, <1>19
  <2>2. off[k] \in OffEntry(v)
    BY <1>6, <1>17
  <2> QED BY <1>6, <1>7, <2>1, <2>2
<1>21. ASSUME NEW i \in DOMAIN r
       PROVE  \/ r[i].onChain = TRUE /\ r[i].type \in OnTypeNames
              \/ OfPayment(r[i], circular)
              \/ \E k \in DOMAIN is : i = place[k]
  <2>1. i \in D /\ q[i] \in D /\ r[i] = all[q[i]]
    BY <1>14, <1>15
  <2>2. CASE q[i] \in DOMAIN on
    <3>1. r[i] = on[q[i]] /\ on[q[i]] \in OnEntry(u)
      BY <1>11, <2>1, <2>2
    <3> QED BY <1>7, <3>1
  <2>3. CASE q[i] \notin DOMAIN on
    <3>1. PICK j \in DOMAIN off : q[i] = Len(on) + j
      BY <1>11, <2>1, <2>3 DEF D
    <3>2. r[i] = off[j]
      BY <1>11, <2>1, <3>1
    <3>3. CASE j \in DOMAIN is
      <4>1. place[j] \in D /\ q[place[j]] = q[i]
        BY <1>18, <1>19, <3>1, <3>3
      <4> QED BY <1>15, <2>1, <3>3, <4>1
    <3>4. CASE j \notin DOMAIN is
      BY <1>6, <3>2, <3>4
    <3> QED BY <3>3, <3>4
  <2> QED BY <2>2, <2>3
<1>22. Laid(is, circular, r)
  BY <1>19, <1>20, <1>21 DEF Laid
<1> QED BY <1>3, <1>16, <1>22

\* The answer that the last page of forwards makes.
LEMMA ForwardsAnswer ==
  ASSUME KeptWorld, TxnsInv, ListInv, ReportInv, ListForwards,
         LastPage(NextPage(DOMAIN req.forwards))
  PROVE  /\ OffAnswerOf(invs, pays, Window, report')
         /\ stage' \in {"done", "failed"} /\ UNCHANGED <<invs, pays>>
<1> DEFINE page == NextPage(DOMAIN req.forwards)
           all == Gathered(req.forwards, page)
           v == Utils(getCategories(req.cats, FALSE))
<1>1. stage = "forwards" /\ ForwardsRead(all)
  BY DEF ListForwards
<1>2. /\ report' = rpcReportResponse(report \o offChainReport(invs, filterPayments(pays, Window),
                                                              getCircularPayments(pays), all, v))
      /\ stage' \in {"done", "failed"} /\ UNCHANGED <<invs, pays>>
  BY <1>1 DEF ForwardsRead
<1>3. all \in Seq(LndForward)
  <2>1. listed \in Seq(LndForward)
    BY <1>1 DEF ListInv
  <2> QED BY <2>1, WorldFacts, PageIs
<1>4. PICK u : report \in Seq(OnEntry(u))
  <2>1. OnChainOf(wallet, txns, opened, closings, report)
    BY <1>1 DEF ReportInv, OffChain
  <2> QED BY <2>1, OnChainTyped
<1> HIDE DEF all, v
<1> QED BY <1>2, <1>3, <1>4 DEF OffAnswerOf

\* Every step keeps what the answer is made of.
LEMMA OffStep ==
  KeptWorld /\ TxnsInv /\ ListInv /\ TrackInv /\ ReportInv /\ OffInv /\ [Next]_auditVars
    => OffInv'
<1> SUFFICES ASSUME KeptWorld, TxnsInv, ListInv, TrackInv, ReportInv, OffInv, [Next]_auditVars,
                    Audited'
             PROVE  OffAnswerOf(invs', pays', Window', report')
  BY DEF OffInv, OffAnswerOf
<1>1. stage' = "done" /\ req'.kind = "audit" /\ req' = req /\ Window' = Window
  BY ListsStay DEF Audited, Window
<1>2. CASE ListForwards
  <2>1. CASE LastPage(NextPage(DOMAIN req.forwards))
    BY <1>1, <1>2, <2>1, ForwardsAnswer
  <2>2. CASE ~LastPage(NextPage(DOMAIN req.forwards))
    <3>1. stage' = "forwards"
      BY <1>2, <2>2 DEF ListForwards, QueryPaginated
    <3> QED BY <1>1, <3>1
  <2> QED BY <2>1, <2>2
<1>3. CASE Quiet
  <2>1. stage = "rates" => req.kind = "rates"
    BY DEF TrackInv
  <2>2. Audited /\ UNCHANGED <<invs, pays, report>>
    BY <1>1, <1>3, <2>1 DEF Quiet, Early, Audited
  <2> QED BY <1>1, <2>2 DEF OffInv
<1>4. CASE ChannelMoves
  BY <1>1, <1>4 DEF ChannelMoves, Reading
<1>5. CASE ListTransactions \/ ListSweeps \/ PendingChannels \/ OpenChannels \/ ClosedChannels
  BY <1>1, <1>5 DEF ListTransactions, ListSweeps, PendingChannels, OpenChannels, ClosedChannels
<1>6. CASE ListInvoices
  BY <1>1, <1>6 DEF ListInvoices, InvoicesRead, QueryPaginated
<1>7. CASE ListPayments
  BY <1>1, <1>7 DEF ListPayments, PaymentsRead, QueryPaginated
<1> QED BY <1>2, <1>3, <1>4, <1>5, <1>6, <1>7, StepKinds

\* What is known of the lists and of what was made of them.
SelfInv == AuditInv /\ InvoicesInv /\ PaymentsInv /\ OffInv

\* SelfInv holds at first.
LEMMA SelfInvInit == Init => SelfInv
<1> SUFFICES ASSUME Init PROVE SelfInv
  OBVIOUS
<1>1. PICK s \in Worlds : stage = "idle" /\ offset = 0 /\ pay = s.pay
  BY DEF Init
<1>2. pay \in PayStates
  BY <1>1, AuditAssumption
<1> QED BY <1>1, <1>2, AuditInvInit DEF SelfInv, InvoicesInv, PaymentsInv, OffInv, Audited

\* SelfInv is inductive.
LEMMA SelfInvStep == SelfInv /\ [Next]_auditVars => SelfInv'
BY AuditInvStep, InvoicesStep, PaymentsStep, OffStep DEF SelfInv, AuditInv

\* The node's payments to itself are recognised, and its invoices reported once,
\* whatever page of the lists they are on and however far the payment has come
\* when payments are read (SelfPaymentsRecognised).
THEOREM SelfPaymentsAreRecognised == Spec => []SelfPaymentsRecognised
<1>1. ASSUME SelfInv PROVE SelfPaymentsRecognised
  <2> SUFFICES ASSUME Audited PROVE SelfPaymentsRecognised
    BY DEF SelfPaymentsRecognised
  <2>1. /\ KeptWorld /\ invs \in Seq(LndInvoice) /\ pays \in Seq(PaymentInfo)
        /\ OffAnswerOf(invs, pays, Window, report)
        /\ \A k, l \in DOMAIN invs : invs[k].hash = invs[l].hash => k = l
        /\ \A i \in DOMAIN invoices :
             (i > 1 /\ invoices[i].state = "settled" /\ inRange(invoices[i].settle, Window))
               => \E k \in DOMAIN invs : invs[k].hash = invoices[i].hash
    BY <1>1 DEF SelfInv, AuditInv, ListInv, InvoicesInv, OffInv
  <2>2. PICK circular : /\ circular = getCircularPayments(pays)
                        /\ seen.pay = 4 => SelfHash \in circular
                        /\ \A hash \in circular : PaidToSelf(hash)
    BY <1>1 DEF SelfInv, PaymentsInv
  <2>3. PICK place \in [DOMAIN invs -> DOMAIN report] :
          /\ \A k \in DOMAIN invs : /\ report[place[k]].onChain = FALSE
                                    /\ OfInvoice(report[place[k]], invs[k], circular)
          /\ \A i \in DOMAIN report : \/ report[i].onChain = TRUE /\ report[i].type \in OnTypeNames
                                      \/ OfPayment(report[i], circular)
                                      \/ \E k \in DOMAIN invs : i = place[k]
    <3>1. Laid(invs, circular, report)
      BY <2>1, <2>2, AnswerLayout
    <3> QED BY <3>1 DEF Laid
  \* A settled invoice is reported once.
  <2>4. ASSUME NEW i \in DOMAIN invoices, i > 1, invoices[i].state = "settled",
               inRange(invoices[i].settle, Window)
        PROVE  Cardinality(Receipts(invoices[i].hash)) = 1
    <3>1. PICK k \in DOMAIN invs : invs[k].hash = invoices[i].hash
      BY <2>1, <2>4
    <3>2. place[k] \in Receipts(invoices[i].hash)
      BY <2>3, <3>1 DEF Receipts, OfInvoice
    <3>3. ASSUME NEW j \in Receipts(invoices[i].hash) PROVE j = place[k]
      <4>1. /\ j \in DOMAIN report /\ ~report[j].onChain /\ report[j].txid = invoices[i].hash
            /\ report[j].type \in {"Receipt", "CircularReceipt"}
        BY DEF Receipts
      <4>2. ~OfPayment(report[j], circular)
        BY <4>1 DEF OfPayment, PaidTypes
      <4>3. PICK l \in DOMAIN invs : j = place[l]
        BY <2>3, <4>1, <4>2
      <4>4. invs[l].hash = invs[k].hash
        BY <2>3, <3>1, <4>1, <4>3 DEF OfInvoice
      <4> QED BY <2>1, <4>3, <4>4
    <3>4. Receipts(invoices[i].hash) = {place[k]}
      BY <3>2, <3>3
    <3> QED BY <3>4, FS_Singleton
  \* What our own payment did is circular,
  <2>5. ASSUME seen.pay = 4, NEW ty \in OffTypes(SelfHash) PROVE ty \in Circular
    <3>1. PICK i \in DOMAIN report : /\ ~report[i].onChain /\ report[i].txid = SelfHash
                                     /\ report[i].type = ty
      BY <2>5 DEF OffTypes
    <3>2. SelfHash \in circular
      BY <2>2, <2>5
    <3>3. SelfHash # ""
      <4>1. 1 \in DOMAIN invoices
        <5>1. invoices \in Seq(LndInvoice) /\ invoices # <<>>
          BY <2>1, WorldFacts
        <5> QED BY <5>1
      <4> QED BY <2>1, <4>1, AuditAssumption DEF KeptWorld, SelfHash
    <3>4. CASE OfPayment(report[i], circular)
      BY <3>1, <3>2, <3>3, <3>4 DEF OfPayment, PaidTypes, Circular
    <3>5. CASE \E k \in DOMAIN invs : i = place[k]
      BY <2>3, <3>1, <3>2, <3>5 DEF OfInvoice, Circular
    <3> QED BY <2>3, <3>1, <3>4, <3>5
  \* and nothing else is.
  <2>6. ASSUME NEW i \in DOMAIN report, report[i].type \in Circular
        PROVE  PaidToSelf(report[i].txid)
    <3>1. report[i].type \notin OnTypeNames
      BY <2>6 DEF Circular, OnTypeNames, OpenTypes, PlainTypes
    <3>2. CASE OfPayment(report[i], circular)
      <4>1. report[i].txid \in circular
        BY <2>6, <3>2 DEF OfPayment, PaidTypes, Circular
      <4> QED BY <2>2, <4>1
    <3>3. CASE \E k \in DOMAIN invs : i = place[k]
      <4>1. report[i].txid \in circular
        BY <2>3, <2>6, <3>3 DEF OfInvoice, Circular
      <4> QED BY <2>2, <4>1
    <3> QED BY <2>3, <3>1, <3>2, <3>3
  <2> QED BY <2>4, <2>5, <2>6 DEF SelfPaymentsRecognised, PaidToSelf
<1> QED BY <1>1, SelfInvInit, SelfInvStep, PTL DEF Spec

-----------------------------------------------------------------------------
(* Types: 32 bit heights, bounded retries, pages within their lists.         *)

HeightsFit == {low, high, startHeight, heights.start, heights.end} \subseteq 0..(Wrap - 1)

\* Heights stay within their width, also where the search wraps around.
LEMMA HeightsStep ==
  RangeInv /\ HeightsFit /\ [RangeNext]_<<chain, bsVars>> => HeightsFit'
<1> SUFFICES ASSUME RangeInv, HeightsFit, [RangeNext]_<<chain, bsVars>> PROVE HeightsFit'
  OBVIOUS
<1> DEFINE W == 0..(Wrap - 1)
<1>1. low \in W /\ high \in W /\ startHeight \in W /\ heights.start \in W /\ heights.end \in W
  BY DEF HeightsFit
<1>2. SUFFICES /\ low' \in W /\ high' \in W /\ startHeight' \in W
               /\ heights'.start \in W /\ heights'.end \in W
  BY <1>2 DEF HeightsFit
<1>3. 0 \in W /\ tip \in W /\ latest \in W /\ \A h \in 0..tip : h \in W /\ h + 1 \in W
  BY ChainFacts DEF RangeInv
<1>4. AllHistory.start \in W /\ AllHistory.end \in W
  BY <1>3 DEF AllHistory
<1>5. ASSUME NEW h \in W, Found(h)
      PROVE  /\ low' \in W /\ high' \in W /\ startHeight' \in W
             /\ heights'.start \in W /\ heights'.end \in W
  <2>1. CASE search = "start"
    BY <1>1, <1>3, <1>5, <2>1 DEF Found
  <2>2. CASE search # "start" /\ startHeight > h
    <3>1. heights' = AllHistory /\ UNCHANGED <<low, high, startHeight>>
      BY <1>5, <2>2 DEF Found
    <3> QED BY <1>1, <1>4, <3>1
  <2>3. CASE search # "start" /\ ~(startHeight > h)
    <3>1. heights' = [start |-> startHeight, end |-> h] /\ UNCHANGED <<low, high, startHeight>>
      BY <1>5, <2>3 DEF Found
    <3>2. heights'.start = startHeight /\ heights'.end = h
      BY <3>1
    <3> QED BY <1>1, <1>5, <3>1, <3>2
  <2> QED BY <2>1, <2>2, <2>3
<1>6. CASE FallBack
  BY <1>1, <1>4, <1>6 DEF FallBack
<1>7. CASE Mine \/ UNCHANGED <<chain, bsVars>>
  BY <1>1, <1>7 DEF Mine, bsVars
<1>8. ASSUME NEW w, NEW set, BeginLookup(w, set)
      PROVE  /\ low' \in W /\ high' \in W /\ startHeight' \in W
             /\ heights'.start \in W /\ heights'.end \in W
  BY <1>1, <1>3, <1>4, <1>8 DEF BeginLookup
<1>9. CASE Probe
  <2>1. CASE Mid \in 0..tip /\ blockTime[Mid] < Target /\ low' = Mid + 1
             /\ UNCHANGED <<high, search, startHeight, heights>>
    BY <1>1, <1>3, <2>1
  <2>2. CASE Mid \in 0..tip /\ high' = (Mid - 1) % Wrap
             /\ UNCHANGED <<low, search, startHeight, heights>>
    <3>1. high' \in W
      <4>1. PICK m \in Int, n \in Nat : m = Mid - 1 /\ n = Wrap /\ n > 0
        BY <2>2, ChainFacts DEF RangeInv
      <4>2. m % n \in 0..(n - 1)
        BY <4>1
      <4> QED BY <2>2, <4>1, <4>2
    <3> QED BY <1>1, <2>2, <3>1
  <2>3. CASE Mid \in 0..tip /\ Found(Mid)
    BY <1>3, <1>5, <2>3
  <2> QED BY <1>6, <1>9, <2>1, <2>2, <2>3 DEF Probe
<1>10. CASE Exhausted
  BY <1>1, <1>5, <1>10 DEF Exhausted
<1>11. CASE LookupFails
  BY <1>6, <1>11 DEF LookupFails
<1> QED BY <1>7, <1>8, <1>9, <1>10, <1>11 DEF RangeNext, LookupStep

\* What a step does to the attempts and to the price points.
LEMMA FetchStep ==
  [Next]_auditVars => \/ UNCHANGED <<tries, points>>
                      \/ /\ Fetching'
                         /\ tries' = 0 \/ (tries + 1 < MaxRetries /\ tries' = tries + 1)
<1> SUFFICES ASSUME [Next]_auditVars, ~UNCHANGED <<tries, points>>
             PROVE  /\ Fetching'
                    /\ tries' = 0 \/ (tries + 1 < MaxRetries /\ tries' = tries + 1)
  OBVIOUS
<1>1. CASE AskPrices
  BY <1>1 DEF AskPrices, BeginPrices, Fetching
<1>2. CASE RatesBegin
  BY <1>2 DEF RatesBegin, Fail, To, priceVars, BeginPrices, Fetching
<1>3. CASE Fetch
  <2>1. tries' = 0 \/ (tries + 1 < MaxRetries /\ tries' = tries + 1)
    BY <1>3 DEF Fetch, QueryOk, QueryRetry
  <2>2. Fetching'
    BY <1>3 DEF Fetch, Fetching
  <2> QED BY <2>1, <2>2
<1>4. CASE BlockMined \/ SearchHeights \/ ChannelMoves \/ PaymentMoves \/ AuditBegins
  BY <1>4 DEF BlockMined, SearchHeights, ChannelMoves, PaymentMoves, AuditBegins, priceVars
<1>5. CASE AuditRefused \/ CannotAsk \/ WithoutPrices \/ FetchFails \/ Fetched
           \/ ErrReceiveWithFee \/ CallFails
  BY <1>5 DEF AuditRefused, CannotAsk, WithoutPrices, FetchFails, Fetched, ErrReceiveWithFee,
              CallFails, Fail, To, priceVars
<1>6. CASE ListTransactions \/ PendingChannels \/ OpenChannels \/ ClosedChannels \/ ListSweeps
  BY <1>6 DEF ListTransactions, PendingChannels, OpenChannels, ClosedChannels, ListSweeps,
              AddChannels, priceVars
<1>7. CASE ListInvoices \/ ListPayments \/ ListForwards
  BY <1>7 DEF ListInvoices, ListPayments, ListForwards, QueryPaginated, priceVars
<1>8. CASE Finished \/ UNCHANGED auditVars
  BY <1>8 DEF Finished, auditVars, priceVars
<1> QED BY <1>1, <1>2, <1>3, <1>4, <1>5, <1>6, <1>7, <1>8 DEF Next

\* The last of the items asked for is one of the list's.
LEMMA PageEnd ==
  ASSUME NEW n \in Nat, NEW S \in SUBSET (1..n), offset \in Nat, ~LastPage(NextPage(S))
  PROVE  Last(NextPage(S)) \in 1..n
<1> DEFINE R == {i \in S : i > offset}
<1>1. PICK page : page = NextPage(S) /\ page \in Seq(R) /\ page # <<>>
  BY PartPage
<1>2. R \subseteq 1..n
  OBVIOUS
<1> HIDE DEF R
<1>3. Len(page) \in DOMAIN page
  BY ONLY <1>1
<1>4. page[Len(page)] \in R
  BY ONLY <1>1, <1>3
<1> QED BY <1>1, <1>2, <1>4 DEF Last

\* A number is no more than the largest of three.
LEMMA MaxOfThree ==
  ASSUME NEW a \in Nat, NEW b \in Nat, NEW c \in Nat
  PROVE  /\ Max({a, b, c}) \in Nat
         /\ a <= Max({a, b, c}) /\ b <= Max({a, b, c}) /\ c <= Max({a, b, c})
<1> DEFINE Most(x) == x \in {a, b, c} /\ \A y \in {a, b, c} : x >= y
<1>1. Most(a) \/ Most(b) \/ Most(c)
  OBVIOUS
<1>2. Max({a, b, c}) = CHOOSE x : Most(x)
  BY DEF Max
<1>3. Most(Max({a, b, c}))
  <2> HIDE DEF Most
  <2> QED BY <1>1, <1>2
<1> QED BY <1>3

Longest == Max({Len(invoices), Len(payments) + 1, Len(req.forwards)})

\* Pages stay within their lists.
LEMMA OffsetStep ==
  KeptWorld /\ pay \in PayStates /\ offset \in 0..Longest /\ [Next]_auditVars
    => offset' \in 0..Longest /\ Longest' = Longest
<1> SUFFICES ASSUME KeptWorld, pay \in PayStates, offset \in 0..Longest, [Next]_auditVars
             PROVE  offset' \in 0..Longest /\ Longest' = Longest
  OBVIOUS
<1>1. Longest' = Longest
  BY ListsStay DEF Longest
<1> SUFFICES offset' \in 0..Longest
  BY <1>1
<1>2. PICK a \in Nat, b \in Nat, c \in Nat :
        a = Len(invoices) /\ b = Len(payments) + 1 /\ c = Len(req.forwards)
  <2>1. Len(invoices) \in Nat /\ Len(payments) \in Nat /\ Len(req.forwards) \in Nat
    BY WorldFacts
  <2> QED BY <2>1
<1>3. Longest \in Nat /\ a <= Longest /\ b <= Longest /\ c <= Longest
  BY <1>2, MaxOfThree DEF Longest
<1>4. ASSUME NEW n \in Nat, n <= Longest, NEW list, NEW S \in SUBSET (1..n),
             QueryPaginated(list, NextPage(S))
      PROVE  offset' \in 0..Longest
  <2>1. CASE LastPage(NextPage(S))
    <3>1. offset' = 0
      BY <1>4, <2>1 DEF QueryPaginated
    <3> QED BY <1>3, <3>1
  <2>2. CASE ~LastPage(NextPage(S))
    <3>1. offset' = Last(NextPage(S))
      BY <1>4, <2>2 DEF QueryPaginated
    <3>2. offset \in Nat
      BY <1>3
    <3>3. Last(NextPage(S)) \in 1..n
      BY <2>2, <3>2, PageEnd
    <3> QED BY <1>3, <1>4, <3>1, <3>3
  <2> QED BY <2>1, <2>2
<1>5. CASE ListInvoices
  <2>1. QueryPaginated(Invoices, NextPage(DOMAIN Invoices))
    BY <1>5 DEF ListInvoices
  <2>2. DOMAIN Invoices \in SUBSET (1..a)
    BY <1>2, InvoicesAre
  <2> QED BY <1>3, <1>4, <2>1, <2>2
<1>6. CASE ListPayments
  <2> DEFINE S == {i \in DOMAIN Payments : Succeeded(Payments[i])}
  <2>1. QueryPaginated(Payments, NextPage(S))
    BY <1>6 DEF ListPayments
  <2>2. S \in SUBSET (1..b)
    <3>1. PICK d \in Nat : d <= b /\ DOMAIN Payments = 1..d
      BY <1>2, PaymentsAre
    <3>2. 1..d \subseteq 1..b
      BY <3>1
    <3> QED BY <3>1, <3>2
  <2> HIDE DEF S
  <2> QED BY <1>3, <1>4, <2>1, <2>2
<1>7. CASE ListForwards
  <2>1. QueryPaginated(req.forwards, NextPage(DOMAIN req.forwards))
    BY <1>7 DEF ListForwards
  <2>2. DOMAIN req.forwards \in SUBSET (1..c)
    <3>1. req.forwards \in Seq(LndForward)
      BY WorldFacts
    <3> QED BY <1>2, <3>1
  <2> QED BY <1>3, <1>4, <2>1, <2>2
<1>8. CASE Quiet \/ ChannelMoves
  BY <1>8 DEF Quiet, ChannelMoves, callVars
<1>9. CASE ListTransactions \/ ListSweeps \/ PendingChannels \/ OpenChannels \/ ClosedChannels
  BY <1>9 DEF ListTransactions, ListSweeps, PendingChannels, OpenChannels, ClosedChannels,
              AddChannels
<1> QED BY <1>5, <1>6, <1>7, <1>8, <1>9, StepKinds

Amounts(r) == \A i \in DOMAIN r : r[i].amount \in Nat

\* Amounts are not negative: the sign is the entry's credit.
LEMMA AmountsStep ==
  KeptWorld /\ TxnsInv /\ ListInv /\ ReportInv /\ Amounts(report) /\ [Next]_auditVars
    => Amounts(report')
<1> SUFFICES ASSUME KeptWorld, TxnsInv, ListInv, ReportInv, Amounts(report), [Next]_auditVars
             PROVE  Amounts(report')
  OBVIOUS
<1>1. CASE ListForwards
  <2>1. CASE LastPage(NextPage(DOMAIN req.forwards))
    <3>1. OffAnswerOf(invs, pays, Window, report')
      BY <1>1, <2>1, ForwardsAnswer
    <3>2. invs \in Seq(LndInvoice) /\ pays \in Seq(PaymentInfo)
      BY DEF ListInv
    <3> QED BY <3>1, <3>2, AnswerLayout DEF Amounts
  <2>2. CASE ~LastPage(NextPage(DOMAIN req.forwards))
    <3>1. report' = report
      BY <1>1, <2>2 DEF ListForwards, QueryPaginated
    <3> QED BY <3>1
  <2> QED BY <2>1, <2>2
<1>2. CASE ListSweeps
  <2> DEFINE ut == Utils(getCategories(req.cats, TRUE))
             sw == Sweeps
  <2>1. report' = onChainReport(txns, opened, closings, sw, ut)
    BY <1>2 DEF ListSweeps, OnChainEntries
  <2>2. FeesOf(wallet, ut)
    BY UtilsFees
  <2> HIDE DEF ut, sw
  <2>3. OnChainOf(wallet, txns, opened, closings, report')
    BY <2>1, <2>2 DEF OnChainOf
  <2>4. PICK u : report' \in Seq(OnEntry(u))
    BY <2>3, OnChainTyped
  <2>5. \A e \in OnEntry(u) : e.amount \in Nat
    BY EntryFacts
  <2> QED BY <2>4, <2>5 DEF Amounts
<1>3. CASE Quiet \/ ChannelMoves
  BY <1>3 DEF Quiet, ChannelMoves, callVars
<1>4. CASE ListTransactions \/ PendingChannels \/ OpenChannels \/ ClosedChannels
  BY <1>4 DEF ListTransactions, PendingChannels, OpenChannels, ClosedChannels, AddChannels
<1>5. CASE ListInvoices
  BY <1>5 DEF ListInvoices, InvoicesRead, QueryPaginated
<1>6. CASE ListPayments
  BY <1>6 DEF ListPayments, PaymentsRead, QueryPaginated
<1> QED BY <1>1, <1>2, <1>3, <1>4, <1>5, <1>6, StepKinds

\* The call goes from stage to stage.
LEMMA StageStep == stage \in Stages /\ [Next]_auditVars => stage' \in Stages
<1> SUFFICES ASSUME stage \in Stages, [Next]_auditVars PROVE stage' \in Stages
  OBVIOUS
<1>1. CASE Quiet \/ ChannelMoves
  BY <1>1 DEF Quiet, ChannelMoves, Early, Stages
<1>2. CASE ListTransactions \/ ListSweeps \/ PendingChannels \/ OpenChannels \/ ClosedChannels
  BY <1>2 DEF ListTransactions, ListSweeps, PendingChannels, OpenChannels, ClosedChannels, Stages
<1>3. CASE ListInvoices
  BY <1>3 DEF ListInvoices, InvoicesRead, QueryPaginated, Stages
<1>4. CASE ListPayments
  BY <1>4 DEF ListPayments, PaymentsRead, QueryPaginated, Stages
<1>5. CASE ListForwards
  BY <1>5 DEF ListForwards, ForwardsRead, QueryPaginated, Stages
<1> QED BY <1>1, <1>2, <1>3, <1>4, <1>5, StepKinds

\* What the types rest on.
TypesInv == SelfInv /\ Accepted /\ PricesCovered /\ TypeOK

\* The types hold at first.
LEMMA TypesInit == Init => TypesInv
<1> SUFFICES ASSUME Init PROVE TypesInv
  OBVIOUS
<1>1. SelfInv
  BY SelfInvInit
<1>2. PICK s \in Worlds :
        /\ stage = "idle" /\ initiator = s.initiator /\ moves = 0 /\ offset = 0
        /\ report = <<>> /\ InitRange /\ InitPrices /\ req = s.req
  BY DEF Init
<1>3. Accepted /\ PricesCovered
  <2>1. RequestOK /\ req.custom \in SUBSET Nat
    BY <1>2, AuditAssumption DEF RequestOK
  <2> QED BY <1>2, <2>1 DEF Accepted, PricesCovered, Fetching
<1>4. stage \in Stages /\ initiator \in Initiators /\ moves \in 0..MaxMoves
  <2>1. s.initiator \in Initiators /\ MaxMoves \in Nat
    BY AuditAssumption
  <2> QED BY <1>2, <2>1 DEF Stages
<1>5. phase \in Phases /\ opened \subseteq {"fund"} /\ DOMAIN closings \subseteq {"close"}
      /\ pay \in PayStates /\ KeptWorld /\ RangeInv
  BY <1>1 DEF SelfInv, AuditInv, TrackInv, PaymentsInv
<1>6. tip \in Heights /\ latest \in 0..tip /\ search \in {"idle", "start", "end", "done"}
  BY <1>5 DEF RangeInv, RangeType
<1>7. {low, high, startHeight, heights.start, heights.end} \subseteq 0..(Wrap - 1)
  BY <1>2, BlockAssumption DEF InitRange, AllHistory
<1>8. tries \in 0..(MaxRetries - 1) /\ points \subseteq Int
  BY <1>2, PriceAssumption DEF InitPrices
<1>9. offset \in 0..Max({Len(invoices), Len(payments) + 1, Len(req.forwards)})
  <2>1. PICK a \in Nat, b \in Nat, c \in Nat :
          a = Len(invoices) /\ b = Len(payments) + 1 /\ c = Len(req.forwards)
    <3>1. Len(invoices) \in Nat /\ Len(payments) \in Nat /\ Len(req.forwards) \in Nat
      BY <1>5, WorldFacts
    <3> QED BY <3>1
  <2>2. Max({a, b, c}) \in Nat
    BY MaxOfThree
  <2> QED BY <1>2, <2>1, <2>2
<1>10. \A i \in DOMAIN report : report[i].amount \in Nat
  BY <1>2
<1> QED BY <1>1, <1>3, <1>4, <1>5, <1>6, <1>7, <1>8, <1>9, <1>10 DEF TypesInv, TypeOK

\* Every step keeps the types.
LEMMA TypesStep == TypesInv /\ [Next]_auditVars => TypesInv'
<1> SUFFICES ASSUME TypesInv, [Next]_auditVars PROVE TypesInv'
  OBVIOUS
<1>1. SelfInv /\ AuditInv /\ Accepted /\ PricesCovered /\ TypeOK /\ PaymentsInv
  BY DEF TypesInv, SelfInv
<1>2. SelfInv' /\ AuditInv' /\ Accepted' /\ PricesCovered' /\ PaymentsInv'
  BY <1>1, SelfInvStep, AcceptedStep, PricesCoveredStep DEF SelfInv
<1>3. (phase \in Phases /\ opened \subseteq {"fund"} /\ DOMAIN closings \subseteq {"close"})'
  BY <1>2 DEF AuditInv, TrackInv
<1>4. (tip \in Heights /\ latest \in 0..tip /\ search \in {"idle", "start", "end", "done"})'
  BY <1>2 DEF AuditInv, RangeInv, RangeType
<1>5. (stage \in Stages)'
  BY <1>1, StageStep DEF TypeOK
<1>6. (pay \in PayStates /\ initiator \in Initiators /\ moves \in 0..MaxMoves)'
  <2>1. /\ pay' \in PayStates /\ initiator' = initiator
        /\ moves' = moves \/ (moves < MaxMoves /\ moves' = moves + 1)
    BY <1>1, PayStep DEF PaymentsInv
  <2>2. MaxMoves \in Nat
    BY AuditAssumption
  <2> QED BY <1>1, <2>1, <2>2 DEF TypeOK
<1>7. HeightsFit'
  <2>1. RangeInv /\ HeightsFit /\ [RangeNext]_<<chain, bsVars>>
    BY <1>1, StepIsRangeStep DEF AuditInv, TypeOK, HeightsFit
  <2> QED BY <2>1, HeightsStep
<1>8. (tries \in 0..(MaxRetries - 1) /\ points \subseteq Int)'
  <2>1. MaxRetries \in Nat \ {0}
    BY PriceAssumption
  <2>2. CASE UNCHANGED <<tries, points>>
    BY <1>1, <2>2 DEF TypeOK
  <2>3. CASE Fetching' /\ (tries' = 0 \/ (tries + 1 < MaxRetries /\ tries' = tries + 1))
    <3>1. tries' \in 0..(MaxRetries - 1)
      BY <1>1, <2>1, <2>3 DEF TypeOK
    <3>2. points' \subseteq Int
      BY <1>2, <2>3 DEF PricesCovered
    <3> QED BY <3>1, <3>2
  <2> QED BY <2>2, <2>3, FetchStep
<1>9. (offset \in 0..Longest)'
  <2>1. KeptWorld /\ pay \in PayStates /\ offset \in 0..Longest
    BY <1>1 DEF AuditInv, TypeOK, Longest
  <2>2. offset' \in 0..Longest /\ Longest' = Longest
    BY <2>1, OffsetStep
  <2> QED BY <2>2
<1>10. Amounts(report')
  BY <1>1, AmountsStep DEF AuditInv, TypeOK, Amounts
<1>11. TypeOK'
  BY <1>3, <1>4, <1>5, <1>6, <1>7, <1>8, <1>9, <1>10 DEF TypeOK, HeightsFit, Longest, Amounts
<1> QED BY <1>2, <1>11 DEF TypesInv

\* The types hold in every audit: heights fit their width where the search
\* wraps, no query is tried more often than maxRetries, pages stay within their
\* lists, and no entry has a negative amount (TypeOK).
THEOREM AuditTypes == Spec => []TypeOK
<1>1. TypesInv => TypeOK
  BY DEF TypesInv
<1> QED BY <1>1, TypesInit, TypesStep, PTL DEF Spec
=============================================================================
