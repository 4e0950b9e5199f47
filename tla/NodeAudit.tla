----------------------------- MODULE NodeAudit ------------------------------
(***************************************************************************)
(* The NodeAudit and ExchangeRate calls (frdrpcserver/rpcserver.go): an    *)
(* audit finds its block heights, fetches prices, reads lnd's transactions,*)
(* channels in each state, sweeps, invoices, payments and forwards one     *)
(* call after the other, and reports them; ExchangeRate only fetches       *)
(* prices.  In between lnd moves on: a channel opens and closes, a payment *)
(* of the node to itself is dispatched, settles its invoice and succeeds.  *)
(*                                                                         *)
(* lnd moves from the first of its lists on that is read; what happens     *)
(* before is covered by the choice of the initial state.                   *)
(***************************************************************************)
EXTENDS BlockRange, Prices, Accounting

CONSTANTS
  Worlds,      \* the node's initial states, each with the request it gets
  Page,        \* maxInvoiceQueries, maxPaymentQueries, maxForwardQueries
  MaxMoves     \* bound: steps of the channel and of the payment

\* A channel is waiting for a cooperative close ("coop") or for a commitment
\* ("closing") to confirm, or has outputs of a confirmed commitment to resolve.
Phases     == {"none", "opening", "open", "coop", "closing", "forced", "closed"}
Initiators == {"local", "remote", "unknown"}

\* A self-payment is dispatched, has an htlc, its invoice is settled, succeeds.
PayStates == 0..4

\* What lnd lists: the wallet's transactions, with the fee that the chain knows
\* and 0 for the height of one that is not mined, invoices, payments, forwards.
Nodes      == {None, Own} \cup STRING
WalletTx   == [txid : STRING, amount : Int, fee : Nat, chainFee : Nat, height : Nat,
               label : STRING, ours : BOOLEAN]
LndInvoice == [hash : STRING, amount : Nat, settle : Nat, label : STRING,
               state : {"open", "accepted", "settled", "canceled"}]
LndPayment == [hash : STRING, amount : Nat, fee : Nat, payReq : Nodes,
               state : {"inflight", "succeeded", "failed"},
               htlcs : Seq([ok : BOOLEAN, time : Nat, dest : Nodes])]
LndForward == [time : Nat, fee : Nat]

\* lnd gives a fee with what it spends only, a channel is worth more than the
\* fee of its funding, and lnd has one invoice for a payment hash.
ASSUME AuditAssumption ==
  /\ \A s \in Worlds : /\ s.chain \in Chains /\ s.tip \in Heights
                       /\ s.phase \in Phases /\ s.initiator \in Initiators
                       /\ s.pay \in PayStates
                       /\ s.req.start \in Nat /\ s.req.end \in Nat /\ s.req.custom \subseteq Nat
                       /\ s.wallet \in Seq(WalletTx) /\ s.req.forwards \in Seq(LndForward)
                       /\ s.invoices \in Seq(LndInvoice) \ {<<>>} /\ s.payments \in Seq(LndPayment)
                       /\ \A i, j \in DOMAIN s.wallet :
                            s.wallet[i].txid = s.wallet[j].txid => i = j
                       /\ \A i, j \in DOMAIN s.invoices :
                            s.invoices[i].hash = s.invoices[j].hash => i = j
                       /\ \A i \in DOMAIN s.invoices : s.invoices[i].hash # ""
                       /\ \A tx \in ToSet(s.wallet) :
                            /\ tx.amount = 0 => tx.fee = 0
                            /\ tx.txid = "fund" /\ tx.amount < 0 => tx.amount + tx.fee < 0
  /\ Page \in Nat \ {0} /\ MaxMoves \in Nat
  /\ None # Own

VARIABLES
  req,        \* the request
  stage,      \* where the call is
  phase,      \* lnd: the channel,
  initiator,  \*      who opened it,
  wallet,     \*      the wallet's transactions,
  invoices,   \*      invoices, oldest first, the self-payment's the first,
  payments,   \*      older payments,
  pay,        \*      and the payment to ourselves, the newest
  moves,      \* spent bound
  txns,       \* info.txns
  opened,     \* info.openedChannels: txids
  closings,   \* info.closedChannels: txid -> initiator
  report,     \* the entries so far, at last the response
  offset,     \* QueryPaginated's offset
  listed,     \* the items of the list being read
  invs, pays, \* filteredInvoices; the processed payments
  seen        \* history: the channel's phase when each list was read

world    == <<phase, initiator, wallet, invoices, payments, pay, moves>>
callVars == <<req, txns, opened, closings, report, offset, listed, invs, pays, seen>>
auditVars == <<chain, bsVars, priceVars, world, stage, callVars>>

-----------------------------------------------------------------------------
(* lnd (external). *)

Reading == stage \in {"txns", "pending", "open", "closed", "sweeps", "invoices", "payments"}

Moves(from) ==
  CASE from = "opening" -> {"open"}
    [] from = "open"    -> {"coop", "closing", "forced"}
    [] from = "coop"    -> {"closed"}
    [] from = "closing" -> {"forced", "closed"}
    [] from = "forced"  -> {"closed"}
    [] OTHER            -> {}

ChannelMoves ==
  /\ Reading /\ moves < MaxMoves
  /\ phase' \in Moves(phase)
  /\ moves' = moves + 1
  /\ UNCHANGED <<initiator, wallet, invoices, payments, pay, chain, bsVars, priceVars,
                 stage, callVars>>

PaymentMoves ==
  /\ Reading /\ moves < MaxMoves
  /\ pay < 4 /\ pay' = pay + 1
  /\ moves' = moves + 1
  /\ UNCHANGED <<phase, initiator, wallet, invoices, payments, chain, bsVars, priceVars,
                 stage, callVars>>

BlockMined ==
  /\ stage \in {"search", "txns"}
  /\ Mine
  /\ UNCHANGED <<priceVars, world, stage, callVars>>

\* "fund", "close" and "sweep" are the channel's transactions.
InWallet(tx) ==
  CASE tx.txid = "fund"  -> phase # "none"
    [] tx.txid = "close" -> phase \in {"coop", "closing", "forced", "closed"}
    [] tx.txid = "sweep" -> phase \in {"forced", "closed"}
    [] OTHER             -> TRUE

Mined(tx) == tx.height \in 1..tip

\* ListTransactions; unconfirmed ones come without an upper limit only.
Transactions ==
  LET shown == ItemsAt(wallet, {i \in DOMAIN wallet :
                 /\ InWallet(wallet[i])
                 /\ IF Mined(wallet[i]) THEN Queried(wallet[i].height) ELSE heights.end = 0})
  IN  [i \in DOMAIN shown |->
         [txid |-> shown[i].txid, amount |-> shown[i].amount, fee |-> shown[i].fee,
          time |-> IF Mined(shown[i]) THEN blockTime[shown[i].height] ELSE 0,
          conf |-> IF Mined(shown[i]) THEN 1 ELSE 0,
          label |-> shown[i].label, ours |-> shown[i].ours]]

\* ListInvoices: the first is settled by the payment to ourselves.
Invoices == [invoices EXCEPT ![1].state = IF pay >= 3 THEN "settled" ELSE "open"]

SelfHash == invoices[1].hash

SelfPayment ==
  [hash |-> SelfHash, amount |-> invoices[1].amount, fee |-> 1, payReq |-> None,
   state |-> IF pay = 4 THEN "succeeded" ELSE "inflight",
   htlcs |-> IF pay < 2 THEN <<>>
             ELSE <<[ok |-> pay = 4, time |-> invoices[1].settle + 1, dest |-> Own]>>]

\* ListPayments: without IncludeIncomplete lnd shows succeeded payments only.
Payments == IF pay = 0 THEN payments ELSE Append(payments, SelfPayment)
Succeeded(p) == p.state = "succeeded"

-----------------------------------------------------------------------------
(* parseNodeAuditRequest. *)

Window == [start |-> req.start, end |-> IF req.end = 0 THEN Now ELSE req.end]

Refused == \/ Window.start > Window.end
           \/ BadPriceRequest(req.backend, req.gran, req.custom, Window)
           \/ ~validateCustomCategories(req.cats)

\* Nothing but the stage changes.
To(s) == stage' = s /\ UNCHANGED <<chain, bsVars, priceVars, world, callVars>>

Fail == To("failed")

AuditBegins ==
  /\ stage = "idle" /\ req.kind = "audit"
  /\ ~Refused
  /\ BeginLookup(Window, req.start > 0 \/ req.end > 0)
  /\ stage' = "search"
  /\ UNCHANGED <<priceVars, world, callVars>>

AuditRefused ==
  /\ stage = "idle" /\ req.kind = "audit"
  /\ Refused
  /\ Fail

SearchHeights == stage = "search" /\ LookupStep /\ UNCHANGED <<priceVars, world, stage, callVars>>

-----------------------------------------------------------------------------
(* getConversion, once for each half of the report, and ExchangeRate. *)

\* The price source can be asked for w.
CanAsk(c, w) == ValidConfig(c) /\ ValidRange(w)

RequestCfg == priceCfgFromRPC(req.backend, req.gran, req.custom, Window)

BeforePrices == (stage = "search" /\ search = "done") \/ stage = "offchain"

AskPrices ==
  /\ BeforePrices /\ ~req.disable
  /\ CanAsk(RequestCfg, Window)
  /\ BeginPrices(RequestCfg, Window)
  /\ stage' = IF stage = "search" THEN "prices" ELSE "prices2"
  /\ UNCHANGED <<chain, bsVars, world, callVars>>

CannotAsk ==
  /\ BeforePrices /\ ~req.disable
  /\ ~CanAsk(RequestCfg, Window)
  /\ Fail

WithoutPrices ==
  /\ BeforePrices /\ req.disable
  /\ To(IF stage = "search" THEN "txns" ELSE "invoices")

\* ExchangeRate: the window is given by the first and the last timestamp.
RatesBegin ==
  /\ stage = "idle" /\ req.kind = "rates"
  /\ LET w == [start |-> req.start, end |-> req.end]
     IN  IF BadPriceRequest(req.backend, req.gran, req.custom, w)
            \/ ~CanAsk(priceCfgFromRPC(req.backend, req.gran, req.custom, w), w)
         THEN Fail
         ELSE /\ BeginPrices(priceCfgFromRPC(req.backend, req.gran, req.custom, w), w)
              /\ stage' = "rates"
              /\ UNCHANGED <<chain, bsVars, world, callVars>>

Fetching == stage \in {"prices", "prices2", "rates"}

\* One attempt of one query.
Fetch ==
  /\ Fetching /\ todo # <<>>
  /\ (QueryOk \/ QueryRetry)
  /\ UNCHANGED <<chain, bsVars, world, stage, callVars>>

\* Each failed attempt is followed by a pause, which ends early when the caller
\* is gone; the last one ends the call.
FetchFails == Fetching /\ todo # <<>> /\ Fail

\* A report goes on; rates are looked up and answered, if each has a price.
Fetched ==
  /\ Fetching /\ todo = <<>>
  /\ To(CASE stage = "prices"  -> "txns"
          [] stage = "prices2" -> "invoices"
          [] stage = "rates"   -> IF HasPrice(points, span.start) THEN "done" ELSE "failed")

-----------------------------------------------------------------------------
(* OnChainReport. *)

\* entryUtils; with DisableFiat every price is zero.
Utils(categories) ==
  [price      |-> [t \in 0..(Now + Day) |->
                     IF req.disable THEN 0 ELSE IF HasPrice(points, t) THEN GetPrice(points, t)
                     ELSE None],
   hasFee     |-> req.node,
   getFee     |-> [id \in {tx.txid : tx \in ToSet(wallet)} |->
                     (CHOOSE tx \in ToSet(wallet) : tx.txid = id).chainFee],
   categories |-> categories]

ListTransactions ==
  /\ stage = "txns"
  /\ ~ReceiveWithFee(Transactions, Window, Now)
  /\ txns' = filterOnChain(Transactions, Window, Now)
  /\ stage' = IF txns' = <<>> THEN "offchain" ELSE "pending"
  /\ seen' = [seen EXCEPT !.txns = phase]
  /\ UNCHANGED <<chain, bsVars, priceVars, world, req, opened, closings, report, offset, listed,
                 invs, pays>>

ErrReceiveWithFee == stage = "txns" /\ ReceiveWithFee(Transactions, Window, Now) /\ Fail

\* What a list of channels adds to the info: the channel's opening, when it is
\* in one of the first phases, and its closing, when in one of the second.
AddChannels(openings, closes) ==
  /\ opened' = IF phase \in openings THEN opened \cup {"fund"} ELSE opened
  /\ closings' = IF phase \in closes THEN [id \in {"close"} |-> initiator] ELSE closings
  /\ UNCHANGED <<chain, bsVars, priceVars, world, req, txns, report, offset, listed, invs, pays>>

\* Mutant of PendingChannels: channels waiting for their close are left out.
PendingChannelsNoWaiting ==
  /\ stage = "pending"
  /\ AddChannels({"opening", "forced"}, {"forced"})
  /\ seen' = [seen EXCEPT !.pending = phase]
  /\ stage' = "open"

\* Pending openings, force closes, and waiting closes with the commitments as
\* the candidates for their closing transaction: a cooperative close is none.
PendingChannels ==
  /\ stage = "pending"
  /\ AddChannels({"opening", "coop", "closing", "forced"}, {"closing", "forced"})
  /\ seen' = [seen EXCEPT !.pending = phase]
  /\ stage' = "open"

OpenChannels ==
  /\ stage = "open"
  /\ AddChannels({"open"}, {})
  /\ seen' = [seen EXCEPT !.open = phase]
  /\ stage' = "closed"

ClosedChannels ==
  /\ stage = "closed"
  /\ AddChannels({"closed"}, {"closed"})
  /\ seen' = [seen EXCEPT !.closed = phase]
  /\ stage' = "sweeps"

\* ListSweeps, from the start height on, and the report.  It fails when a fee
\* cannot be looked up or an entry has no price.
Sweeps == {tx.txid : tx \in {t \in ToSet(wallet) : /\ t.txid = "sweep" /\ InWallet(t)
                                                   /\ ~Mined(t) \/ heights.start <= t.height}}

OnChainEntries ==
  onChainReport(txns, opened, closings, Sweeps, Utils(getCategories(req.cats, TRUE)))

Priced(entries) == \A i \in DOMAIN entries : entries[i].price # None

ListSweeps ==
  /\ stage = "sweeps"
  /\ Priced(OnChainEntries)
  /\ report' = OnChainEntries
  /\ stage' = "offchain"
  /\ UNCHANGED <<chain, bsVars, priceVars, world, req, txns, opened, closings, offset, listed,
                 invs, pays, seen>>

-----------------------------------------------------------------------------
(* OffChainReport.  Lists are read page by page (lndwrap, paginater). *)

\* One answer: the first indexes after the offset, of those the call asks for.
NextPage(indexes) ==
  LET after == InOrder({i \in indexes : i > offset})
  IN  SubSeq(after, 1, Min({Page, Len(after)}))

LastPage(page) == Len(page) < Page

Gathered(list, page) == listed \o [i \in DOMAIN page |-> list[page[i]]]

\* QueryPaginated, one page of list: the report goes on after the last, a short one.
QueryPaginated(list, page) ==
  /\ IF LastPage(page)
     THEN offset' = 0 /\ listed' = <<>>
     ELSE offset' = Last(page) /\ listed' = Gathered(list, page)
          /\ UNCHANGED <<stage, invs, pays, report, seen>>
  /\ UNCHANGED <<chain, bsVars, priceVars, world, req, txns, opened, closings>>

InvoicesRead(all) ==
  /\ invs' = filterInvoices(all, Window)
  /\ stage' = "payments"
  /\ UNCHANGED <<pays, report, seen>>

ListInvoices ==
  LET page == NextPage(DOMAIN Invoices)
  IN  /\ stage = "invoices"
      /\ LastPage(page) => InvoicesRead(Gathered(Invoices, page))
      /\ QueryPaginated(Invoices, page)

PaymentsRead(all) ==
  LET infos == preProcessPayments(all)
  IN  /\ pays' = infos
      /\ stage' = IF DifferentDuplicates(infos)
                     \/ ~sanityCheckDuplicates(filterPayments(infos, Window))
                  THEN "failed" ELSE "forwards"
      /\ seen' = [seen EXCEPT !.pay = pay]
      /\ UNCHANGED <<invs, report>>

\* lnd is asked for completed payments only.
ListPayments ==
  LET page == NextPage({i \in DOMAIN Payments : Succeeded(Payments[i])})
  IN  /\ stage = "payments"
      /\ LastPage(page) => PaymentsRead(Gathered(Payments, page))
      /\ QueryPaginated(Payments, page)

\* The last list, and the answer.
ForwardsRead(all) ==
  LET entries == offChainReport(invs, filterPayments(pays, Window), getCircularPayments(pays),
                                all, Utils(getCategories(req.cats, FALSE)))
  IN  /\ report' = rpcReportResponse(report \o entries)
      /\ stage' = IF Priced(entries) THEN "done" ELSE "failed"
      /\ UNCHANGED <<invs, pays, seen>>

ListForwards ==
  LET page == NextPage(DOMAIN req.forwards)
  IN  /\ stage = "forwards"
      /\ LastPage(page) => ForwardsRead(Gathered(req.forwards, page))
      /\ QueryPaginated(req.forwards, page)

\* A call to lnd (the first is GetInfo) or to the bitcoin node fails, or the
\* caller is gone.
CallFails ==
  /\ Reading \/ stage = "forwards" \/ (stage = "idle" /\ req.kind = "audit")
  /\ Fail

-----------------------------------------------------------------------------

Init ==
  \E s \in Worlds :
    /\ blockTime = s.chain /\ tip = s.tip /\ InitRange
    /\ InitPrices
    /\ req = s.req /\ stage = "idle"
    /\ phase = s.phase /\ initiator = s.initiator /\ wallet = s.wallet
    /\ invoices = s.invoices /\ payments = s.payments /\ pay = s.pay /\ moves = 0
    /\ txns = <<>> /\ opened = {} /\ closings = [id \in {} |-> "unknown"]
    /\ report = <<>> /\ offset = 0 /\ listed = <<>> /\ invs = <<>> /\ pays = <<>>
    /\ seen = [txns |-> "none", pending |-> "none", open |-> "none", closed |-> "none", pay |-> 0]

Finished == stage \in {"done", "failed"} /\ UNCHANGED auditVars

Next ==
  \/ ChannelMoves \/ PaymentMoves \/ BlockMined
  \/ AuditBegins \/ AuditRefused \/ SearchHeights
  \/ AskPrices \/ CannotAsk \/ WithoutPrices \/ RatesBegin
  \/ Fetch \/ FetchFails \/ Fetched
  \/ ListTransactions \/ ErrReceiveWithFee
  \/ PendingChannels \/ OpenChannels \/ ClosedChannels \/ ListSweeps
  \/ ListInvoices \/ ListPayments \/ ListForwards
  \/ CallFails \/ Finished

Spec == Init /\ [][Next]_auditVars

-----------------------------------------------------------------------------
(* Correctness. *)

Audited == stage = "done" /\ req.kind = "audit"

Stages == {"idle", "search", "prices", "txns", "pending", "open", "closed", "sweeps", "offchain",
           "prices2", "invoices", "payments", "forwards", "rates", "done", "failed"}

\* The types of the call's and lnd's state.
TypeOK ==
  /\ stage \in Stages
  /\ phase \in Phases /\ initiator \in Initiators
  /\ pay \in PayStates /\ moves \in 0..MaxMoves
  /\ tip \in Heights /\ latest \in 0..tip
  /\ search \in {"idle", "start", "end", "done"}
  /\ {low, high, startHeight, heights.start, heights.end} \subseteq 0..(Wrap - 1)
  /\ tries \in 0..(MaxRetries - 1) /\ points \subseteq Int
  /\ opened \subseteq {"fund"} /\ DOMAIN closings \subseteq {"close"}
  /\ offset \in 0..Max({Len(invoices), Len(payments) + 1, Len(req.forwards)})
  /\ \A i \in DOMAIN report : report[i].amount \in Nat

\* PricesFresh: once a window's queries are answered, across their seams, their
\* retries and the edges of the window, each of its times has a price that is
\* not later and no older than the backend's granularity (GetPrice "expects ...
\* the first timestamp in the price data to be before any timestamp").
PricesFresh == (Fetching /\ todo = <<>>) => WindowPriced

\* The channel left the open list after the pending one was read, and had not
\* reached the closed one when that was read: it was in none of the three.
Slipped == /\ seen.pending = "open" /\ seen.open \in {"coop", "closing", "forced"}
           /\ seen.closed # "closed"

\* A cooperative close had not been done with when the closed channels were read.
CoopWaiting == seen.closed = "coop"

TypesOf(txid) == {report[i].type : i \in {j \in DOMAIN report : report[j].onChain
                                                             /\ report[j].txid = txid}}

OpenTypes  == {"LocalChannelOpen", "RemoteChannelOpen", "ChannelOpenFee"}
CloseTypes == {"ChannelClose", "ChannelCloseFee"}

\* ChannelTxsRecognised: however the channel moves while its lists are read one
\* after the other, a funding transaction in the report is an opening of a
\* channel, and a closing one is a close, never a payment or a receipt
\* (getOnChainInfo, "so that we do not miss channel transactions"), unless it
\* Slipped past the lists, or its close is cooperative and still CoopWaiting.
ChannelTxsRecognised ==
  Audited => /\ Slipped \/ TypesOf("fund") \subseteq OpenTypes
             /\ CoopWaiting \/ TypesOf("close") \subseteq CloseTypes

\* What the report says a transaction did.
Reported(txid) ==
  MapThenSumSet(LAMBDA i : Signed(report[i]),
                {i \in DOMAIN report : report[i].onChain /\ report[i].txid = txid})

\* A fee that is looked up, and not part of the wallet's amount.
LookedUp(txid) ==
  IF TypesOf(txid) \cap {"ChannelCloseFee", "SweepFee"} = {} THEN 0
  ELSE (CHOOSE tx \in ToSet(wallet) : tx.txid = txid).chainFee

\* Only its fee, and to an output that is not ours: reported as nothing at all.
FeeOnlyToOthers(tx) == tx.amount + tx.fee = 0 /\ ~tx.ours

\* BalanceKept: the entries of a transaction of the window, taken with their
\* signs, add up to what the wallet says it did; fees are counted once, whether
\* they are part of the amount (filterOnChain) or looked up (a close, a sweep).
\* A sweep whose fee cannot be looked up is reported without it.
BalanceKept ==
  Audited =>
    \A i \in DOMAIN wallet :
      LET tx == wallet[i]
      IN  (/\ tx.height \in 1..latest /\ inRange(blockTime[tx.height], Window)
           /\ \E j \in DOMAIN txns : txns[j].txid = tx.txid) =>
            \/ FeeOnlyToOthers(tx)
            \/ TypesOf(tx.txid) \cap {"Sweep", "ChannelClose"} = {}
               /\ Reported(tx.txid) = satsToMsat(tx.amount)
            \/ TypesOf(tx.txid) \cap {"Sweep", "ChannelClose"} # {}
               /\ Reported(tx.txid) = satsToMsat(tx.amount + tx.fee - LookedUp(tx.txid))

OffTypes(hash) == {report[i].type : i \in {j \in DOMAIN report : ~report[j].onChain
                                                              /\ report[j].txid = hash}}

Receipts(hash) == {i \in DOMAIN report : ~report[i].onChain /\ report[i].txid = hash
                                         /\ report[i].type \in {"Receipt", "CircularReceipt"}}

Circular == {"CircularReceipt", "CircularPayment", "CircularPaymentFee"}

\* The payment request of p, or one of its routes, leads to us.
ToOurselves(p) == p.payReq = Own \/ \E h \in ToSet(p.htlcs) : h.dest = Own

\* SelfPaymentsRecognised: a settled invoice is reported once, however the lists
\* are paged; the one our own payment settled is a circular receipt, and that
\* payment a circular payment, even if the payment itself is outside the window,
\* provided it had succeeded when payments were read; and nothing is circular
\* but for a payment to ourselves.
SelfPaymentsRecognised ==
  Audited =>
    /\ \A i \in DOMAIN invoices :
         (i > 1 /\ invoices[i].state = "settled" /\ inRange(invoices[i].settle, Window))
           => Cardinality(Receipts(invoices[i].hash)) = 1
    /\ seen.pay = 4 => OffTypes(SelfHash) \subseteq Circular
    /\ \A i \in DOMAIN report : report[i].type \in Circular =>
         \/ pay = 4 /\ report[i].txid = SelfHash
         \/ \E p \in ToSet(payments) : p.hash = report[i].txid /\ ToOurselves(p)
=============================================================================
