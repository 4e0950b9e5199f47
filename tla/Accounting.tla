----------------------------- MODULE Accounting -----------------------------
(***************************************************************************)
(* The entries of an audit report (accounting): which of lnd's             *)
(* transactions, invoices, payments and forwards are reported, as what,    *)
(* and with which sign.  References, notes and the fiat value are left     *)
(* out; an entry carries the time of the price its value is computed from. *)
(*                                                                         *)
(* u is the entryUtils: price, the price point for every time; getFee, the *)
(* fee of every transaction, meaningful when hasFee; and categories.       *)
(***************************************************************************)
EXTENDS Integers, Sequences, FiniteSets, SequencesExt, Collections

CONSTANTS
  Own,     \* the node's public key
  None     \* no destination, no price

\* inRange: [start, end)
inRange(ts, w) == w.start <= ts /\ ts < w.end

Abs(n) == IF n < 0 THEN -n ELSE n

satsToMsat(sats) == sats * 1000

newHarmonyEntry(ts, amountMsat, type, txid, category, onChain, u) ==
  [time |-> ts, amount |-> Abs(amountMsat), credit |-> amountMsat >= 0, type |-> type,
   txid |-> txid, category |-> category, onChain |-> onChain, price |-> u.price[ts]]

\* What an entry does to the node's balance.
Signed(e) == IF e.credit THEN e.amount ELSE -e.amount

-----------------------------------------------------------------------------
(* Custom categories.  A pattern is the set of labels it matches.  *)

validateCustomCategories(cats) ==
  /\ \A i \in DOMAIN cats : cats[i].name # "" /\ (cats[i].onChain \/ cats[i].offChain)
  /\ \A i, j \in DOMAIN cats :
       \A m \in DOMAIN cats[i].patterns, n \in DOMAIN cats[j].patterns :
         cats[i].patterns[m] = cats[j].patterns[n] => i = j /\ m = n

getCategories(cats, onChain) ==
  ItemsAt(cats, {i \in DOMAIN cats : IF onChain THEN cats[i].onChain ELSE cats[i].offChain})

getCategory(label, categories) ==
  LET members == {i \in DOMAIN categories : label \in UNION ToSet(categories[i].patterns)}
  IN  IF members = {} THEN "" ELSE categories[CHOOSE i \in members :
                                                \A j \in members : i <= j].name

-----------------------------------------------------------------------------
(* On chain.  A transaction is [txid, amount, fee, time, conf, label, ours], *)
(* ours when all its inputs and outputs are.  Its amount includes the fee.    *)

\* Mutant of filtered: the fee stays in the amount.
filteredKeepsFee(tx, now) == [tx EXCEPT !.time = IF tx.conf = 0 THEN now ELSE @]

\* What filterOnChain makes of a transaction it keeps.
filtered(tx, now) ==
  [tx EXCEPT !.time   = IF tx.conf = 0 THEN now ELSE @,
             !.amount = IF @ < 0 THEN @ + tx.fee ELSE @]

InWindow(txns, w, now) ==
  ItemsAt(txns, {i \in DOMAIN txns : inRange(filtered(txns[i], now).time, w)})

\* ErrReceiveWithFee
ReceiveWithFee(txns, w, now) ==
  \E tx \in ToSet(InWindow(txns, w, now)) : tx.amount > 0 /\ tx.fee # 0

filterOnChain(txns, w, now) ==
  [i \in DOMAIN InWindow(txns, w, now) |-> filtered(InWindow(txns, w, now)[i], now)]

\* An on chain entry for tx.
txEntry(tx, amountMsat, type, u) ==
  newHarmonyEntry(tx.time, amountMsat, type, tx.txid,
                  getCategory(tx.label, u.categories), TRUE, u)

\* A negative amount is taken for a channel of ours.
channelOpenEntries(tx, u) ==
  IF tx.amount < 0
  THEN <<txEntry(tx, satsToMsat(tx.amount), "LocalChannelOpen", u),
         txEntry(tx, -satsToMsat(tx.fee), "ChannelOpenFee", u)>>
  ELSE <<txEntry(tx, satsToMsat(tx.amount), "RemoteChannelOpen", u)>>

\* The fee of a transaction that spends a channel is looked up, if there is a
\* bitcoin node to ask.
closedChannelEntries(initiator, tx, u) ==
  LET close == txEntry(tx, satsToMsat(tx.amount), "ChannelClose", u)
  IN  IF initiator = "local" /\ u.hasFee
      THEN <<close, txEntry(tx, -satsToMsat(u.getFee[tx.txid]), "ChannelCloseFee", u)>>
      ELSE <<close>>

sweepEntries(tx, u) ==
  LET sweep == txEntry(tx, satsToMsat(tx.amount), "Sweep", u)
  IN  IF u.hasFee
      THEN <<sweep, txEntry(tx, -satsToMsat(u.getFee[tx.txid]), "SweepFee", u)>>
      ELSE <<sweep>>

isUtxoManagementTx(tx) == tx.ours

createOnchainFeeEntry(tx, u) == txEntry(tx, -satsToMsat(tx.fee), "Fee", u)

onChainEntries(tx, u) ==
  IF tx.amount = 0
  THEN IF isUtxoManagementTx(tx) THEN <<createOnchainFeeEntry(tx, u)>> ELSE <<>>
  ELSE LET entry == txEntry(tx, satsToMsat(tx.amount),
                            IF tx.amount < 0 THEN "Payment" ELSE "Receipt", u)
       IN  IF tx.fee = 0 THEN <<entry>> ELSE <<entry, createOnchainFeeEntry(tx, u)>>

\* opened: the txids of channel openings; closings: txid of a close -> who
\* opened the channel; sweeps: txids.
EntriesOf(tx, opened, closings, sweeps, u) ==
  CASE tx.txid \in opened -> channelOpenEntries(tx, u)
    [] tx.txid \notin opened /\ tx.txid \in DOMAIN closings ->
         closedChannelEntries(closings[tx.txid], tx, u)
    [] tx.txid \notin opened \cup DOMAIN closings /\ tx.txid \in sweeps -> sweepEntries(tx, u)
    [] OTHER -> onChainEntries(tx, u)

onChainReport(txns, opened, closings, sweeps, u) ==
  FlattenSeq([i \in DOMAIN txns |-> EntriesOf(txns[i], opened, closings, sweeps, u)])

-----------------------------------------------------------------------------
(* Off chain. *)

filterInvoices(invoices, w) ==
  ItemsAt(invoices, {i \in DOMAIN invoices : /\ invoices[i].state = "settled"
                                            /\ inRange(invoices[i].settle, w)})

\* Mutant of paymentHtlcDestination: only payment requests are looked at.
paymentHtlcDestinationIgnored(p) == None

\* A payment is [hash, amount, fee, state, payReq, htlcs]: payReq the destination
\* of its payment request or None, an htlc [ok, time, dest], dest None when its
\* route has no hop.
paymentHtlcDestination(p) == IF p.htlcs = <<>> THEN None ELSE p.htlcs[1].dest

\* The latest of the successful htlcs'.
settleTime(p) == Max({0} \cup {h.time : h \in {x \in ToSet(p.htlcs) : x.ok}})

\* The htlcs' destination is preferred to the payment request's.
preProcessPayments(payments) ==
  [i \in DOMAIN payments |->
     LET p == payments[i]
     IN  [hash |-> p.hash, amount |-> p.amount, fee |-> p.fee, state |-> p.state,
          destination |-> IF paymentHtlcDestination(p) # None
                          THEN paymentHtlcDestination(p) ELSE p.payReq,
          settleTime  |-> IF p.state = "succeeded" THEN settleTime(p) ELSE 0]]

filterPayments(infos, w) ==
  ItemsAt(infos, {i \in DOMAIN infos : /\ infos[i].state = "succeeded"
                                      /\ inRange(infos[i].settleTime, w)})

\* In flight payments count too: their invoice may be settled already.
getCircularPayments(infos) == {p.hash : p \in {q \in ToSet(infos) : q.destination = Own}}

\* errDifferentDuplicates.  Only a payment to ourselves is remembered, so one
\* to another node is noticed only when it comes later.
DifferentDuplicates(infos) ==
  \E i, j \in DOMAIN infos :
    /\ i < j /\ infos[i].hash = infos[j].hash
    /\ infos[i].destination = Own /\ infos[j].destination \notin {Own, None}

\* errDuplicatesNotSupported
sanityCheckDuplicates(infos) ==
  \A i, j \in DOMAIN infos : infos[i].hash = infos[j].hash => i = j

\* An invoice carries its memo as label.
invoiceEntry(i, circular, u) ==
  newHarmonyEntry(i.settle, i.amount, IF circular THEN "CircularReceipt" ELSE "Receipt",
                  i.hash, getCategory(i.label, u.categories), FALSE, u)

paymentEntry(p, paidToSelf, u) ==
  LET entry == newHarmonyEntry(p.settleTime, -p.amount,
                 IF paidToSelf THEN "CircularPayment" ELSE "Payment", p.hash, "", FALSE, u)
      fee   == newHarmonyEntry(p.settleTime, -p.fee,
                 IF paidToSelf THEN "CircularPaymentFee" ELSE "Fee", p.hash, "", FALSE, u)
  IN  IF p.fee = 0 THEN <<entry>> ELSE <<entry, fee>>

\* A forward moves funds between our channels: only its fee counts.
forwardingEntry(f, u) ==
  LET entry == newHarmonyEntry(f.time, 0, "Forward", "", "", FALSE, u)
      fee   == newHarmonyEntry(f.time, f.fee, "ForwardFee", "", "", FALSE, u)
  IN  IF f.fee = 0 THEN <<entry>> ELSE <<entry, fee>>

offChainReport(invoices, payments, circular, forwards, u) ==
  [i \in DOMAIN invoices |-> invoiceEntry(invoices[i], invoices[i].hash \in circular, u)]
  \o FlattenSeq([i \in DOMAIN payments |->
                   paymentEntry(payments[i], payments[i].hash \in circular, u)])
  \o FlattenSeq([i \in DOMAIN forwards |-> forwardingEntry(forwards[i], u)])

-----------------------------------------------------------------------------
(* The answer: the entries in the order of their times, stably. *)

rpcReportResponse(report) ==
  LET Rank(i) == Cardinality({j \in DOMAIN report :
                                \/ report[j].time < report[i].time
                                \/ report[j].time = report[i].time /\ j <= i})
  IN  [k \in DOMAIN report |-> report[CHOOSE i \in DOMAIN report : Rank(i) = k]]
=============================================================================
