---------------------------- MODULE CloseReports ----------------------------
(***************************************************************************)
(* CloseReport (resolutions, fees) and the bitcoin client it asks          *)
(* (chain/client.go), beside the calls of ChannelReports: any number of    *)
(* callers at once, which share the client's cache of transactions.  A     *)
(* lookup takes the lock to read the cache, asks the node without it, and  *)
(* takes it again to store a confirmed transaction.                        *)
(*                                                                         *)
(* Amounts are in satoshis; a transaction is [vin, vout], vin a sequence   *)
(* of [txid, vout], vout a sequence of amounts.                            *)
(***************************************************************************)
EXTENDS ChannelReports

CONSTANTS
  Callers,    \* concurrent CloseReport calls
  Nobody      \* the channel of a caller that does not call

\* What the inputs of a transaction are worth, less what its outputs are.
FeeOf(t, id) ==
  AddUp([i \in DOMAIN t[id].vin |-> t[t[id].vin[i].txid].vout[t[id].vin[i].vout]])
    - AddUp(t[id].vout)

\* A call asks for a channel that lnd knows the funding of, and no transaction
\* pays out more than it spends (a rule of bitcoin).
ASSUME CloseAssumption ==
  \A s \in Worlds :
    /\ s.confirmed \subseteq DOMAIN s.txs
    /\ IsFiniteSet(DOMAIN s.funded)
    /\ \A k \in Callers : s.asks[k] = Nobody \/ s.asks[k] \in Channels \cap DOMAIN s.funded
    /\ \A c \in DOMAIN s.funded :
         /\ {s.funded[c].txid, s.funded[c].closeTx} \subseteq DOMAIN s.txs
         /\ s.txs[s.funded[c].txid].vout \in Seq(Nat)
         /\ {FeeOf(s.txs, s.funded[c].txid), FeeOf(s.txs, s.funded[c].closeTx)} \subseteq Nat

VARIABLES
  txs,        \* the bitcoin node: its transactions, never changing,
  confirmed,  \*      and which of them are in a block
  hasNode,    \* faraday was given a bitcoin node
  funded,     \* lnd: [txid, vout, initiator, type, closeTx] of each channel
  walletTxs,  \*      the wallet's transactions
  cache,      \* txDetailCache: the txids stored
  call        \* caller -> [chan, stage, lookups, tx, result]

chainVars == <<txs, confirmed, hasNode, funded, walletTxs>>
closeVars == <<chainVars, cache, call>>
vars      == <<lndVars, reportVars, closeVars>>

NoReport == [initiator |-> FALSE, openFee |-> 0, closeFee |-> 0]

Called(k, st) == call[k].stage = st

\* The caller moves on, and nothing else changes.
Goto(k, st) ==
  /\ call' = [call EXCEPT ![k].stage = st]
  /\ UNCHANGED <<lndVars, reportVars, chainVars, cache>>

-----------------------------------------------------------------------------
(* bitcoinClient.GetTxDetail, for the first of a call's lookups. *)

Wanted(k) == Head(call[k].lookups)

\* The cache has it.
CacheHit(k) ==
  /\ Called(k, "lookup") /\ Wanted(k) \in cache
  /\ call' = [call EXCEPT ![k].stage = "got"]
  /\ UNCHANGED <<lndVars, reportVars, chainVars, cache>>

CacheMiss(k) ==
  /\ Called(k, "lookup") /\ Wanted(k) \notin cache
  /\ Goto(k, "ask")

\* GetRawTransactionVerbose answers; tx is whether it had confirmed by then.
NodeAnswers(k) ==
  /\ Called(k, "ask") /\ Wanted(k) \in DOMAIN txs
  /\ call' = [call EXCEPT ![k].stage = "store", ![k].tx = Wanted(k) \in confirmed]
  /\ UNCHANGED <<lndVars, reportVars, chainVars, cache>>

\* Mutant of Store: unconfirmed transactions are cached as well.
StoreAny(k) ==
  /\ Called(k, "store")
  /\ cache' = cache \cup {Wanted(k)}
  /\ call' = [call EXCEPT ![k].stage = "got"]
  /\ UNCHANGED <<lndVars, reportVars, chainVars>>

\* Only a confirmed transaction is stored.
Store(k) ==
  /\ Called(k, "store")
  /\ cache' = IF call[k].tx THEN cache \cup {Wanted(k)} ELSE cache
  /\ call' = [call EXCEPT ![k].stage = "got"]
  /\ UNCHANGED <<lndVars, reportVars, chainVars>>

\* lnd's list of closed channels cannot be read, the node fails or does not know
\* the transaction, or the caller is gone.
LookupFails(k) == (Called(k, "idle") \/ Called(k, "ask")) /\ Goto(k, "failed")

\* A transaction confirms (external).
Confirms ==
  /\ \E k \in Callers : call[k].stage \in {"lookup", "ask", "store", "got"}
  /\ \E id \in DOMAIN txs \ confirmed : confirmed' = confirmed \cup {id}
  /\ UNCHANGED <<lndVars, reportVars, txs, hasNode, funded, walletTxs, cache, call>>

-----------------------------------------------------------------------------
(* fees.CalculateFee: the transaction and those it spends are looked up. *)

FeeLookups(id) == <<id>> \o [i \in DOMAIN txs[id].vin |-> txs[id].vin[i].txid]

CalculateFee(id) == FeeOf(txs, id)

-----------------------------------------------------------------------------
(* ChannelCloseReport. *)

ChannelOf(k) == funded[call[k].chan]

\* requireNode, and the channel among the closed ones (ErrChannelNotClosed).
\* The funding transaction is looked up.
FindClosed(k) ==
  /\ Called(k, "idle")
  /\ hasNode /\ call[k].chan \in InPhase("closed")
  /\ call' = [call EXCEPT ![k].stage = "lookup", ![k].lookups = <<ChannelOf(k).txid>>]
  /\ UNCHANGED <<lndVars, reportVars, chainVars, cache>>

NotClosed(k) ==
  /\ Called(k, "idle")
  /\ ~hasNode \/ call[k].chan \notin InPhase("closed")
  /\ Goto(k, "failed")

\* The initiator, from the channel's record or from the wallet
\* (getCloseInitiatorFromWallet).
ChannelInitiator(k) ==
  \/ ChannelOf(k).initiator = "local"
  \/ ChannelOf(k).initiator = "unrecorded" /\ ChannelOf(k).txid \in walletTxs

\* errBatchedTx, ErrCloseTypeNotSupported, unknown initiator.
Unsupported(k) ==
  \/ Len(txs[ChannelOf(k).txid].vout) > 2
  \/ ChannelOf(k).type # "cooperative"
  \/ ChannelOf(k).initiator \notin {"local", "remote", "unrecorded"}

\* The funding transaction is there: refuse, answer without fees, or look up
\* what the fees of the opening and of the closing take.
FundingRead(k) ==
  /\ Called(k, "got") /\ Len(call[k].lookups) = 1 /\ ~call[k].result.initiator
  /\ IF Unsupported(k) THEN call' = [call EXCEPT ![k].stage = "failed"]
     ELSE IF ~ChannelInitiator(k) THEN call' = [call EXCEPT ![k].stage = "done"]
     ELSE call' = [call EXCEPT ![k].stage = "lookup", ![k].result.initiator = TRUE,
                     ![k].lookups = FeeLookups(ChannelOf(k).txid)
                                    \o FeeLookups(ChannelOf(k).closeTx)]
  /\ UNCHANGED <<lndVars, reportVars, chainVars, cache>>

\* The wallet cannot be read.
WalletFails(k) ==
  /\ Called(k, "got") /\ ~call[k].result.initiator
  /\ ~Unsupported(k) /\ ChannelOf(k).initiator = "unrecorded"
  /\ Goto(k, "failed")

NextLookup(k) ==
  /\ Called(k, "got") /\ call[k].result.initiator /\ Len(call[k].lookups) > 1
  /\ call' = [call EXCEPT ![k].stage = "lookup", ![k].lookups = Tail(@)]
  /\ UNCHANGED <<lndVars, reportVars, chainVars, cache>>

\* All have been looked up.
FeesKnown(k) ==
  /\ Called(k, "got") /\ call[k].result.initiator /\ Len(call[k].lookups) = 1
  /\ call' = [call EXCEPT ![k].stage = "done",
                ![k].result = [initiator |-> TRUE, openFee |-> CalculateFee(ChannelOf(k).txid),
                               closeFee |-> CalculateFee(ChannelOf(k).closeTx)]]
  /\ UNCHANGED <<lndVars, reportVars, chainVars, cache>>

CloseReport(k) ==
  \/ FindClosed(k) \/ NotClosed(k)
  \/ CacheHit(k) \/ CacheMiss(k) \/ NodeAnswers(k) \/ Store(k) \/ LookupFails(k)
  \/ FundingRead(k) \/ WalletFails(k) \/ NextLookup(k) \/ FeesKnown(k)

-----------------------------------------------------------------------------

Init ==
  \E s \in Worlds :
    /\ InitReports(s)
    /\ txs = s.txs /\ confirmed = s.confirmed /\ hasNode = s.hasNode
    /\ funded = s.funded /\ walletTxs = s.walletTxs
    /\ cache = {}
    /\ call = [k \in Callers |->
                 [chan |-> s.asks[k], stage |-> IF s.asks[k] = Nobody THEN "done" ELSE "idle",
                  lookups |-> <<>>, tx |-> FALSE, result |-> NoReport]]

\* Channels close while close reports are asked for, too.  What is forwarded
\* after the log was read makes no difference to a call.
SomeoneReads == Reading \/ \E k \in Callers : Called(k, "idle")

LogUnread == stage \in {"open", "closed", "forwards"}

LndMoves == /\ BlockArrives(Reading) \/ Forwarded(LogUnread) \/ ChannelCloses(SomeoneReads)
            /\ UNCHANGED <<reportVars, closeVars>>

Finished == /\ stage \in {"done", "failed"}
            /\ \A k \in Callers : call[k].stage \in {"done", "failed"}
            /\ UNCHANGED vars

Next ==
  \/ LndMoves
  \/ ReportsNext /\ UNCHANGED closeVars
  \/ \E k \in Callers : CloseReport(k)
  \/ Confirms
  \/ Finished

Spec == Init /\ [][Next]_vars

-----------------------------------------------------------------------------
(* Correctness. *)

\* The types of all state; the cache keeps confirmed transactions only, whoever
\* else asks for them and whenever they confirm (GetTxDetail).
TypeOK ==
  /\ \A c \in Channels : chan[c].phase \in Phases /\ chan[c].height \in 0..(Wrap - 1)
  /\ tip \in 0..(Wrap - 1) /\ moves \in 0..MaxMoves
  /\ stage \in {"idle", "open", "closed", "forwards", "height", "insights", "done", "failed"}
  /\ known \subseteq Channels /\ offset \in 0..Len(forwards) /\ height \in 0..tip
  /\ confirmed \subseteq DOMAIN txs /\ cache \subseteq confirmed
  /\ \A k \in Callers :
       /\ call[k].chan \in Channels \cup {Nobody}
       /\ call[k].stage \in {"idle", "lookup", "ask", "store", "got", "done", "failed"}
       /\ call[k].result.openFee \in Nat /\ call[k].result.closeFee \in Nat
=============================================================================
