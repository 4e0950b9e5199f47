---------------------------- MODULE MCNodeAudit -----------------------------
(* NodeAudit for TLC.  A minute is 1, an hour 2 and a day 4; it is 17 o'clock. *)
(* One family of worlds for each part of the call: searches over all chains   *)
(* of four blocks with few different times; all price requests over a range   *)
(* of windows; a channel in every phase with its transactions; the payment to *)
(* ourselves in every state, among other payments, in pages of one.           *)
EXTENDS NodeAudit

MCGranularities == <<[agg |-> 1, max |-> 3], [agg |-> 2, max |-> 6], [agg |-> 4, max |-> 12]>>

Ordered(c) == \A i, j \in Heights : i < j => c[i] <= c[j] + Skew

MCChains == {c \in [Heights -> {3, 8, 10, 12}] : Ordered(c)}

Plain == CHOOSE c \in MCChains : c[0] = 3 /\ c[1] = 8 /\ c[2] = 10 /\ c[3] = 12

Tx(id, amount, fee, height, ours) ==
  [txid |-> id, amount |-> amount, fee |-> fee, chainFee |-> 2, height |-> height,
   label |-> id, ours |-> ours]

Invoice(hash, settle) ==
  [hash |-> hash, amount |-> 7, settle |-> settle, state |-> "settled", label |-> hash]

Payment(hash, dest, time, state) ==
  [hash |-> hash, amount |-> 5, fee |-> 0, payReq |-> dest, state |-> state,
   htlcs |-> IF time = 0 THEN <<>> ELSE <<[ok |-> TRUE, time |-> time, dest |-> None]>>]

Category(name, pattern) ==
  [name |-> name, onChain |-> TRUE, offChain |-> FALSE, patterns |-> <<{pattern}>>]

Request(kind, start, end) ==
  [kind |-> kind, start |-> start, end |-> end, disable |-> TRUE, backend |-> "unknown",
   gran |-> Unset, custom |-> {}, cats |-> <<>>, node |-> TRUE, forwards |-> <<>>]

\* An idle node without transactions.
Idle(c, t, r) ==
  [chain |-> c, tip |-> t, phase |-> "none", initiator |-> "local", wallet |-> <<>>,
   invoices |-> <<Invoice("self", 9)>>, payments |-> <<>>, pay |-> 0, req |-> r]

SearchWorlds ==
  {Idle(c, t, Request("audit", s, e)) : c \in MCChains, t \in {2, 3}, s \in {0, 7, 9},
                                        e \in {0, 11, 13}}

PriceRequests ==
  {[Request(k, s, e) EXCEPT !.disable = FALSE, !.backend = b, !.gran = g, !.custom = c] :
     k \in {"audit", "rates"}, s \in {4, 7, 9}, e \in {7, 8, 17, 18},
     b \in RpcBackends \cup {"none"}, g \in {Unset, 1, 3, 4}, c \in {{}, {3, 8}, {9}}}
  \cup {[Request("rates", s, e) EXCEPT !.backend = b, !.gran = 2] :
          s \in 4..12, e \in {9, 12, 16}, b \in {"coincap", "bitfinex", "coingecko"}}

PriceWorlds == {Idle(Plain, 3, r) : r \in PriceRequests}

Wallets ==
  {<<Tx("fund", -12, 2, 1, FALSE), Tx("close", 0, 0, 2, FALSE), Tx("sweep", 8, 0, 3, TRUE)>>,
   <<Tx("fund", -12, 2, 2, FALSE), Tx("close", 9, 0, 0, FALSE), Tx("other", -2, 2, 2, TRUE)>>,
   <<Tx("sweep", -3, 2, 2, FALSE), Tx("other", -2, 2, 1, FALSE)>>,
   <<Tx("other", 4, 0, 2, FALSE), Tx("more", -6, 1, 2, FALSE)>>,
   <<Tx("other", 4, 1, 2, FALSE)>>}

ChannelWorlds ==
  {[Idle(Plain, 3, [r EXCEPT !.node = n]) EXCEPT !.wallet = w, !.phase = p, !.initiator = i] :
     r \in {Request("audit", 0, 0), Request("audit", 4, 18),
            [Request("audit", 4, 14) EXCEPT !.cats = <<Category("a", "fund"), Category("b", "x")>>]},
     n \in BOOLEAN, w \in Wallets, p \in Phases, i \in {"local", "remote", "unknown"}}

PaymentWorlds ==
  {[Idle(Plain, 3, [r EXCEPT !.forwards = f]) EXCEPT
      !.pay = p, !.invoices = @ \o <<Invoice("paid", 8), Invoice("old", 2)>>, !.payments = ps] :
     r \in {Request("audit", 6, 10), Request("audit", 0, 0)}, p \in PayStates,
     f \in {<<>>, <<[time |-> 9, fee |-> 1], [time |-> 9, fee |-> 0]>>},
     ps \in {<<Payment("q", "peer", 8, "succeeded")>>,
             <<Payment("q", None, 0, "inflight"), Payment("r", Own, 9, "succeeded")>>,
             <<[Payment("paid", "peer", 8, "succeeded") EXCEPT !.htlcs[1].dest = Own]>>,
             <<Payment("q", Own, 9, "succeeded"), Payment("q", "peer", 3, "succeeded")>>,
             <<Payment("q", "peer", 3, "succeeded"), Payment("q", Own, 9, "succeeded")>>,
             <<Payment("q", "peer", 8, "succeeded"), Payment("q", "peer", 9, "succeeded")>>}}

BadRequests ==
  {Idle(Plain, 3, [Request("audit", 4, 14) EXCEPT !.cats = c]) :
     c \in {<<Category("", "x")>>, <<Category("a", "x"), Category("b", "x")>>}}

MCWorlds == SearchWorlds \cup PriceWorlds \cup ChannelWorlds \cup PaymentWorlds \cup BadRequests
=============================================================================
