--------------------------- MODULE MCCloseReports ---------------------------
(* CloseReports and ChannelReports for TLC.  It is 5 o'clock and block 5, and  *)
(* heights wrap at 16.  Families of worlds: three channels in every phase,     *)
(* with forwards between them and one more than a page of those; five open     *)
(* channels that differ in uptime, age and volume, one of them with an alias   *)
(* for its height, for every metric; and two callers who ask for closed        *)
(* channels with funding transactions of one to three outputs.                 *)
EXTENDS CloseReports

CONSTANTS chA, chB, chC, chD, chE, callerA, callerB

MCChannels == {chA, chB, chC, chD, chE}

\* A mantissa of three bits, and one as a value it has.
MCFloat32s == {(Unit \div 16) * m : m \in 0..7} \cup
              {(Unit \div 16) * m * 2^e : m \in 4..7, e \in 1..7}

Chan(phase, at, private, monitored, uptime) ==
  [phase |-> phase, height |-> IF phase \in {"none", "pending"} THEN 0 ELSE at,
   private |-> private, monitored |-> monitored, uptime |-> uptime]

Absent == Chan("none", 0, FALSE, 0, 0)

Forward(in, out, amtIn, amtOut, time) ==
  [in |-> in, out |-> out, amtIn |-> amtIn, amtOut |-> amtOut, time |-> time]

Request(kind) ==
  [kind |-> kind, start |-> 0, end |-> 0, targets |-> {}, rec |-> TRUE, min |-> 1,
   metric |-> "uptime", mult |-> 0, threshold |-> 0]

\* Channels only: no bitcoin node, nobody asks for a close report.
World(chans, fwds, spent, r) ==
  [chan |-> chans, tip |-> 5, moves |-> spent, forwards |-> fwds, req |-> r,
   txs |-> [id \in {} |-> 0], confirmed |-> {}, hasNode |-> FALSE,
   funded |-> [x \in {} |-> 0], walletTxs |-> {}, asks |-> [k \in Callers |-> Nobody]]

Log == <<Forward(chA, chB, 5, 2, 1), Forward(chB, chA, 4, 2, 2), Forward(chA, chA, 3, 2, 3),
         Forward(chA, chC, 6, 5, 3)>>

\* The forwards over channels that have been open.
LogOf(chans) == SelectSeq(Log, LAMBDA f : \A x \in {f.in, f.out} : chans[x].phase # "pending")

ThreeChannels ==
  {[x \in MCChannels |->
      CASE x = chA -> Chan(pa, 2, FALSE, 2, 1) [] x = chB -> Chan(pb, 4, TRUE, 1, 1)
        [] x = chC -> Chan(pc, 5, FALSE, 3, 2) [] OTHER -> Absent] :
     pa \in {"open", "closing", "closed"}, pb \in {"pending", "open", "closed"},
     pc \in {"pending", "open", "closing"}}

ReportRequests ==
  {Request("revenue"), Request("insights"),
   [Request("revenue") EXCEPT !.start = 2, !.end = 3, !.targets = {chA, chD}]}

ReportWorlds == {World(ch, LogOf(ch), 0, r) : ch \in ThreeChannels, r \in ReportRequests}

FiveChannels ==
  {[x \in MCChannels |->
      CASE x = chA -> Chan("open", ha, FALSE, 4, ua) [] x = chB -> Chan(pb, 4, FALSE, 4, ub)
        [] x = chC -> Chan("open", 3, FALSE, 3, 3)   [] x = chD -> Chan("open", 4, FALSE, 4, 3)
        [] x = chE -> Chan("open", e.at, e.private, 2, 2)] :
     ha \in {2, 5}, ua \in {0, 3}, ub \in {0}, pb \in {"open", "pending"},
     e \in {[at |-> 2, private |-> TRUE], [at |-> 14, private |-> FALSE]}}

Traffic == {<<Forward(chA, chC, 5, 2, 1), Forward(chC, chD, 5, 5, 1), Forward(chD, chE, 6, 5, 2)>>,
            <<Forward(chC, chD, 9, 6, 1), Forward(chD, chC, 9, 7, 1), Forward(chE, chC, 9, 5, 4)>>}

RecRequests ==
  {[Request("outlier") EXCEPT !.metric = m, !.mult = x] : m \in Metrics, x \in {0, 1, -4}}
  \cup {[Request("threshold") EXCEPT !.metric = m, !.threshold = Unit, !.min = x] :
          m \in Metrics, x \in {1, 3}}
  \cup {[Request("threshold") EXCEPT !.rec = FALSE], [Request("outlier") EXCEPT !.min = 0],
        [Request("outlier") EXCEPT !.metric = "none"]}

RecWorlds == {World(ch, l, MaxMoves - 1, r) : ch \in FiveChannels, l \in Traffic, r \in RecRequests}

\* Each funding transaction with its own shape; a closing transaction takes 1.
In(id, n) == [txid |-> id, vout |-> n]

Transactions ==
  [id \in {"coin", "one", "change", "batch", "pair", "x1", "x2", "x3"} |->
     CASE id = "coin"   -> [vin |-> <<>>, vout |-> <<20, 20>>]
       [] id = "one"    -> [vin |-> <<In("coin", 1)>>, vout |-> <<18>>]
       [] id = "change" -> [vin |-> <<In("coin", 1), In("coin", 2)>>, vout |-> <<18, 19>>]
       [] id = "batch"  -> [vin |-> <<In("coin", 1)>>, vout |-> <<6, 7, 5>>]
       [] id = "pair"   -> [vin |-> <<In("coin", 1)>>, vout |-> <<9, 9>>]
       [] id = "x1"     -> [vin |-> <<In("change", 1)>>, vout |-> <<10, 7>>]
       [] id = "x2"     -> [vin |-> <<In("one", 1)>>, vout |-> <<17>>]
       [] id = "x3"     -> [vin |-> <<In("pair", 1)>>, vout |-> <<8>>]]

Funding(id, n, initiator, type, closeTx) ==
  [txid |-> id, vout |-> n, initiator |-> initiator, type |-> type, closeTx |-> closeTx]

Fundings ==
  {[x \in {chA, chB} |-> IF x = chA THEN Funding("change", 1, i, t, "x1")
                              ELSE Funding("one", 1, "local", "cooperative", "x2")] :
     i \in {"local", "remote", "unrecorded", "both"}, t \in {"cooperative", "force"}}
  \cup {[x \in {chA, chB} |-> Funding(f, IF x = chA THEN 1 ELSE 2, "local", "cooperative", "x3")] :
          f \in {"batch", "pair"}}

CloseWorlds ==
  {[World([x \in MCChannels |-> IF x \in {chA, chB} THEN Chan(p, 2, FALSE, 1, 1) ELSE Absent], <<>>, 0,
          Request("none")) EXCEPT
      !.txs = Transactions, !.confirmed = {"coin", "one", "change", "batch", "pair"} \cup more,
      !.hasNode = n, !.funded = f, !.walletTxs = w,
      !.asks = [k \in Callers |-> IF k = callerA THEN chA ELSE chB]] :
     p \in {"closing", "closed"}, n \in BOOLEAN, f \in Fundings, w \in {{}, {"change"}},
     more \in {{}, {"x1"}}}

MCWorlds == ReportWorlds \cup RecWorlds \cup CloseWorlds
=============================================================================
