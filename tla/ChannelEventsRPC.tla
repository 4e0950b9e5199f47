-------------------------- MODULE ChannelEventsRPC --------------------------
(***************************************************************************)
(* The GetChannelEvents RPC (frdrpcserver/getchanevents.go) and a client   *)
(* that pages through a channel's events with it, while the monitor keeps  *)
(* writing to the store and pruning it.  The handler reads the store       *)
(* twice, so writes and prunes fall between its reads as well as between   *)
(* two pages.                                                              *)
(***************************************************************************)
EXTENDS ChanEventsStore, Sequences, SequencesExt

CONSTANTS
  Requests,       \* first requests: [chan, start, end, max], times as in the proto
  MaxEventsLimit  \* maxChannelEventsLimit, 10000 in the code

ASSUME RPCAssumption ==
  /\ MaxEventsLimit \in Nat \ {0}
  /\ Requests \subseteq [chan : ChanPoints, start : Int, end : Int, max : Nat]

VARIABLES
  req,      \* the client's request
  lastId,   \* its cursor
  got,      \* history: the rows it was sent, in order
  until,    \* the end of the window of the call under way (endTime)
  at        \* "call", "query" (inside the handler), or how the paging ended

client  == <<req, lastId, got, until, at>>
rpcVars == <<vars, client>>

-----------------------------------------------------------------------------
(* The handler. *)

EndTime == IF req.end # 0 THEN req.end ELSE now

Invalid == req.start < 0 \/ req.end < 0 \/ req.start > EndTime

Limit == IF req.max # 0 /\ req.max < MaxEventsLimit THEN req.max ELSE MaxEventsLimit

\* Validate the request, fix the end of the window, look the channel up.
Accept ==
  /\ at = "call" /\ ~Invalid /\ GetChannel(req.chan) # {}
  /\ until' = EndTime
  /\ at' = "query"
  /\ UNCHANGED <<vars, req, lastId, got>>

Refuse ==
  /\ at = "call"
  /\ \/ Invalid /\ at' = "InvalidArgument"
     \/ ~Invalid /\ GetChannel(req.chan) = {} /\ at' = "NotFound"
  /\ UNCHANGED <<vars, req, lastId, got, until>>

\* The rows of the page, ORDER BY id.
Rows == GetChannelEvents(events, req.chan, lastId, req.start, until, Limit)

InIdOrder(rows) ==
  {s \in SetToSeqs(rows) : \A i, j \in DOMAIN s : i < j => s[i].id < s[j].id}

\* Mutants of HasMore: never true; always true.
HasMoreOverfull(page) == Len(page) > Limit
HasMoreUpToLimit(page) == Len(page) <= Limit

HasMore(page) == Len(page) = Limit

\* Mutants of LastId: the page's first row, the newest row.
LastIdFirst(page) == IF page = <<>> THEN 0 ELSE page[1].id
LastIdNewest(page) ==
  IF page = <<>> THEN 0 ELSE (CHOOSE e \in events : \A f \in events : f.id <= e.id).id

\* The response's last_id: zero for an empty page.
LastId(page) == IF page = <<>> THEN 0 ELSE page[Len(page)].id

\* The client keeps paging with the response's last_id until has_more is
\* false, as the itest and "frcli chanevents" have it.
Answer ==
  /\ at = "query"
  /\ \E page \in InIdOrder(Rows) :
       /\ got' = got \o page
       /\ at' = IF HasMore(page) THEN "call" ELSE "complete"
       /\ lastId' = IF HasMore(page) THEN LastId(page) ELSE lastId
  /\ UNCHANGED <<vars, req, until>>

\* A failed read is an Internal error; the client may call again.
ReadFails ==
  /\ at = "query" \/ (at = "call" /\ ~Invalid)
  /\ at' = "Internal"
  /\ UNCHANGED <<vars, req, lastId, got, until>>

CallAgain ==
  /\ at = "Internal"
  /\ at' = "call"
  /\ UNCHANGED <<vars, req, lastId, got, until>>

-----------------------------------------------------------------------------

RPCInit ==
  /\ Init
  /\ req \in Requests
  /\ lastId = 0 /\ got = <<>> /\ until = 0 /\ at = "call"

RPCNext ==
  \/ Next /\ UNCHANGED client
  \/ Accept \/ Refuse \/ Answer \/ ReadFails \/ CallAgain

\* The server answers, and the client goes on; reads succeed in the end.
RPCFairness ==
  SF_rpcVars(Accept \/ Refuse) /\ SF_rpcVars(Answer) /\ WF_rpcVars(CallAgain)

RPCSpec == RPCInit /\ [][RPCNext]_rpcVars /\ RPCFairness

-----------------------------------------------------------------------------
(* Properties. *)

\* The types of the call's state.  What a client got is a sequence of rows in the
\* order of their ids, none of them twice, whatever is written or pruned between
\* its pages.
RPCTypeOK ==
  /\ lastId \in 0..MaxRowId
  /\ got \in Seq(EventRows)
  /\ \A i, j \in DOMAIN got : i < j => got[i].id < got[j].id
  /\ until \in Int
  /\ at \in {"call", "query", "complete", "InvalidArgument", "NotFound", "Internal"}

\* The cursor skips nothing: an event of the window at or below it has been
\* sent ("pass the response's last_id to resume past already-returned events").
NothingSkipped ==
  \A e \in Matching(events, req.chan, 0, req.start, until) :
    e.id <= lastId => \E i \in DOMAIN got : got[i] = e

\* has_more is only false once every event of the window still in the table has
\* been sent.
CompleteWhenDone ==
  [][(at = "query" /\ at' = "complete") =>
       \A e \in Matching(events, req.chan, 0, req.start, until) :
         \E i \in DOMAIN got' : got'[i] = e]_rpcVars

\* Paging ends: has_more cannot stay true without the cursor advancing.
PagingEnds == <>(at \notin {"call", "query", "Internal"})
=============================================================================
