------------------------- MODULE MCChannelEventsRPC -------------------------
(* ChannelEventsRPC and the store under it for TLC: windows that are open,    *)
(* bounded and malformed, pages of one row and of the server's cap, a channel *)
(* with a short channel id above the sign bit, and limits small enough for    *)
(* both prunes, an empty table and an over-large max-events to happen.        *)
EXTENDS ChannelEventsRPC

CONSTANTS c1, c2

Request(start, end, max) == [chan |-> c1, start |-> start, end |-> end, max |-> max]

MCRequests ==
  {Request(1, 0, 1), Request(0, 3, 0), Request(2, 1, 5), Request(-1, 0, 1)}
MCScids == {1, 5}
MCMaxEventsArgs == {0, 2, 9}
MCRetentionArgs == {0, 1}
=============================================================================
