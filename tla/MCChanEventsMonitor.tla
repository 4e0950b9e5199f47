------------------------ MODULE MCChanEventsMonitor ------------------------
(* ChanEventsMonitor for TLC: the channels of one peer, one scid above the    *)
(* sign bit.                                                                  *)
EXTENDS ChanEventsMonitor, TLC

CONSTANTS c1, c2, p1

MCScids == {1, 5}
MCPeerOf == [c \in ChanPoints |-> p1]
MCScidOf == [c \in ChanPoints |-> IF c = c1 THEN 5 ELSE 1]
MCSymmetry == Permutations(Balances)
=============================================================================
