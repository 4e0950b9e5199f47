---------------------------- MODULE MCUptimeWalk ----------------------------
(* UptimeWalk for TLC: a pair of peers with one channel each, and a peer with  *)
(* two channels against itself.                                               *)
EXTENDS UptimeWalk

CONSTANTS c1, c2

MCPairs == {<<{c1}, {c2}>>, <<{c1, c2}, {c1, c2}>>}
MCFloors == {0, 2}
MCInitialStates == {[online |-> FALSE, local |-> 0, remote |-> 0],
                    [online |-> TRUE, local |-> 1, remote |-> 2]}
MCSnapshots == {[local |-> 0, remote |-> 2], [local |-> 2, remote |-> 1]}
=============================================================================
