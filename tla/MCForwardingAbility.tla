------------------------ MODULE MCForwardingAbility ------------------------
(* ForwardingAbility for TLC: two channels, of two peers.  The codec is also  *)
(* called with more peers than its indices address (which have four values,   *)
(* not 2^16), with a key that is no hex string and with one peer in two       *)
(* spellings.  Pages of one forward, half seconds and half satoshis.          *)
EXTENDS ForwardingAbility

MCRaw        == [k \in Keys |-> CASE k = "aa" -> 1 [] k = "AA" -> 1 [] k = "bb" -> 2
                                  [] k = "cc" -> 3 [] k = "dd" -> 4 [] k = "xx" -> NotHex]
MCNotHex     == -1
MCPeerOf     == [c \in Chans |-> IF c = "c3" THEN "bb" ELSE "aa"]
MCThresholds == {0, 5, -1, Scale + 1, NaN}
MCAbilities  == [uptime : {0, 1, 2}, sat : {0}] \cup {[uptime |-> 1, sat |-> 3]}
=============================================================================
