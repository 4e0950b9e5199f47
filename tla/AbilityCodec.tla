---------------------------- MODULE AbilityCodec ----------------------------
(***************************************************************************)
(* The wire format of a forwarding ability answer                          *)
(* (frdrpc/forwarding_ability_codec.go).  Abilities of peer pairs are      *)
(* split into full entries, single bits and pairs left out; peers become   *)
(* indices into a sorted list, a pair of an entry one packed number, and a *)
(* pair of a bit a position of a bitmask.                                  *)
(*                                                                         *)
(* An abilities map is a function on pairs <<in, out>> of keys to records  *)
(* [uptime, sat].  A key is a hex spelling of a public key: RawOf gives the *)
(* bytes it decodes to, as a number in the order of the bytes, or NotHex.  *)
(* Spellings that differ by case only have the same bytes.                 *)
(***************************************************************************)
EXTENDS Integers, Sequences, FiniteSets, SequencesExt, Collections

CONSTANTS
  Keys,        \* spellings of public keys
  RawOf,       \* [Keys -> Nat \cup {NotHex}]
  NotHex,      \* what is not a hex spelling decodes to
  IdxValues,   \* values of a peer index in packed_idx: 2^16
  ByteBits,    \* width of a byte of the bitmask: 8
  MaxInt64,    \* math.MaxInt64
  Scale        \* a threshold is a number of Scale-ths

ASSUME CodecAssumption ==
  /\ NotHex \in Int /\ NotHex < 0
  /\ RawOf \in [Keys -> Nat \cup {NotHex}]
  /\ {IdxValues, ByteBits, MaxInt64, Scale} \subseteq Nat \ {0}

maxPackedPeers == IdxValues - 1

\* The error every failure of the codec returns.
Error == [error |-> TRUE]

-----------------------------------------------------------------------------

\* Forwarding always wins; an idle pair is a bit if it was up enough.
tier(a, minUptimeS) ==
  CASE a.sat > 0 -> "entry"
    [] a.sat <= 0 /\ a.uptime >= minUptimeS -> "bit"
    [] a.sat <= 0 /\ a.uptime < minUptimeS -> "absent"

\* The least whole number of seconds that is at least the threshold's part of
\* the window, at least one.  An empty window admits nothing.
MinQualifyingUptime(threshold, windowSeconds) ==
  IF windowSeconds <= 0 THEN MaxInt64
  ELSE LET v == (threshold * windowSeconds + Scale - 1) \div Scale
       IN  IF v < 1 THEN 1 ELSE v

\* packed_idx and the position in the bitmask, of zero-based indices.
Pack(inIdx, outIdx) == inIdx * IdxValues + outIdx

\* Mutant of BitIndex: positions count from one.
BitIndexFromOne(inIdx, outIdx, n) == inIdx * n + outIdx + 1

BitIndex(inIdx, outIdx, n) == inIdx * n + outIdx

\* Bytes of a bitmask over n peers.
MaskBytes(n) == (n * n + ByteBits - 1) \div ByteBits

\* Mutant of Collides: a pair under two spellings is not an error.
CollidesNever(pairs) == FALSE

\* Two pairs of keys that are spellings of one pair of peers.
Collides(pairs) ==
  \E p, q \in pairs : p # q /\ RawOf[p[1]] = RawOf[q[1]] /\ RawOf[p[2]] = RawOf[q[2]]

\* The pairs that warrant an entry or a bit, and the peers in them.
Kept(abilities, minUptimeS) ==
  {p \in DOMAIN abilities : tier(abilities[p], minUptimeS) # "absent"}

RawPeers(pairs) == {RawOf[p[i]] : p \in pairs, i \in {1, 2}}

\* Entries in the order of packed_idx, which no two of them share.
ByPacked(entries) ==
  LET order == InOrder({e.packed : e \in entries})
  IN  [k \in DOMAIN order |-> CHOOSE e \in entries : e.packed = order[k]]

EncodeForwardingAbility(abilities, startTime, endTime, threshold) ==
  LET minUptimeS == MinQualifyingUptime(threshold, endTime - startTime)
      kept     == Kept(abilities, minUptimeS)
      peers    == InOrder(RawPeers(kept))
      n        == Len(peers)
      index(k) == (CHOOSE i \in DOMAIN peers : peers[i] = RawOf[k]) - 1
      ofTier(t) == {p \in kept : tier(abilities[p], minUptimeS) = t}
      entry(p) == [packed |-> Pack(index(p[1]), index(p[2])),
                   uptime |-> abilities[p].uptime, sat |-> abilities[p].sat]
  IN  IF NotHex \in RawPeers(kept) \/ n > maxPackedPeers \/ Collides(kept)
      THEN Error
      ELSE [peers     |-> peers,
            entries   |-> ByPacked({entry(p) : p \in ofTier("entry")}),
            bytes     |-> IF ofTier("bit") = {} THEN 0 ELSE MaskBytes(n),
            bits      |-> {BitIndex(index(p[1]), index(p[2]), n) : p \in ofTier("bit")},
            start     |-> startTime, end |-> endTime,
            threshold |-> threshold]

-----------------------------------------------------------------------------

\* The indices of packed_idx.
Unpack(packed) == <<packed \div IdxValues, packed % IdxValues>>

\* Entries first, then the bits of the pairs without an entry, which come back
\* as up for the whole window.  The keys of the result are the peers' bytes:
\* hex.EncodeToString has one spelling for each.
DecodeForwardingAbility(resp) ==
  LET n         == Len(resp.peers)
      pair(idx) == <<resp.peers[idx[1] + 1], resp.peers[idx[2] + 1]>>
      of(i)     == pair(Unpack(resp.entries[i].packed))
      outside   == \E i \in DOMAIN resp.entries :
                     \E j \in {1, 2} : Unpack(resp.entries[i].packed)[j] >= n
      full      == {of(i) : i \in DOMAIN resp.entries}
      idle      == {pair(<<k \div n, k % n>>) : k \in {b \in resp.bits : b < n * n}}
      entry(p)  == resp.entries[CHOOSE i \in DOMAIN resp.entries : of(i) = p]
  IN  IF n > maxPackedPeers \/ outside \/ (resp.bytes # 0 /\ resp.bytes # MaskBytes(n))
      THEN Error
      ELSE [abilities |->
             [p \in full \cup idle |->
                IF p \in full THEN [uptime |-> entry(p).uptime, sat |-> entry(p).sat]
                ELSE [uptime |-> resp.end - resp.start, sat |-> 0]]]

\* What a client is to see of the ability of a pair that is not left out.
Seen(a, windowSeconds) == IF a.sat > 0 THEN a ELSE [uptime |-> windowSeconds, sat |-> 0]

Raw(p) == <<RawOf[p[1]], RawOf[p[2]]>>
=============================================================================
