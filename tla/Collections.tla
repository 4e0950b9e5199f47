---------------------------- MODULE Collections -----------------------------
(***************************************************************************)
(* Lists in the order of their positions, which is what a loop over a      *)
(* slice keeps and a sort makes of keys that are all different; and sums.  *)
(***************************************************************************)
EXTENDS Integers, FiniteSets, FiniteSetsExt

\* The numbers of S in their order, and the items of a list at the positions S.
InOrder(S) == [k \in 1..Cardinality(S) |->
                 CHOOSE i \in S : Cardinality({j \in S : j <= i}) = k]

ItemsAt(list, S) == LET order == InOrder(S) IN [k \in DOMAIN order |-> list[order[k]]]

\* The sum of the values of a function.
AddUp(f) == MapThenSumSet(LAMBDA x : f[x], DOMAIN f)
=============================================================================
