----------------------------- MODULE MCPairPath -----------------------------
(* A finite instance of PairPath. *)
EXTENDS PairPath

CONSTANTS d, v, w

\* data and valid on different lines, data and word on the same one: the
\* three lattice types, with d of both.
MixedPairs ==
  {[data |-> d, check |-> v, isScl |-> FALSE],
   [data |-> d, check |-> w, isScl |-> TRUE]}

\* d may be written twice, the others once.
TwiceD == [x \in Var |-> IF x = d THEN 2 ELSE 1]
=============================================================================
