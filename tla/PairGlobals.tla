---------------------------- MODULE PairGlobals ----------------------------
(***************************************************************************)
(* What the pair checker knows of the annotated program once it is parsed: *)
(* the pairs of variables whose writes must be ordered, and per variable   *)
(* whether it has a partner on another cache line (dcl) or on its own      *)
(* (scl).  lib/pairchecker/preprocess/{PairInfo,PairVariables}.h           *)
(***************************************************************************)
EXTENDS Naturals

CONSTANTS Var,   \* the declarations (NamedDecl pointers) of the program
          Pairs  \* its annotations: the PairInfo objects fillMainVars creates

PairInfo == [data : Var, check : Var, isScl : BOOLEAN]

ASSUME PairsAssumption == Pairs \subseteq PairInfo

\* insertVariable is called for both members of every pair.
UsedVars == {p.data : p \in Pairs} \cup {p.check : p \in Pairs}

GetPairInfoSet(var) == {p \in Pairs : var \in {p.data, p.check}}

GetPairND(PI, var) == IF var = PI.data THEN PI.check ELSE PI.data

\* The flags insertVariable accumulates over the pairs of var.
GetDsclInfo(var) ==
  [isDcl |-> \E PI \in GetPairInfoSet(var) : ~PI.isScl,
   isScl |-> \E PI \in GetPairInfoSet(var) : PI.isScl]
=============================================================================
