--------------------------- MODULE OrderMonitor ---------------------------
(***************************************************************************)
(* What the pair checker promises along one execution path: a write to a   *)
(* variable raises an alarm when a partner has been written and not yet    *)
(* been ordered.  A variable is alarmed at most once; an alarm covers the  *)
(* variable written and the partners it overtook.                          *)
(*                                                                         *)
(* How flushes and fences order a write is left open: Order removes any    *)
(* set of variables from those still waiting.                              *)
(***************************************************************************)
EXTENDS PairGlobals

VARIABLES scope,      \* the variables of the unit under analysis
          unordered,  \* those written and not yet ordered
          alarmed     \* those an alarm has been raised for

monitorVars == <<scope, unordered, alarmed>>

Partners(v) == {GetPairND(PI, v) : PI \in GetPairInfoSet(v)} \cap scope

MonitorInit ==
  /\ scope \in SUBSET UsedVars
  /\ unordered = {}
  /\ alarmed = {}

Write(v) ==
  LET overtaken == Partners(v) \cap (unordered \cup {v})
  IN  /\ unordered' = unordered \cup {v}
      /\ alarmed' = IF v \in alarmed \/ overtaken = {}
                    THEN alarmed
                    ELSE alarmed \cup {v} \cup overtaken
      /\ UNCHANGED scope

Order(S) ==
  /\ unordered' = unordered \ S
  /\ UNCHANGED <<scope, alarmed>>

MonitorNext ==
  \/ \E v \in scope : Write(v)
  \/ \E S \in SUBSET scope : Order(S)

MonitorSpec == MonitorInit /\ [][MonitorNext]_monitorVars
=============================================================================
