---------------------------- MODULE MainAnalyzer ----------------------------
(***************************************************************************)
(* The outer loop of a checker (include/analysis_util/MainAnalyzer.h):     *)
(* parse the translation unit, then run a fresh DataflowAnalysis for every *)
(* analysed function.  The functions are kept in a set ordered by address, *)
(* so their order is arbitrary; the Manager lives through all of them.     *)
(***************************************************************************)
EXTENDS Dataflow

CONSTANTS
  AnalyzedFunctions(_),  \* the units the global parser finds in a program
  ParseTerminates(_),    \* whether the global parser's traversal ends
  NextManager(_, _, _)   \* Manager::initUnit

VARIABLE unitsLeft       \* the analysed functions still to do

analyzerVars == <<vars, unitsLeft>>

AnalyzerInit ==
  /\ prog \in Programs
  /\ topFunction \in DOMAIN prog
  /\ manager = InitManager(prog, topFunction)
  /\ status = "parsing"
  /\ Construct(topFunction)
  /\ unitsLeft = {}

\* parseTUD: a traversal that does not end overflows the C++ stack.
ParseTUD ==
  /\ status = "parsing"
  /\ IF ParseTerminates(prog)
     THEN status' = "done" /\ unitsLeft' = AnalyzedFunctions(prog)
     ELSE status' = "segfault" /\ unitsLeft' = {}
  /\ UNCHANGED <<prog, topFunction, manager, contextWork, allResults, callers,
                 active, stack>>

\* A round that forgets which function it has done.
StartUnitAgain(f) ==
  /\ status = "done" /\ f \in unitsLeft
  /\ topFunction' = f
  /\ manager' = NextManager(prog, f, manager)
  /\ status' = "running"
  /\ contextWork' = <<<<f, TopContext>>>>
  /\ allResults' = [c \in {} |-> EmptyResults]
  /\ callers' = {} /\ active' = {} /\ stack' = <<>>
  /\ UNCHANGED <<prog, unitsLeft>>

\* One round of doDataflowTUD: initUnit, then a new DataflowAnalysis.
StartUnit(f) ==
  /\ status = "done" /\ f \in unitsLeft
  /\ unitsLeft' = unitsLeft \ {f}
  /\ topFunction' = f
  /\ manager' = NextManager(prog, f, manager)
  /\ status' = "running"
  /\ contextWork' = <<<<f, TopContext>>>>
  /\ allResults' = [c \in {} |-> EmptyResults]
  /\ callers' = {} /\ active' = {} /\ stack' = <<>>
  /\ UNCHANGED prog

AnalyzerStep ==
  \/ ParseTUD
  \/ \E f \in unitsLeft : StartUnit(f)
  \/ Step /\ UNCHANGED unitsLeft

Finished == status \in {"aborted", "segfault"}
            \/ (status = "done" /\ unitsLeft = {})

AnalyzerNext == AnalyzerStep \/ (Finished /\ UNCHANGED analyzerVars)

AnalyzerSpec == AnalyzerInit /\ [][AnalyzerNext]_analyzerVars

\* The plugin runs in one thread: it takes its next step.
FairAnalyzerSpec == AnalyzerSpec /\ WF_analyzerVars(AnalyzerStep)
=============================================================================
