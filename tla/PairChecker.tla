---------------------------- MODULE PairChecker ----------------------------
(***************************************************************************)
(* The pair checker: MainAnalyzer and the dataflow engine over the pair    *)
(* lattice, its transfer functions and its bug reporter                    *)
(* (lib/pairchecker/analyzer/PairAnalyzer.h, preprocess/PairGlobalParser.h)*)
(***************************************************************************)
EXTENDS PairTransitions, GlobalParser, Sequences

CONSTANTS Statement, Programs  \* as in Dataflow

VARIABLES prog, topFunction, manager, contextWork, allResults, callers, active,
          stack, status, unitsLeft

-----------------------------------------------------------------------------
(* PairGlobalParser: what is tracked in which unit *)

(***************************************************************************)
(* fillTrackMap: the members f and the functions it calls mention.  The    *)
(* arguments of the named functions are not looked at.                     *)
(***************************************************************************)
UnitVariables(p, f) ==
  {s.var : s \in {t \in UnitStmts(p, f) : t.op \in {"assign", "read"}}}
    \cap UsedVars

\* autoFindFunctions: every function that mentions a used variable, in the
\* argument of a named function too.
AnalyzedFunctions(p) ==
  {f \in DOMAIN p : \E s \in Stmts(p, f) :
     s.op \in VarOps \cup {"read"} /\ s.var \in UsedVars}

ParseTerminates(p) == \A f \in AnalyzedFunctions(p) : Tracks(p, f)

\* Manager::initUnit: setActiveUnit and the bug reporter's initUnit
NextManager(p, f, m) == InitUnit(UnitVariables(p, f), m.bugs)
InitManager(p, f) == InitUnit({}, {})

\* PairLattice's operator== asserts nothing.
NoEqualFails(val) == FALSE

Analyzer ==
  INSTANCE MainAnalyzer WITH InitTopValues   <- InitLatticeValues,
                             ApplyTransfer   <- HandleStmt,
                             LatMeet         <- Meet,
                             LatAssertFailed <- AssertFailed,
                             LatEqualFails   <- NoEqualFails,
                             DumpFails       <- DumpAsserts

\* A program has finitely many functions, each with its graph.
ASSUME PairProgramsAssumption ==
  \A p \in Programs :
    /\ IsFiniteSet(DOMAIN p)
    /\ \A f \in DOMAIN p : Analyzer!IsGraph(p[f])

Spec == Analyzer!FairAnalyzerSpec
=============================================================================
