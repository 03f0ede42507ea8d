----------------------------- MODULE LogChecker -----------------------------
(***************************************************************************)
(* The log checker: MainAnalyzer and the dataflow engine over its lattice, *)
(* and what its reports mean for the program                               *)
(* (lib/logchecker/analyzer/LogAnalyzer.h, preprocess/*.h)                 *)
(***************************************************************************)
EXTENDS LogTransitions, GlobalParser, Executions

CONSTANTS Statement, Programs,  \* as in Dataflow
          LogCode,              \* the functions annotated LogCode
          MaxBlocks             \* the length of the executions compared

VARIABLES prog, topFunction, manager, contextWork, allResults, callers, active,
          stack, status, unitsLeft

-----------------------------------------------------------------------------
(* LogGlobalParser, LogFunctions *)

AnalyzedFunctions(p) == LogCode \cap DOMAIN p

ParseTerminates(p) == \A f \in AnalyzedFunctions(p) : Tracks(p, f)

\* fillTrackMap: the members the unit mentions outside of the arguments of
\* log.  InitLatticeValues adds the transaction.
UnitVariables(p, f) ==
  {s.var : s \in {t \in UnitStmts(p, f) : t.op \in {"assign", "read"}}}
    \cap LogField

NextManager(p, f, m) == InitUnit(UnitVariables(p, f), m.bugs)
InitManager(p, f) == InitUnit({}, {})

Analyzer ==
  INSTANCE MainAnalyzer WITH InitTopValues   <- InitLatticeValues,
                             ApplyTransfer   <- HandleStmt,
                             LatMeet         <- Meet,
                             LatAssertFailed <- AssertFailed,
                             LatEqualFails   <- EqualFails,
                             DumpFails       <- DumpAsserts

\* A program has finitely many functions, each with its graph.
ASSUME LogProgramsAssumption ==
  \A p \in Programs :
    /\ IsFiniteSet(DOMAIN p)
    /\ \A f \in DOMAIN p : Analyzer!IsGraph(p[f])

Spec == Analyzer!FairAnalyzerSpec

-----------------------------------------------------------------------------
(* What is wrong in an execution x *)

Count(x, i, op) == Cardinality({j \in 1 .. i - 1 : IsOp(x[j], op)})

InTx(x, i) == Count(x, i, "tx_begin") > Count(x, i, "tx_end")

WasLogged(x, i, v) == \E j \in 1 .. i - 1 : IsOpOn(x[j], "log", v)

Uses(step, v) == IsOpOn(step, "assign", v) \/ IsOpOn(step, "log", v)

\* The kinds of bugs step i of x has
Kinds(x, i, v) ==
  IF ~Uses(x[i], v) THEN {}
  ELSE (IF InTx(x, i) THEN {} ELSE {"OutsideTx"})
       \cup (IF IsOp(x[i], "assign") /\ ~WasLogged(x, i, v)
             THEN {"NotLogged"} ELSE {})
       \cup (IF IsOp(x[i], "log") /\ WasLogged(x, i, v)
             THEN {"DoubleLog"} ELSE {})

IsFirstMisuse(x, i, v) ==
  Kinds(x, i, v) # {} /\ \A j \in 1 .. i - 1 : Kinds(x, j, v) = {}

-----------------------------------------------------------------------------
(* Properties *)

UnitExecutions(f) == ExecutionsOf(prog, f, MaxBlocks)

\* A unit's analysis has just ended.
UnitDone ==
  /\ status = "done"
  /\ topFunction \in AnalyzedFunctions(prog) \ unitsLeft

\* Between the entry and the exit block of each function is one other.
HasOneBlockEach(p) == \A f \in DOMAIN p : p[f].last = 2

\* A report is real: some execution has this bug at the statement reported.
IsReal(b) ==
  \E f \in AnalyzedFunctions(prog) : \E x \in UnitExecutions(f) :
    \E i \in 1 .. Len(x) :
      x[i].at = b.bugStmt /\ b.bugType \in Kinds(x, i, b.currentVar)

(***************************************************************************)
(* Without branches, and with calls at the ends of functions only, the     *)
(* first misuse of each member in a unit is reported where it happens,     *)
(* with all that is wrong with it, and nothing is made up, but for         *)
(* accesses outside a transaction in a function of two blocks or more:     *)
(* the engine visits the second block again, and the meet with what the    *)
(* block started from before leaves no transaction open (LogLattice.h).  A *)
(* transaction and a log must be handed down the calls and from block to   *)
(* block, and what the second visit makes up must come too late to hide    *)
(* the first misuse.                                                       *)
(***************************************************************************)
FirstMisusesReported ==
  UnitDone /\ IsStraight(prog) /\ CallsAreLast(prog) =>
    /\ \A x \in UnitExecutions(topFunction) : \A i \in 1 .. Len(x) :
         \A v \in LogField : IsFirstMisuse(x, i, v) =>
           Kinds(x, i, v) \subseteq
             {b.bugType : b \in {c \in manager.bugs :
                                   c.bugStmt = x[i].at /\ c.currentVar = v}}
    /\ \A b \in manager.bugs :
         b.bugType # "OutsideTx" \/ HasOneBlockEach(prog) => IsReal(b)

(***************************************************************************)
(* The engine meets every call of unit f once.  A call after a branch may  *)
(* be met again with another number of open transactions, which makes it a *)
(* call to analyse.  A case of a switch, visited too early, knows no       *)
(* member, and if it uses one the plugin dies.                             *)
(***************************************************************************)
MeetsCallsOnce(p, f) == CallsOnOnePath(p) /\ ContextsTold(p, f)


\* reportBugs dereferences the first log of a double log.
LogStmtKnown ==
  \A b \in manager.bugs : b.bugType = "DoubleLog" => b.logStmt # NullStmt

\* A unit that logs a member and mentions it nowhere else
LogsForeign(f) ==
  \E s \in UnitStmts(prog, f) :
    s.op = "log" /\ s.var \in LogField \ UnitVariables(prog, f)

(***************************************************************************)
(* A unit that logs a member it does not mention elsewhere puts a value    *)
(* without a type in its state: a merge asserts, or else a comparison ends *)
(* the process, at the latest that of the function's results with          *)
(* themselves.  No other unit ends so, and no such unit is done, unless a  *)
(* block is analysed before the values that reach it are there.            *)
(***************************************************************************)
LogDeathExplained ==
  Analyzer!InOrder(prog) =>
    /\ status = "aborted" => LogsForeign(topFunction)
    /\ UnitDone => ~LogsForeign(topFunction)

(***************************************************************************)
(* "Access to <member> outside transaction" (LogBugReporter.h): every such *)
(* report is of an access that some execution makes outside a transaction. *)
(***************************************************************************)
OutsideTxReal ==
  UnitDone =>
    \A b \in manager.bugs : b.bugType = "OutsideTx" => IsReal(b)
=============================================================================
