--------------------------- MODULE FlushedChecker ---------------------------
(***************************************************************************)
(* The flushed checker: MainAnalyzer and the dataflow engine over its      *)
(* lattice, and what its reports mean for the program                      *)
(* (lib/flushedchecker/analyzer/FlushedAnalyzer.h, preprocess/*.h)         *)
(***************************************************************************)
EXTENDS FlushedTransitions, GlobalParser, Executions

CONSTANTS Statement, Programs,  \* as in Dataflow
          MaxBlocks             \* the length of the executions compared

VARIABLES prog, topFunction, manager, contextWork, allResults, callers, active,
          stack, status, unitsLeft

-----------------------------------------------------------------------------
(* FlushedGlobalParser *)

FieldWrites(p, f) == {s \in Stmts(p, f) : s.op = "store" /\ s.field \in Field}

\* autoFindFunctionsVariables: what is stored in an annotated member ...
TrackedVariables(p) ==
  {s.var : s \in UNION {FieldWrites(p, f) : f \in DOMAIN p}}

ASSUME TrackedAssumption == \A p \in Programs : Pointer = TrackedVariables(p)

\* ... and the functions that do it.
AnalyzedFunctions(p) == {f \in DOMAIN p : FieldWrites(p, f) # {}}

ParseTerminates(p) == \A f \in AnalyzedFunctions(p) : Tracks(p, f)

\* fillTrackMap: assignments and flushes of a pointer do not count.
UnitVariables(p, f) ==
  {s.var : s \in UNION {FieldWrites(p, g) : g \in ReachFrom(p, {f})}}
    \cap Pointer

NextManager(p, f, m) == InitUnit(UnitVariables(p, f), m.bugs)
InitManager(p, f) == InitUnit({}, {})

\* The lattice asserts nothing: no value fails a meet, a comparison or a dump.
NoValue == Unseen + 1
NoFailure(val) == FALSE

Analyzer ==
  INSTANCE MainAnalyzer WITH InitTopValues   <- InitLatticeValues,
                             ApplyTransfer   <- HandleStmt,
                             LatMeet         <- Meet,
                             LatAssertFailed <- NoValue,
                             LatEqualFails   <- NoFailure,
                             DumpFails       <- NoFailure

Spec == Analyzer!FairAnalyzerSpec

-----------------------------------------------------------------------------
(* What is uncommitted in an execution x *)

\* The last assignment to p before step i, or the start of the unit
LastAssign(x, i, p) ==
  CHOOSE j \in 0 .. i - 1 :
    /\ j = 0 \/ IsOpOn(x[j], "assign", p)
    /\ \A k \in j + 1 .. i - 1 : ~IsOpOn(x[k], "assign", p)

FlushedBetween(x, j, i, p) ==
  \E k \in j + 1 .. i - 1 : IsOpOn(x[k], "flush", p)

\* What p points to at step i is durable.
IsDurable(x, i, p) ==
  \E m \in LastAssign(x, i, p) + 1 .. i - 1 :
    \/ IsOpOn(x[m], "flushFence", p)
    \/ IsOp(x[m], "pfence") /\ FlushedBetween(x, LastAssign(x, i, p), m, p)

\* p was flushed and neither fenced nor flushed for good since.
IsPending(x, i, p) ==
  \E k \in LastAssign(x, i, p) + 1 .. i - 1 :
    /\ IsOpOn(x[k], "flush", p)
    /\ \A m \in k + 1 .. i - 1 :
         ~IsOp(x[m], "pfence") /\ ~IsOpOn(x[m], "flushFence", p)

IsStoreOf(step, p) == IsOpOn(step, "store", p) /\ step.stmt.field \in Field

-----------------------------------------------------------------------------
(* Properties *)

UnitExecutions(f) == ExecutionsOf(prog, f, MaxBlocks)

\* A unit's analysis has just ended.
UnitDone ==
  /\ status = "done"
  /\ topFunction \in AnalyzedFunctions(prog) \ unitsLeft

(***************************************************************************)
(* The engine meets every call of unit f once, and every block after one   *)
(* that leads to it.  In other programs both properties below fail: it may *)
(* go on without the effect of a call, and a block analysed before the     *)
(* values that reach it are there, a case of a switch, knows of no commit. *)
(* A call in a branch is met once: a second visit of a block to which one  *)
(* path leads brings nothing new, and the block is skipped.                *)
(***************************************************************************)
MeetsCallsOnce(p, f) ==
  Analyzer!InOrder(p) /\ CallsOnOnePath(p) /\ ContextsTold(p, f)

(***************************************************************************)
(* Every report is real where each call is met once: in some execution of  *)
(* an analysed function the store reported is reached with a target that   *)
(* is not durable, or that was flushed again without a fence.  A state     *)
(* carried over a call, a merge or a second visit of a block must not      *)
(* accuse a store that is always right.                                    *)
(***************************************************************************)
ReportsReal ==
  UnitDone /\ (\A f \in AnalyzedFunctions(prog) : MeetsCallsOnce(prog, f)) =>
    \A b \in manager.bugs :
      \E f \in AnalyzedFunctions(prog) : \E x \in UnitExecutions(f) :
        \E i \in 1 .. Len(x) :
          /\ x[i].at = b.fieldStmt
          /\ ~IsDurable(x, i, b.trackedVar) \/ IsPending(x, i, b.trackedVar)

(***************************************************************************)
(* Without branches, and with each call met once, nothing is missed and    *)
(* nothing suppressed: every store that the unit reaches too early has a   *)
(* report of its own, in the functions the unit calls too.                 *)
(***************************************************************************)
NoneMissed ==
  UnitDone /\ IsStraight(prog) /\ MeetsCallsOnce(prog, topFunction) =>
    \A x \in UnitExecutions(topFunction) : \A i \in 1 .. Len(x) :
      \A p \in Pointer :
        IsStoreOf(x[i], p) /\ ~IsDurable(x, i, p) =>
          \E b \in manager.bugs : b.fieldStmt = x[i].at /\ b.trackedVar = p
=============================================================================
