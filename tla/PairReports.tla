---------------------------- MODULE PairReports ----------------------------
(* What the pair checker's reports, crashes and end mean for the program. *)
EXTENDS PairChecker, Executions

CONSTANT MaxBlocks  \* the length of the executions compared, in blocks

UnitExecutions(f) == ExecutionsOf(prog, f, MaxBlocks)

(***************************************************************************)
(* The reference definition of an early write, on an execution x.          *)
(***************************************************************************)

\* The write to v at j is ordered before step i the way PI asks for.
IsOrdered(x, j, i, PI, v) ==
  \/ \E k \in j + 1 .. i - 1 : IsOpOn(x[k], "flushFence", v)
  \/ /\ ~PI.isScl
     /\ \E k, m \in j + 1 .. i - 1 :
          k < m /\ IsOpOn(x[k], "flush", v) /\ IsOp(x[m], "pfence")
  \/ /\ PI.isScl
     /\ \E k \in j + 1 .. i - 1 :
          IsOp(x[k], "pfence") \/ IsOp(x[k], "vfence")

\* Step i of x writes v before an earlier write to its partner is ordered.
WritesTooEarly(x, i, v, p) ==
  /\ IsOpOn(x[i], "assign", v)
  /\ \E PI \in GetPairInfoSet(v) :
       /\ GetPairND(PI, v) = p
       /\ \E j \in 1 .. i - 1 :
            IsOpOn(x[j], "assign", p) /\ ~IsOrdered(x, j, i, PI, p)

\* A unit's analysis has just ended.
UnitDone ==
  /\ status = "done"
  /\ topFunction \in AnalyzedFunctions(prog) \ unitsLeft

-----------------------------------------------------------------------------
\* Some execution of an analysed function reaches the statement reported
\* and writes the variable there before the partner is ordered.
IsReal(bug) ==
  \E f \in AnalyzedFunctions(prog) : \E x \in UnitExecutions(f) :
    \E i \in 1 .. Len(x) :
      /\ x[i].at = bug.bugStmt
      /\ WritesTooEarly(x, i, bug.currentVar, bug.pairVar)

(***************************************************************************)
(* The engine meets every call of unit f once.  In other programs it may   *)
(* go on without the effect of a call, and both properties below fail (see *)
(* MessagesTrue).  One path to the call is not enough: the block of a call *)
(* is visited again when a merge has reset the part of a value that its    *)
(* type does not use.                                                      *)
(***************************************************************************)
MeetsCallsOnce(p, f) == CallsComeFirst(p) /\ ContextsTold(p, f)

(***************************************************************************)
(* Every report is real where each call is met once, whatever the branches *)
(* and loops after the calls and in the callees: what survives the merges, *)
(* the skipped blocks and the suppression must not accuse a program that   *)
(* is right.                                                               *)
(***************************************************************************)
ReportsReal ==
  UnitDone /\ (\A f \in AnalyzedFunctions(prog) : MeetsCallsOnce(prog, f)) =>
    \A bug \in manager.bugs : IsReal(bug)

(***************************************************************************)
(* Without branches, and with each call met once, nothing is missed: a     *)
(* variable that the unit writes before its partner is ordered has been    *)
(* reported.  A call must hand its exit state back to the caller, a unit   *)
(* must not inherit what an earlier unit suppressed, and the analysis must *)
(* reach every statement.                                                  *)
(***************************************************************************)
NoneMissed ==
  UnitDone /\ IsStraight(prog) /\ MeetsCallsOnce(prog, topFunction) =>
    \A x \in UnitExecutions(topFunction) : \A i \in 1 .. Len(x) :
      \A v, p \in UsedVars :
        WritesTooEarly(x, i, v, p) => v \in manager.bugged

\* A unit that flushes a variable none of its functions mention elsewhere
FlushesForeign(f) ==
  \E g \in ReachFrom(prog, {f}) : \E s \in Stmts(prog, g) :
    /\ s.op \in {"flush", "flushFence"}
    /\ s.var \in UsedVars \ UnitVariables(prog, f)

CallsWithoutBody(f) ==
  \E g \in ReachFrom(prog, {f}) : ~(Calls(prog, g) \subseteq DOMAIN prog)

\* A recursive function or a call through a pointer under an analysed one
CannotTrack ==
  \E f \in AnalyzedFunctions(prog) : \E g \in ReachFrom(prog, {f}) :
    IsRecursive(prog, g) \/ CallsByPointer(prog, g)

\* A segmentation fault has one of three of the reasons below, and with the
\* first two of them no unit is ever analysed.
CrashExplained ==
  /\ status = "segfault" => CannotTrack \/ CallsWithoutBody(topFunction)
  /\ UnitDone => ~CannotTrack

(***************************************************************************)
(* The plugin dies for four reasons and from each of them: while parsing   *)
(* of recursion and of calls through pointers, in a unit of a call of a    *)
(* function without a body and of a flush of a used variable that is not   *)
(* mentioned outside of flushes.  Every other program is analysed to the   *)
(* end, unless a block is analysed before the values that reach it are     *)
(* there: what it writes then has no type.                                 *)
(***************************************************************************)
DeathExplained ==
  /\ CrashExplained
  /\ Analyzer!InOrder(prog) =>
       /\ status = "aborted" => FlushesForeign(topFunction)
       /\ UnitDone => /\ ~CallsWithoutBody(topFunction)
                      /\ ~FlushesForeign(topFunction)

(***************************************************************************)
(* The assertion in checkBug: a partner found unordered has a last         *)
(* location.  The table of locations is the unit's, the state belongs to   *)
(* one block in one context, so each entry of the one must be backed by    *)
(* the other whatever the order in which blocks and calls were analysed.   *)
(***************************************************************************)
LastLocationKnown ==
  /\ \A bug \in manager.bugs : bug.pairStmt # NullStmt
  /\ \A ctx \in DOMAIN allResults : \A key \in DOMAIN allResults[ctx] :
       \A v \in DOMAIN allResults[ctx][key] :
         IsWriteFlush(allResults[ctx][key][v]) =>
           LastLocation(manager, v) # NullStmt

\* The analysis of the translation unit comes to an end.
Termination == <>Analyzer!Finished

-----------------------------------------------------------------------------
(* What the comments and assertions of the code say, and it does not do *)

AtBlockStart == status = "running" /\ stack # <<>> /\ Analyzer!Top.pos = 1

\* The blocks before the current one whose exit state is stored
StoredPredecessors ==
  {p \in Range(Analyzer!Predecessors(Analyzer!Top.fn, Analyzer!Top.block)) :
     Analyzer!ExitKey(Analyzer!Top.fn, p)
       \in DOMAIN Analyzer!Results(Analyzer!Top)}

(***************************************************************************)
(* mergeInState, "if var exists meet": the state a block starts from is at *)
(* or below the exit state of each predecessor.                            *)
(***************************************************************************)
MergeBelowPredecessors ==
  AtBlockStart =>
    \A p \in StoredPredecessors :
      LET exit == Analyzer!StateAt(Analyzer!Results(Analyzer!Top),
                                   Analyzer!ExitKey(Analyzer!Top.fn, p))
      IN  \A v \in DOMAIN exit :
            /\ Analyzer!Top.state[v].dcl <= exit[v].dcl
            /\ Analyzer!Top.state[v].scl <= exit[v].scl

(***************************************************************************)
(* The end of computeDataflow, "if function changed update all callers":   *)
(* when a function returns with other results than it was invoked with,    *)
(* the callers known for it are on the worklist.                           *)
(***************************************************************************)
CallersRequeued ==
  [][(status = "running" /\ stack # <<>> /\ Len(stack') < Len(stack)
      /\ Analyzer!Results(Analyzer!Top) # Analyzer!Top.before) =>
       \A c \in callers :
         c[1] = Analyzer!FunctionContext(Analyzer!Top) =>
           c[2] \in Range(contextWork')]_<<stack, contextWork>>

(***************************************************************************)
(* reportBugs, "Error writing <variable> commit <partner>": some execution *)
(* needs that commit, where a call is met twice too.                       *)
(***************************************************************************)
MessagesTrue == UnitDone => \A bug \in manager.bugs : IsReal(bug)
=============================================================================
