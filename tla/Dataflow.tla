------------------------------ MODULE Dataflow ------------------------------
(***************************************************************************)
(* The interprocedural dataflow engine                                     *)
(* (include/dataflow_util/{DataflowAnalysis,ProgramLocation}.h), for one   *)
(* analysed function.  It is a C++ template over a Manager; here the       *)
(* Manager's operations are constant operators and its mutable part the    *)
(* variable manager.                                                       *)
(*                                                                         *)
(* computeDataflow(function, context) recurses through analyzeCall.  The   *)
(* C++ stack is the variable stack, one frame per active invocation, and   *)
(* each action is what the engine does between two of its tests: take an   *)
(* entry off a worklist, visit one statement, finish a block, return.      *)
(***************************************************************************)
EXTENDS Naturals, Sequences, FiniteSets, SequencesExt

CONSTANTS
  Statement,             \* the statements, records with a field op
  Programs,              \* the programs to analyse, see ProgramsAssumption
  InitManager(_, _),     \* the Manager when unit f of program p is analysed
  InitTopValues(_),      \* the Manager's state at the entry of the unit
  ApplyTransfer(_, _, _, _),  \* its transfer function
  LatMeet(_, _),         \* LatVal::meet as mergeInState calls it
  LatAssertFailed,       \* the lattice value of a meet that aborts
  LatEqualFails(_),      \* the lattice values whose operator== aborts
  DumpFails(_)           \* the lattice values whose dump aborts

(***************************************************************************)
(* A program maps each function with a body to its control-flow graph:     *)
(* blocks are numbered as clang numbers them, 0 the exit block and `last'  *)
(* the entry block, with successors and predecessors in clang's order.     *)
(* An edge is entered at both of its ends.  Functions without a body are   *)
(* not in the domain of the program.  Only the entry and the exit block    *)
(* may be empty: ExitKey would read past the end of another block.         *)
(***************************************************************************)
IsGraph(g) ==
  /\ g.last \in Nat \ {0}
  /\ g.elems \in [0 .. g.last -> Seq(Statement)]
  /\ g.succ \in [0 .. g.last -> Seq(0 .. g.last)]
  /\ g.pred \in [0 .. g.last -> Seq(0 .. g.last)]
  /\ \A b \in 0 .. g.last : g.elems[b] = <<>> <=> b \in {0, g.last}
  /\ \A b, c \in 0 .. g.last :
       (\E i \in 1 .. Len(g.succ[b]) : g.succ[b][i] = c)
         <=> (\E i \in 1 .. Len(g.pred[c]) : g.pred[c][i] = b)

\* The engine, which goes through the blocks from the last to the first, has
\* met a predecessor of each block before it.  So it is in what clang builds
\* for code that neither is dead nor loops for ever, but for a switch, which
\* has a lower number than its cases.
IsReached(g) ==
  \A b \in 0 .. g.last - 1 : \E i \in 1 .. Len(g.pred[b]) : g.pred[b][i] > b

InOrder(p) == \A f \in DOMAIN p : IsReached(p[f])

ASSUME ProgramsAssumption ==
  \A p \in Programs : \A f \in DOMAIN p : IsGraph(p[f])

VARIABLES
  prog,         \* the program (never changes)
  topFunction,  \* the function whose unit is analysed
  manager,      \* the Manager: active unit and bug reporter
  contextWork,  \* function contexts still to analyse, the next one last
  allResults,   \* context -> location -> abstract state
  callers,      \* <<toCall, toUpdate>> pairs of function contexts
  active,       \* the function contexts being analysed
  stack,        \* the invocations of computeDataflow, innermost last
  status        \* "running", "done", or how the process died

vars == <<prog, topFunction, manager, contextWork, allResults, callers, active,
          stack, status>>

-----------------------------------------------------------------------------
(* ProgramLocation.h: locations are keyed by the pointer they hold *)

Exit == 0
Entry(f) == prog[f].last
Elements(f, b) == prog[f].elems[b]
Successors(f, b) == prog[f].succ[b]
Predecessors(f, b) == prog[f].pred[b]

FunctionKey(f) == <<f>>
BlockKey(f, b) == <<f, b>>
StmtKey(f, b, i) == <<f, b, i>>

IsEntryExit(f, b) == b \in {Entry(f), Exit}

\* The entry and the exit block have one key for both ends; the other blocks
\* end at their last statement.
ExitKey(f, b) ==
  IF IsEntryExit(f, b) THEN BlockKey(f, b)
                       ELSE StmtKey(f, b, Len(Elements(f, b)))

\* PlContext: the last two call sites
NoCall == <<>>
TopContext == [caller |-> NoCall, callee |-> NoCall]

\* A context that does not tell call sites apart.
PlContextShared(X, CE) == X

PlContext(X, CE) == [caller |-> X.callee, callee |-> CE]

-----------------------------------------------------------------------------
(* Abstract states and results *)

EmptyState == [v \in {} |-> NoCall]
EmptyResults == [k \in {} |-> EmptyState]

\* operator[] of the maps: a missing entry reads as the default value.
StateAt(results, key) ==
  IF key \in DOMAIN results THEN results[key] ELSE EmptyState
ResultsOf(all, ctx) == IF ctx \in DOMAIN all THEN all[ctx] ELSE EmptyResults

Assign(results, key, state) ==
  [k \in DOMAIN results \cup {key} |-> IF k = key THEN state ELSE results[k]]
AssignIn(all, ctx, key, state) ==
  [c \in DOMAIN all \cup {ctx} |->
     IF c = ctx THEN Assign(ResultsOf(all, ctx), key, state) ELSE all[c]]

MergeInState(out, in) ==
  [v \in DOMAIN out \cup DOMAIN in |->
     IF v \notin DOMAIN in THEN out[v]
     ELSE IF v \in DOMAIN out THEN LatMeet(out[v], in[v])
     ELSE in[v]]

\* A merge that takes the states its predecessors start from.
MergePrevStatesOfEntries(results, f, b) ==
  LET preds == Predecessors(f, b)
      own   == MergeInState(EmptyState, StateAt(results, BlockKey(f, b)))
      merged[i \in 0 .. Len(preds)] ==
        IF i = 0 THEN own
        ELSE MergeInState(merged[i-1], StateAt(results, BlockKey(f, preds[i])))
  IN  merged[Len(preds)]

MergePrevStates(results, f, b) ==
  LET preds == Predecessors(f, b)
      own   == MergeInState(EmptyState, StateAt(results, BlockKey(f, b)))
      merged[i \in 0 .. Len(preds)] ==
        IF i = 0 THEN own
        ELSE MergeInState(merged[i-1], StateAt(results, ExitKey(f, preds[i])))
  IN  merged[Len(preds)]

Aborts(state) == \E v \in DOMAIN state : state[v] = LatAssertFailed

(***************************************************************************)
(* x == y for two states: std::map compares the sizes, then the entries in *)
(* the order of the variables' addresses up to the first that differ.  A   *)
(* lattice whose values may not be compared ends the process when one of   *)
(* those is met before a difference.                                       *)
(***************************************************************************)
CompareMayFail(x, y) ==
  /\ \E v \in DOMAIN x : v \in DOMAIN y /\ LatEqualFails(x[v])
  /\ Cardinality(DOMAIN x) = Cardinality(DOMAIN y)

CompareMayEnd(x, y) ==
  CompareMayFail(x, y) =>
    \E v \in DOMAIN x :
      v \notin DOMAIN y \/ (x[v] # y[v] /\ ~LatEqualFails(x[v]))

\* A comparison of results with themselves meets every value.
CompareResultsFails(results) ==
  \E key \in DOMAIN results : \E v \in DOMAIN results[key] :
    LatEqualFails(results[key][v])

-----------------------------------------------------------------------------
(* Frames *)

\* before is a history: the results of the context when the frame was pushed.
Frame(f, ctx, results) ==
  [fn |-> f, ctx |-> ctx,
   work |-> [b \in 1 .. Entry(f) + 1 |-> b - 1], \* addBlocksToWorklist
   block |-> Exit, pos |-> 0,                    \* pos 0: between two blocks
   state |-> EmptyState, oldExit |-> EmptyState,
   before |-> results]

Top == Last(stack)
SetTop(frame) == [stack EXCEPT ![Len(stack)] = frame]
Results(frame) == ResultsOf(allResults, frame.ctx)
CurrentStmt(frame) == Elements(frame.fn, frame.block)[frame.pos]
CurrentKey(frame) == StmtKey(frame.fn, frame.block, frame.pos)
FunctionContext(frame) == <<frame.fn, frame.ctx>>

\* An entry state that forgets what the caller handed over.
EntryStateTop(results, f) == InitTopValues(manager)

(***************************************************************************)
(* getFunctionResults: a function that was called starts from the state    *)
(* stored under its own key, the unit itself from the lattice's top.       *)
(***************************************************************************)
EntryState(results, f) ==
  IF FunctionKey(f) \in DOMAIN results
  THEN results[FunctionKey(f)]
  ELSE InitTopValues(manager)

\* The start of computeDataflow(f, ctx); base is the stack it is pushed on.
Invoke(f, ctx, base, all) ==
  /\ active' = active \cup {<<f, ctx>>}
  /\ allResults' = AssignIn(all, ctx, BlockKey(f, Entry(f)),
                            EntryState(ResultsOf(all, ctx), f))
  /\ stack' = Append(base, Frame(f, ctx, ResultsOf(allResults, ctx)))

-----------------------------------------------------------------------------
(* Initial state: the constructor *)

Construct(f) ==
  /\ contextWork = <<<<f, TopContext>>>>
  /\ allResults = [c \in {} |-> EmptyResults]
  /\ callers = {}
  /\ active = {}
  /\ stack = <<>>

Init ==
  /\ prog \in Programs
  /\ topFunction \in DOMAIN prog
  /\ manager = InitManager(prog, topFunction)
  /\ status = "running"
  /\ Construct(topFunction)

Running == status = "running"
InBlocks == Running /\ stack # <<>> /\ Top.pos = 0
InStmts == Running /\ stack # <<>> /\ Top.pos > 0
                   /\ Top.pos <= Len(Elements(Top.fn, Top.block))

-----------------------------------------------------------------------------
(* The public computeDataflow *)

\* A loop over contexts that does not take its entry off the worklist.
PopContextKeep ==
  /\ Running /\ stack = <<>> /\ contextWork # <<>>
  /\ LET work == Last(contextWork)
     IN  Invoke(work[1], work[2], <<>>, allResults)
  /\ UNCHANGED <<prog, topFunction, manager, contextWork, callers, status>>

PopContext ==
  /\ Running /\ stack = <<>> /\ contextWork # <<>>
  /\ contextWork' = Front(contextWork)
  /\ LET work == Last(contextWork)
     IN  Invoke(work[1], work[2], <<>>, allResults)
  /\ UNCHANGED <<prog, topFunction, manager, callers, status>>

-----------------------------------------------------------------------------
(* The loop over blocks *)

\* Take the last block off the worklist and look at its merged state.
NextBlock(step(_, _, _)) ==
  /\ InBlocks /\ Top.work # <<>>
  /\ LET b      == Last(Top.work)
         merged == MergePrevStates(Results(Top), Top.fn, b)
     IN  step([Top EXCEPT !.work = Front(@)], b, merged)

OldEntry(frame, b) == StateAt(Results(frame), BlockKey(frame.fn, b))

Same(frame, b, merged) ==
  merged = OldEntry(frame, b) /\ merged # EmptyState

SkipBlock ==
  /\ NextBlock(LAMBDA frame, b, merged :
       /\ ~Aborts(merged) /\ CompareMayEnd(merged, OldEntry(frame, b))
       /\ Same(frame, b, merged)
       /\ stack' = SetTop(frame))
  /\ UNCHANGED <<prog, topFunction, manager, contextWork, allResults, callers,
                 active, status>>

EnterBlock ==
  /\ NextBlock(LAMBDA frame, b, merged :
       /\ ~Aborts(merged) /\ CompareMayEnd(merged, OldEntry(frame, b))
       /\ ~Same(frame, b, merged)
       /\ allResults' = AssignIn(allResults, frame.ctx,
                                 BlockKey(frame.fn, b), merged)
       /\ stack' = SetTop([frame EXCEPT
            !.block   = b,
            !.pos     = 1,
            !.state   = merged,
            !.oldExit = StateAt(Results(frame), ExitKey(frame.fn, b))]))
  /\ UNCHANGED <<prog, topFunction, manager, contextWork, callers, active,
                 status>>

\* The assertion in the lattice's constructor fails in the merge, or the
\* comparison with the old entry state does.
MergeFails ==
  NextBlock(LAMBDA frame, b, merged :
    Aborts(merged) \/ CompareMayFail(merged, OldEntry(frame, b)))

AtBlockEnd == /\ Running /\ stack # <<>>
              /\ Top.pos = Len(Elements(Top.fn, Top.block)) + 1

\* A block whose new exit state reaches nobody.
FinishBlockQuietly ==
  /\ AtBlockEnd /\ CompareMayEnd(Top.state, Top.oldExit)
  /\ allResults' = IF Top.state = Top.oldExit THEN allResults
                   ELSE AssignIn(allResults, Top.ctx,
                                 ExitKey(Top.fn, Top.block), Top.state)
  /\ stack' = SetTop([Top EXCEPT !.pos = 0])
  /\ UNCHANGED <<prog, topFunction, manager, contextWork, callers, active,
                 status>>

\* All statements are done: the block's exit state and its successors.
FinishBlock ==
  /\ AtBlockEnd /\ CompareMayEnd(Top.state, Top.oldExit)
  /\ IF Top.state = Top.oldExit
     THEN /\ stack' = SetTop([Top EXCEPT !.pos = 0])
          /\ UNCHANGED allResults
     ELSE /\ allResults' = AssignIn(allResults, Top.ctx,
                                    ExitKey(Top.fn, Top.block), Top.state)
          /\ stack' = SetTop([Top EXCEPT
               !.pos  = 0,
               !.work = @ \o Successors(Top.fn, Top.block)])
  /\ UNCHANGED <<prog, topFunction, manager, contextWork, callers, active,
                 status>>

-----------------------------------------------------------------------------
(* analyzeStmts, analyzeStmt *)

\* getCEIfAnalyzedFunction: a direct call of a function that is not skipped.
IsAnalyzedCall(s) == s.op = "call"

Advance(frame) == [frame EXCEPT !.pos = @ + 1]

TransferStmt ==
  /\ InStmts /\ ~IsAnalyzedCall(CurrentStmt(Top))
  /\ LET key == CurrentKey(Top)
         r   == ApplyTransfer(key, CurrentStmt(Top), Top.state, manager)
     IN  /\ manager' = r.manager
         /\ stack' = SetTop([Advance(Top) EXCEPT !.state = r.state])
         /\ allResults' = IF r.changed
                          THEN AssignIn(allResults, Top.ctx, key, r.state)
                          ELSE allResults
  /\ UNCHANGED <<prog, topFunction, contextWork, callers, active, status>>

Callee == CurrentStmt(Top).callee
CalleeContext == PlContext(Top.ctx, CurrentKey(Top))
InCall == InStmts /\ IsAnalyzedCall(CurrentStmt(Top))

\* getFunctionExitKey asks for the graph of a function that has none.
CallWithoutBody ==
  /\ InCall /\ Callee \notin DOMAIN prog
  /\ status' = "segfault"
  /\ UNCHANGED <<prog, topFunction, manager, contextWork, allResults, callers,
                 active, stack>>

\* A call that does not ask whether it is being analysed.
CallIsKnownByState ==
  Top.state = StateAt(ResultsOf(allResults, CalleeContext), FunctionKey(Callee))

CallIsActive == <<Callee, CalleeContext>> \in active
CalleeEntry == StateAt(ResultsOf(allResults, CalleeContext),
                       FunctionKey(Callee))

\* The call is being analysed, or was analysed from this very state.
CallIsKnown == CallIsActive \/ Top.state = CalleeEntry

SkipCall ==
  /\ InCall /\ Callee \in DOMAIN prog /\ CallIsKnown
  /\ CallIsActive \/ CompareMayEnd(Top.state, CalleeEntry)
  /\ stack' = SetTop(Advance(Top))
  /\ UNCHANGED <<prog, topFunction, manager, contextWork, allResults, callers,
                 active, status>>

EnterCall ==
  /\ InCall /\ Callee \in DOMAIN prog /\ ~CallIsKnown
  /\ CompareMayEnd(Top.state, CalleeEntry)
  /\ Invoke(Callee, CalleeContext, stack,
            AssignIn(allResults, CalleeContext, FunctionKey(Callee), Top.state))
  /\ UNCHANGED <<prog, topFunction, manager, contextWork, callers, status>>

-----------------------------------------------------------------------------
(* The end of computeDataflow(function, context) *)

FunctionDone == InBlocks /\ Top.work = <<>>
FunctionReturns == FunctionDone /\ ~CompareResultsFails(Results(Top))

\* The reference `results' and allResults[context] are one object.
FunctionChanged(frame, results) ==
  ResultsOf(allResults, frame.ctx) # results

\* The callers to analyse again if the function's results changed.
RequeueCallers ==
  contextWork' =
    IF FunctionChanged(Top, Results(Top))
    THEN contextWork \o SetToSeq({c[2] : c \in
                          {x \in callers : x[1] = FunctionContext(Top)}})
    ELSE contextWork

\* Back in the loop over contexts.
ReturnToTop ==
  /\ FunctionReturns /\ Len(stack) = 1
  /\ RequeueCallers
  /\ active' = active \ {FunctionContext(Top)}
  /\ stack' = <<>>
  /\ UNCHANGED <<prog, topFunction, manager, allResults, callers, status>>

\* Back in analyzeCall, in the caller's frame.
ReturnToCaller ==
  /\ FunctionReturns /\ Len(stack) > 1
  /\ RequeueCallers
  /\ active' = active \ {FunctionContext(Top)}
  /\ LET caller == Last(Front(stack))
         exit   == StateAt(Results(Top), BlockKey(Top.fn, Exit))
         depth  == Len(stack) - 1
     IN  IF caller.state = exit
         THEN /\ stack' = [Front(stack) EXCEPT ![depth] = Advance(caller)]
              /\ UNCHANGED <<allResults, callers>>
         ELSE /\ stack' = [Front(stack) EXCEPT
                             ![depth] = [Advance(caller) EXCEPT !.state = exit]]
              /\ callers' = callers \cup
                   {<<FunctionContext(Top), FunctionContext(caller)>>}
              /\ allResults' = AssignIn(allResults, caller.ctx,
                                        CurrentKey(caller), exit)
  /\ UNCHANGED <<prog, topFunction, manager, status>>

-----------------------------------------------------------------------------

(***************************************************************************)
(* The other comparisons of the engine, and where one ends the process.    *)
(* The last one, of the caller's state with the callee's exit state, meets *)
(* no value that the comparison of the callee's results has not met.       *)
(***************************************************************************)
ComparisonFails ==
  \/ AtBlockEnd /\ CompareMayFail(Top.state, Top.oldExit)
  \/ /\ InCall /\ Callee \in DOMAIN prog /\ ~CallIsActive
     /\ CompareMayFail(Top.state, CalleeEntry)
  \/ FunctionDone /\ CompareResultsFails(Results(Top))

\* An assertion ends the process.
Abort ==
  /\ MergeFails \/ ComparisonFails
  /\ status' = "aborted"
  /\ UNCHANGED <<prog, topFunction, manager, contextWork, allResults, callers,
                 active, stack>>

\* The end of the public computeDataflow: dumpDataflowResults.
DumpResults ==
  /\ Running /\ stack = <<>> /\ contextWork = <<>>
  /\ status' = IF \E ctx \in DOMAIN allResults :
                    \E key \in DOMAIN allResults[ctx] :
                      \E v \in DOMAIN allResults[ctx][key] :
                        DumpFails(allResults[ctx][key][v])
               THEN "aborted"
               ELSE "done"
  /\ UNCHANGED <<prog, topFunction, manager, contextWork, allResults, callers,
                 active, stack>>

Done == status # "running"

Step ==
  \/ PopContext \/ DumpResults
  \/ SkipBlock \/ EnterBlock \/ FinishBlock
  \/ TransferStmt \/ CallWithoutBody \/ SkipCall \/ EnterCall
  \/ ReturnToTop \/ ReturnToCaller \/ Abort

\* The process stops when the analysis is over.
Next == Step \/ (Done /\ UNCHANGED vars)

Spec == Init /\ [][Next]_vars

\* The engine is one sequential loop: it takes its next step.
FairSpec == Spec /\ WF_vars(Step)

-----------------------------------------------------------------------------
(* Properties *)

(***************************************************************************)
(* active is exactly the set of the invocations on the C++ stack, and no   *)
(* function is analysed twice at once in one context: the test in          *)
(* analyzeCall and the insert and erase in computeDataflow keep recursion  *)
(* finite.                                                                 *)
(***************************************************************************)
ActiveIsStack ==
  /\ active = {FunctionContext(stack[i]) : i \in 1 .. Len(stack)}
  /\ \A i, j \in 1 .. Len(stack) :
       FunctionContext(stack[i]) = FunctionContext(stack[j]) => i = j

(***************************************************************************)
(* While a call is analysed nothing changes under the frames that wait for *)
(* it: computeDataflow holds a reference into allResults and analyzeCall   *)
(* one to the callee's entry state across the recursion.                   *)
(***************************************************************************)
ResultsPrivate ==
  [][\A i \in 1 .. Len(stack) - 1 :
       Len(stack') > i =>
         ResultsOf(allResults', stack[i].ctx) = Results(stack[i])]_vars

\* What the transfer functions make of state on the way through a block.
Through(f, b, state) ==
  LET after[i \in 0 .. Len(Elements(f, b))] ==
        IF i = 0 THEN state
        ELSE ApplyTransfer(StmtKey(f, b, i), Elements(f, b)[i], after[i-1],
                        manager).state
  IN  after[Len(Elements(f, b))]

HasCall(f, b) ==
  \E i \in 1 .. Len(Elements(f, b)) : IsAnalyzedCall(Elements(f, b)[i])

Normal(state) == [v \in DOMAIN state |-> LatMeet(state[v], state[v])]

(***************************************************************************)
(* When computeDataflow returns, its results solve the dataflow equations: *)
(* merging the predecessors of a block once more gives the entry state the *)
(* block was last analysed with, and its exit state is what its statements *)
(* make of that.  No block the worklist forgot is left behind.             *)
(***************************************************************************)
IsSolution ==
  FunctionDone =>
    LET f == Top.fn
        results == Results(Top)
        entry(b) == StateAt(results, BlockKey(f, b))
    IN  \A b \in 0 .. Entry(f) :
          /\ Normal(MergePrevStates(results, f, b)) = Normal(entry(b))
          /\ ~HasCall(f, b) =>
               StateAt(results, ExitKey(f, b)) = Through(f, b, entry(b))

\* The analysis of a unit comes to its end.
Termination == <>Done
=============================================================================
