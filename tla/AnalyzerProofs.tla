--------------------------- MODULE AnalyzerProofs ---------------------------
(***************************************************************************)
(* The engine's recursion: the invocations on the C++ stack are the active *)
(* function contexts, no two of them share a context, and an invocation    *)
(* writes to the results of its own context only.  For every program, and  *)
(* for every manager and lattice the engine is instantiated with.          *)
(*                                                                         *)
(* Then what holds of every abstract state in the analysis of a whole      *)
(* translation unit: whatever the transfer functions, the merge and the    *)
(* lattice's top keep.  For every program and every Manager that keeps the *)
(* promises below; the checkers' proofs instantiate this module.           *)
(*                                                                         *)
(* Then that the engine leaves nothing out: when the analysis of a unit is *)
(* over, every block of every function the unit calls has been analysed,   *)
(* and what a statement left in the state has come as far as a comparison  *)
(* or the dump.  For every program whose blocks the engine meets in order  *)
(* and every such Manager.  The results it then has solve the dataflow     *)
(* equations: the last part of the module.                                 *)
(***************************************************************************)
EXTENDS MainAnalyzer, WellFoundedInduction, FiniteSetTheorems, TLAPS

-----------------------------------------------------------------------------
(* The inductive invariant *)

\* The function that the call statement at key calls
CalleeAt(key) == Elements(key[1], key[2])[key[3]].callee

Calls == 1 .. Len(stack)

HasContext(frame) == {"fn", "ctx"} \subseteq DOMAIN frame

\* The i-th invocation is the unit's, or that of the call its context ends in.
Fits(i, frame) ==
  IF i = 1 THEN frame.fn = topFunction /\ frame.ctx = TopContext
           ELSE /\ frame.ctx.callee # NoCall
                /\ frame.fn = CalleeAt(frame.ctx.callee)

StackIsSeq == stack \in Seq({stack[i] : i \in Calls})
StackFits  == \A i \in Calls : HasContext(stack[i]) /\ Fits(i, stack[i])

\* With lookups that find what was stored (see Dataflow) only the unit itself is
\* ever in the list of contexts: see RequeuesNobody.
WorkIsUnit ==
  \/ contextWork = <<>>
  \/ stack = <<>> /\ contextWork = <<<<topFunction, TopContext>>>>

EngineInv == StackIsSeq /\ StackFits /\ WorkIsUnit /\ ActiveIsStack

-----------------------------------------------------------------------------
(* Sequences and results *)

\* What a stack with a member is
LEMMA StackFacts ==
  ASSUME StackIsSeq
  PROVE  /\ Len(stack) \in Nat /\ DOMAIN stack = Calls
         /\ stack # <<>> => Len(stack) \in Calls
BY DEF StackIsSeq, Calls

\* A sequence is one over its own members.
LEMMA SeqOfMembers ==
  ASSUME NEW S, NEW s \in Seq(S)
  PROVE  s \in Seq({s[i] : i \in 1 .. Len(s)})
OBVIOUS

\* Writing to the results of one context leaves those of the others alone.
LEMMA OthersKept ==
  ASSUME NEW all, NEW ctx, NEW key, NEW state, NEW c, c # ctx
  PROVE  ResultsOf(AssignIn(all, ctx, key, state), c) = ResultsOf(all, c)
BY DEF ResultsOf, AssignIn

(***************************************************************************)
(* RequeueCallers compares the function's results with a reference to      *)
(* themselves, so that no caller is analysed again.                        *)
(***************************************************************************)
LEMMA RequeuesNobody ==
  ASSUME RequeueCallers
  PROVE  contextWork' = contextWork
BY DEF RequeueCallers, FunctionChanged, Results

\* No two invocations share a context.
LEMMA ContextsDistinct ==
  ASSUME EngineInv, NEW i \in Calls, NEW j \in Calls,
         stack[i].ctx = stack[j].ctx
  PROVE  i = j
<1>1. TopContext.callee = NoCall
  BY DEF TopContext
<1>2. Fits(i, stack[i]) /\ Fits(j, stack[j])
  BY DEF EngineInv, StackFits
<1>3. stack[i].fn = stack[j].fn
  BY <1>1, <1>2 DEF Fits
<1>4. QED
  BY <1>3 DEF EngineInv, ActiveIsStack, FunctionContext, Calls

-----------------------------------------------------------------------------
(* What a step does to the stack *)

\* The invocations stay the ones they are.
LEMMA CallsKept ==
  ASSUME EngineInv, NEW S, stack' \in Seq(S), Len(stack') = Len(stack),
         \A i \in Calls : /\ HasContext(stack'[i])
                          /\ stack'[i].fn = stack[i].fn
                          /\ stack'[i].ctx = stack[i].ctx,
         UNCHANGED <<prog, topFunction, active>>,
         contextWork' = contextWork,
         stack # <<>>
  PROVE  EngineInv'
<1>1. Calls' = Calls
  BY DEF Calls
<1>2. StackIsSeq'
  BY SeqOfMembers DEF StackIsSeq, Calls
<1>3. StackFits'
  BY <1>1 DEF EngineInv, StackFits, Fits, CalleeAt, Elements
<1>4. WorkIsUnit'
  BY DEF EngineInv, WorkIsUnit
<1>5. ActiveIsStack'
  <2>1. \A i \in Calls : FunctionContext(stack[i])' = FunctionContext(stack[i])
    BY <1>1 DEF FunctionContext
  <2>2. QED
    BY <2>1, <1>1 DEF EngineInv, ActiveIsStack, Calls, FunctionContext
<1>6. QED
  BY <1>2, <1>3, <1>4, <1>5 DEF EngineInv

\* The innermost invocation goes on.
LEMMA TopKept ==
  ASSUME EngineInv, stack # <<>>,
         NEW frame, DOMAIN frame = DOMAIN Top,
         frame.fn = Top.fn, frame.ctx = Top.ctx,
         stack' = SetTop(frame),
         UNCHANGED <<prog, topFunction, contextWork, active>>
  PROVE  EngineInv'
<1> DEFINE S == {stack[i] : i \in Calls} \cup {frame}
<1>1. stack \in Seq(S) /\ frame \in S
  BY DEF EngineInv, StackIsSeq
<1> HIDE DEF S
<1>2. Len(stack) \in Calls /\ DOMAIN stack = Calls
  BY StackFacts DEF EngineInv
<1>3. /\ stack' \in Seq(S) /\ Len(stack') = Len(stack)
      /\ \A i \in Calls :
           stack'[i] = IF i = Len(stack) THEN frame ELSE stack[i]
  BY <1>1, <1>2 DEF SetTop, Calls
<1>4. \A i \in Calls : /\ HasContext(stack'[i])
                       /\ stack'[i].fn = stack[i].fn
                       /\ stack'[i].ctx = stack[i].ctx
  BY <1>2, <1>3 DEF EngineInv, StackFits, HasContext, Top, Last
<1>5. QED
  BY <1>3, <1>4, CallsKept

\* A function is invoked: one that is not being analysed in that context.
LEMMA Pushed ==
  ASSUME EngineInv,
         NEW f, NEW ctx, NEW all, Invoke(f, ctx, stack, all),
         <<f, ctx>> \notin active,
         \A frame : frame.fn = f /\ frame.ctx = ctx => Fits(Len(stack) + 1, frame),
         UNCHANGED <<prog, topFunction>>, contextWork' = <<>>
  PROVE  EngineInv'
<1> DEFINE new == Frame(f, ctx, ResultsOf(allResults, ctx))
           S   == {stack[i] : i \in Calls} \cup {new}
<1>1. stack \in Seq(S) /\ new \in S
  BY DEF EngineInv, StackIsSeq
<1>2. HasContext(new) /\ new.fn = f /\ new.ctx = ctx
  BY DEF Frame, HasContext
<1>3. stack' = Append(stack, new) /\ active' = active \cup {<<f, ctx>>}
  BY DEF Invoke
<1> HIDE DEF S, new
<1>4. Len(stack) \in Nat
  BY StackFacts DEF EngineInv
<1>5. /\ stack' \in Seq(S) /\ Calls' = Calls \cup {Len(stack) + 1}
      /\ stack'[Len(stack) + 1] = new /\ \A i \in Calls : stack'[i] = stack[i]
  BY <1>1, <1>3, <1>4 DEF Calls
<1>6. StackIsSeq'
  BY <1>5, SeqOfMembers DEF StackIsSeq, Calls
<1>7. StackFits'
  <2>1. \A i \in Calls : HasContext(stack'[i]) /\ Fits(i, stack'[i])
    BY <1>5 DEF EngineInv, StackFits
  <2>2. HasContext(new) /\ Fits(Len(stack) + 1, new)
    BY <1>2
  <2>3. QED
    BY <2>1, <2>2, <1>5 DEF StackFits, Fits, CalleeAt, Elements
<1>8. WorkIsUnit'
  BY DEF WorkIsUnit
<1>9. ActiveIsStack'
  <2>1. FunctionContext(new) = <<f, ctx>>
    BY <1>2 DEF FunctionContext
  <2>2. /\ active = {FunctionContext(stack[i]) : i \in Calls}
        /\ \A i, j \in Calls :
             FunctionContext(stack[i]) = FunctionContext(stack[j]) => i = j
    BY DEF EngineInv, ActiveIsStack, Calls
  <2>3. \A i \in Calls : FunctionContext(stack'[i]) = FunctionContext(stack[i])
    BY <1>5
  <2>4. active' = {FunctionContext(stack'[i]) : i \in Calls'}
    <3>1. {FunctionContext(stack'[i]) : i \in Calls'} =
            {FunctionContext(stack'[i]) : i \in Calls} \cup {<<f, ctx>>}
      BY <1>5, <2>1
    <3>2. {FunctionContext(stack'[i]) : i \in Calls} =
            {FunctionContext(stack[i]) : i \in Calls}
      BY <2>3
    <3>3. QED
      BY <1>3, <2>2, <3>1, <3>2
  <2>5. \A i, j \in Calls' :
          FunctionContext(stack'[i]) = FunctionContext(stack'[j]) => i = j
    BY <1>5, <2>1, <2>2, <2>3
  <2>6. QED
    BY <2>4, <2>5 DEF ActiveIsStack, Calls, FunctionContext
<1>10. QED
  BY <1>6, <1>7, <1>8, <1>9 DEF EngineInv

\* The innermost invocation returns; its caller may go on.
LEMMA Popped ==
  ASSUME EngineInv, stack # <<>>,
         NEW S, stack' \in Seq(S), Len(stack') = Len(stack) - 1,
         \A i \in 1 .. Len(stack) - 1 :
           /\ HasContext(stack'[i])
           /\ stack'[i].fn = stack[i].fn
           /\ stack'[i].ctx = stack[i].ctx,
         active' = active \ {FunctionContext(Top)},
         UNCHANGED <<prog, topFunction>>, contextWork' = contextWork
  PROVE  EngineInv'
<1>1. /\ Len(stack) \in Calls /\ Calls' = Calls \ {Len(stack)}
      /\ Calls' = 1 .. Len(stack) - 1
  BY StackFacts DEF EngineInv, Calls
<1>2. StackIsSeq'
  BY SeqOfMembers DEF StackIsSeq, Calls
<1>3. StackFits'
  BY <1>1 DEF EngineInv, StackFits, Fits, CalleeAt, Elements
<1>4. WorkIsUnit'
  BY DEF EngineInv, WorkIsUnit
<1>5. ActiveIsStack'
  <2>1. \A i \in Calls' : FunctionContext(stack'[i]) = FunctionContext(stack[i])
    BY <1>1 DEF FunctionContext
  <2>2. /\ active = {FunctionContext(stack[i]) : i \in Calls}
        /\ \A i, j \in Calls :
             FunctionContext(stack[i]) = FunctionContext(stack[j]) => i = j
    BY DEF EngineInv, ActiveIsStack, Calls
  <2>3. active' = {FunctionContext(stack'[i]) : i \in Calls'}
    BY <1>1, <2>1, <2>2 DEF Top, Last
  <2>4. \A i, j \in Calls' :
          FunctionContext(stack'[i]) = FunctionContext(stack'[j]) => i = j
    BY <1>1, <2>1, <2>2
  <2>5. QED
    BY <2>3, <2>4 DEF ActiveIsStack, Calls, FunctionContext
<1>6. QED
  BY <1>2, <1>3, <1>4, <1>5 DEF EngineInv

-----------------------------------------------------------------------------
(* The steps *)

LEMMA TopHasContext ==
  ASSUME EngineInv, stack # <<>>
  PROVE  HasContext(Top)
BY StackFacts DEF EngineInv, StackFits, Top, Last

\* The call that analyzeCall is about to follow fits the top of the stack.
LEMMA CallFits ==
  ASSUME EngineInv, stack # <<>>,
         NEW frame, frame.fn = Callee, frame.ctx = CalleeContext
  PROVE  Fits(Len(stack) + 1, frame)
<1>1. Len(stack) + 1 # 1
  BY StackFacts DEF EngineInv, Calls
<1>2. CalleeContext.callee = <<Top.fn, Top.block, Top.pos>>
  BY DEF CalleeContext, PlContext, CurrentKey, StmtKey
<1>3. CalleeAt(<<Top.fn, Top.block, Top.pos>>) = Callee
  BY DEF CalleeAt, Callee, CurrentStmt
<1>4. <<Top.fn, Top.block, Top.pos>> # NoCall
  BY DEF NoCall
<1>5. QED
  BY <1>1, <1>2, <1>3, <1>4 DEF Fits

LEMMA PopContextKeeps ==
  ASSUME EngineInv, PopContext
  PROVE  EngineInv'
<1>1. stack = <<>> /\ contextWork = <<<<topFunction, TopContext>>>>
  BY DEF EngineInv, WorkIsUnit, PopContext
<1>2. contextWork' = <<>>
  BY <1>1 DEF PopContext, Front
<1>3. Last(contextWork) = <<topFunction, TopContext>>
  BY <1>1 DEF Last
<1>4. Invoke(topFunction, TopContext, stack, allResults)
  BY <1>1, <1>3 DEF PopContext
<1>5. <<topFunction, TopContext>> \notin active
  BY <1>1 DEF EngineInv, ActiveIsStack
<1>6. \A frame : frame.fn = topFunction /\ frame.ctx = TopContext
                   => Fits(Len(stack) + 1, frame)
  BY <1>1 DEF Fits
<1>7. QED
  BY <1>2, <1>4, <1>5, <1>6, Pushed DEF PopContext

LEMMA EnterCallKeeps ==
  ASSUME EngineInv, EnterCall
  PROVE  EngineInv'
<1>1. stack # <<>> /\ contextWork' = <<>>
  BY DEF EngineInv, WorkIsUnit, EnterCall, InCall, InStmts
<1>2. <<Callee, CalleeContext>> \notin active
  BY DEF EnterCall, CallIsKnown, CallIsActive
<1>3. Invoke(Callee, CalleeContext, stack,
        AssignIn(allResults, CalleeContext, FunctionKey(Callee), Top.state))
  BY DEF EnterCall
<1>4. \A frame : frame.fn = Callee /\ frame.ctx = CalleeContext
                   => Fits(Len(stack) + 1, frame)
  BY <1>1, CallFits
<1>5. QED
  BY <1>1, <1>2, <1>3, <1>4, Pushed DEF EnterCall

\* The steps that change the frame of the innermost invocation
LEMMA TopStepKeeps ==
  ASSUME EngineInv,
         SkipBlock \/ EnterBlock \/ FinishBlock \/ TransferStmt \/ SkipCall
  PROVE  EngineInv'
<1>1. /\ stack # <<>>
      /\ UNCHANGED <<prog, topFunction, contextWork, active>>
  BY DEF SkipBlock, EnterBlock, FinishBlock, TransferStmt, SkipCall, NextBlock,
         InBlocks, InStmts, AtBlockEnd, InCall
<1>2. HasContext(Top)
  BY <1>1, TopHasContext
<1> DEFINE Goes(frame) == /\ DOMAIN frame = DOMAIN Top /\ frame.fn = Top.fn
                          /\ frame.ctx = Top.ctx /\ stack' = SetTop(frame)
<1>3. \E frame : Goes(frame)
  <2>1. CASE SkipBlock
    <3>1. stack' = SetTop([Top EXCEPT !.work = Front(@)])
      BY <2>1 DEF SkipBlock, NextBlock
    <3>2. QED
      BY <1>2, <3>1 DEF HasContext
  <2>2. CASE EnterBlock
    <3>1. PICK b, merged, old :
            stack' = SetTop([[Top EXCEPT !.work = Front(@)] EXCEPT
                       !.block = b, !.pos = 1, !.state = merged,
                       !.oldExit = old])
      BY <2>2 DEF EnterBlock, NextBlock
    <3>2. QED
      BY <1>2, <3>1 DEF HasContext
  <2>3. CASE FinishBlock
    <3>1. \/ stack' = SetTop([Top EXCEPT !.pos = 0])
          \/ stack' = SetTop([Top EXCEPT
               !.pos  = 0,
               !.work = @ \o Successors(Top.fn, Top.block)])
      BY <2>3 DEF FinishBlock
    <3>2. QED
      BY <1>2, <3>1 DEF HasContext
  <2>4. CASE TransferStmt
    <3>1. PICK s : stack' = SetTop([Advance(Top) EXCEPT !.state = s])
      BY <2>4 DEF TransferStmt
    <3>2. QED
      BY <1>2, <3>1 DEF HasContext, Advance
  <2>5. CASE SkipCall
    <3>1. stack' = SetTop(Advance(Top))
      BY <2>5 DEF SkipCall
    <3>2. QED
      BY <1>2, <3>1 DEF HasContext, Advance
  <2>6. QED
    BY <2>1, <2>2, <2>3, <2>4, <2>5
<1>4. QED
  BY <1>1, <1>3, TopKept

LEMMA ReturnToTopKeeps ==
  ASSUME EngineInv, ReturnToTop
  PROVE  EngineInv'
<1>1. /\ stack # <<>> /\ Len(stack) = 1 /\ stack' = <<>>
      /\ active' = active \ {FunctionContext(Top)}
      /\ UNCHANGED <<prog, topFunction>>
  BY DEF ReturnToTop, FunctionReturns, FunctionDone, InBlocks
<1>2. contextWork' = contextWork
  BY RequeuesNobody DEF ReturnToTop
<1>3. stack' \in Seq({}) /\ Len(stack') = Len(stack) - 1
  BY <1>1
<1>4. QED
  BY <1>1, <1>2, <1>3, Popped

\* What is on the stack after the return to a caller
LEMMA ReturnToCallerStack ==
  ASSUME EngineInv, ReturnToCaller
  PROVE  /\ Len(stack) - 1 \in Calls /\ Len(stack) > 1
         /\ Len(stack') = Len(stack) - 1
         /\ \E S : stack' \in Seq(S)
         /\ \A i \in 1 .. Len(stack) - 1 :
              /\ HasContext(stack'[i])
              /\ stack'[i].fn = stack[i].fn
              /\ stack'[i].ctx = stack[i].ctx
<1> DEFINE depth  == Len(stack) - 1
           caller == Last(Front(stack))
<1>1. Len(stack) \in Nat /\ Len(stack) > 1 /\ depth \in Calls
  BY StackFacts DEF EngineInv, ReturnToCaller, Calls
<1>2. /\ Front(stack) \in Seq({stack[i] : i \in Calls})
      /\ Len(Front(stack)) = depth
      /\ \A i \in 1 .. depth : Front(stack)[i] = stack[i]
  BY <1>1 DEF EngineInv, StackIsSeq, Front, Calls
<1>3. caller = stack[depth]
  BY <1>1, <1>2 DEF Last, Calls
<1>4. PICK frame : /\ stack' = [Front(stack) EXCEPT ![depth] = frame]
                   /\ \/ frame = Advance(caller)
                      \/ \E s : frame = [Advance(caller) EXCEPT !.state = s]
  BY DEF ReturnToCaller
<1>5. HasContext(stack[depth])
  BY <1>1 DEF EngineInv, StackFits
<1>6. /\ HasContext(frame) /\ frame.fn = stack[depth].fn
      /\ frame.ctx = stack[depth].ctx
  BY <1>3, <1>4, <1>5 DEF HasContext, Advance
<1>7. /\ stack' \in Seq({stack[i] : i \in Calls} \cup {frame})
      /\ Len(stack') = depth
      /\ \A i \in 1 .. depth : stack'[i] = IF i = depth THEN frame ELSE stack[i]
  BY <1>1, <1>2, <1>4
<1>8. \A i \in 1 .. depth : HasContext(stack[i])
  BY <1>1 DEF EngineInv, StackFits, Calls
<1>9. QED
  BY <1>1, <1>6, <1>7, <1>8

LEMMA ReturnToCallerKeeps ==
  ASSUME EngineInv, ReturnToCaller
  PROVE  EngineInv'
<1>1. /\ stack # <<>> /\ active' = active \ {FunctionContext(Top)}
      /\ UNCHANGED <<prog, topFunction>>
  BY DEF ReturnToCaller, FunctionReturns, FunctionDone, InBlocks
<1>2. contextWork' = contextWork
  BY RequeuesNobody DEF ReturnToCaller
<1>3. QED
  BY <1>1, <1>2, ReturnToCallerStack, Popped

\* Nothing the invariant speaks of changes.
LEMMA IdleKeeps ==
  ASSUME EngineInv,
         UNCHANGED <<prog, topFunction, contextWork, active, stack>>
  PROVE  EngineInv'
<1>1. Calls' = Calls
  BY DEF Calls
<1>2. StackIsSeq' /\ WorkIsUnit'
  BY <1>1 DEF EngineInv, StackIsSeq, WorkIsUnit
<1>3. StackFits'
  BY <1>1 DEF EngineInv, StackFits, Fits, CalleeAt, Elements
<1>4. ActiveIsStack'
  BY DEF EngineInv, ActiveIsStack, FunctionContext
<1>5. QED
  BY <1>2, <1>3, <1>4 DEF EngineInv

-----------------------------------------------------------------------------
(* The theorems *)

LEMMA EngineInitial == Init => EngineInv
<1> SUFFICES ASSUME Init PROVE EngineInv
  OBVIOUS
<1>1. /\ contextWork = <<<<topFunction, TopContext>>>> /\ stack = <<>>
      /\ active = {}
  BY DEF Init, Construct
<1>2. Calls = {}
  BY <1>1 DEF Calls
<1>3. QED
  BY <1>1, <1>2 DEF EngineInv, StackIsSeq, StackFits, WorkIsUnit,
                    ActiveIsStack, Calls

LEMMA EngineStep == EngineInv /\ [Next]_vars => EngineInv'
<1> SUFFICES ASSUME EngineInv, [Next]_vars PROVE EngineInv'
  OBVIOUS
<1>1. CASE PopContext
  BY <1>1, PopContextKeeps
<1>2. CASE EnterCall
  BY <1>2, EnterCallKeeps
<1>3. CASE SkipBlock \/ EnterBlock \/ FinishBlock \/ TransferStmt \/ SkipCall
  BY <1>3, TopStepKeeps
<1>4. CASE ReturnToTop
  BY <1>4, ReturnToTopKeeps
<1>5. CASE ReturnToCaller
  BY <1>5, ReturnToCallerKeeps
<1>6. CASE DumpResults \/ CallWithoutBody \/ Abort \/ UNCHANGED vars
  BY <1>6, IdleKeeps DEF DumpResults, CallWithoutBody, Abort, vars
<1>7. QED
  BY <1>1, <1>2, <1>3, <1>4, <1>5, <1>6 DEF Next, Step

THEOREM EngineInvariance == Spec => []EngineInv
BY EngineInitial, EngineStep, PTL DEF Spec

(***************************************************************************)
(* The invocations of computeDataflow on the C++ stack are exactly the     *)
(* active function contexts, and none is there twice.                      *)
(***************************************************************************)
THEOREM ActiveIsStackInvariance == Spec => []ActiveIsStack
<1>1. EngineInv => ActiveIsStack
  BY DEF EngineInv
<1>2. QED
  BY <1>1, EngineInvariance, PTL

\* What analyzeCall writes is in no context of an invocation that waits.
LEMMA CalleeContextIsNew ==
  ASSUME EngineInv, EnterCall, NEW i \in Calls
  PROVE  stack[i].ctx # CalleeContext
<1>1. stack # <<>>
  BY DEF EnterCall, InCall, InStmts
<1>2. SUFFICES ASSUME stack[i].ctx = CalleeContext PROVE FALSE
  OBVIOUS
<1>3. CalleeContext.callee = <<Top.fn, Top.block, Top.pos>>
  BY DEF CalleeContext, PlContext, CurrentKey, StmtKey
<1>4. CalleeAt(<<Top.fn, Top.block, Top.pos>>) = Callee
  BY DEF CalleeAt, Callee, CurrentStmt
<1>5. <<Top.fn, Top.block, Top.pos>> # TopContext.callee
  BY DEF TopContext, NoCall
<1>6. Fits(i, stack[i])
  BY DEF EngineInv, StackFits
<1>7. stack[i].fn = Callee
  BY <1>2, <1>3, <1>4, <1>5, <1>6 DEF Fits
<1>8. FunctionContext(stack[i]) \in active
  BY DEF EngineInv, ActiveIsStack, Calls
<1>9. <<Callee, CalleeContext>> \notin active
  BY DEF EnterCall, CallIsKnown, CallIsActive
<1>10. QED
  BY <1>2, <1>7, <1>8, <1>9 DEF FunctionContext

(***************************************************************************)
(* While a call is analysed no step writes to the results of an invocation *)
(* that waits for it, although all invocations share allResults.           *)
(***************************************************************************)
THEOREM ResultsArePrivate == Spec => ResultsPrivate
<1> DEFINE Private == \A i \in 1 .. Len(stack) - 1 :
                        Len(stack') > i =>
                          ResultsOf(allResults', stack[i].ctx) = Results(stack[i])
<1>1. EngineInv /\ [Next]_vars => [Private]_vars
  <2> SUFFICES ASSUME EngineInv, Next,
                      NEW i \in 1 .. Len(stack) - 1, Len(stack') > i
               PROVE  ResultsOf(allResults', stack[i].ctx) =
                        ResultsOf(allResults, stack[i].ctx)
    BY DEF Results
  <2>1. Len(stack) \in Calls /\ i \in Calls /\ i < Len(stack)
    BY StackFacts DEF EngineInv, Calls
  <2>2. Top.ctx # stack[i].ctx
    BY <2>1, ContextsDistinct DEF Top, Last
  <2>3. CASE SkipBlock \/ EnterBlock \/ FinishBlock \/ TransferStmt \/ SkipCall
    <3>1. \/ allResults' = allResults
          \/ \E key, state :
               allResults' = AssignIn(allResults, Top.ctx, key, state)
      <4>1. CASE SkipBlock \/ SkipCall
        BY <4>1 DEF SkipBlock, SkipCall
      <4>2. CASE EnterBlock
        <5>1. PICK key, state :
                allResults' = AssignIn(allResults,
                                [Top EXCEPT !.work = Front(@)].ctx, key, state)
          BY <4>2 DEF EnterBlock, NextBlock
        <5>2. [Top EXCEPT !.work = Front(@)].ctx = Top.ctx
          BY <2>1 DEF EngineInv, StackFits, HasContext, Top, Last
        <5>3. QED
          BY <5>1, <5>2
      <4>3. CASE FinishBlock
        BY <4>3 DEF FinishBlock
      <4>4. CASE TransferStmt
        BY <4>4 DEF TransferStmt
      <4>5. QED
        BY <2>3, <4>1, <4>2, <4>3, <4>4
    <3>2. QED
      BY <2>2, <3>1, OthersKept
  <2>4. CASE EnterCall
    <3>1. stack[i].ctx # CalleeContext
      BY <2>1, <2>4, CalleeContextIsNew
    <3>2. PICK all, key, state :
            /\ all = AssignIn(allResults, CalleeContext, key, state)
            /\ \E k, s : allResults' = AssignIn(all, CalleeContext, k, s)
      BY <2>4 DEF EnterCall, Invoke
    <3>3. QED
      BY <3>1, <3>2, OthersKept
  <2>5. CASE ReturnToCaller
    <3>1. /\ Len(stack') = Len(stack) - 1 /\ Len(stack) - 1 \in Calls
          /\ Len(stack) > 1
      BY <2>5, ReturnToCallerStack
    <3>2. stack[i].ctx # stack[Len(stack) - 1].ctx
      BY <2>1, <3>1, ContextsDistinct DEF Calls
    <3>3. Last(Front(stack)) = stack[Len(stack) - 1]
      BY <2>1, <3>1 DEF EngineInv, StackIsSeq, Last, Front, Calls
    <3>4. \/ allResults' = allResults
          \/ \E key, state :
               allResults' = AssignIn(allResults, Last(Front(stack)).ctx, key, state)
      BY <2>5 DEF ReturnToCaller
    <3>5. QED
      BY <3>2, <3>3, <3>4, OthersKept
  <2>6. CASE PopContext \/ ReturnToTop
    <3>1. Len(stack) <= 1
      BY <2>6 DEF PopContext, ReturnToTop
    <3>2. QED
      BY <2>1, <3>1 DEF Calls
  <2>7. CASE DumpResults \/ CallWithoutBody \/ Abort \/ UNCHANGED vars
    BY <2>7 DEF DumpResults, CallWithoutBody, Abort, vars
  <2>8. QED
    BY <2>3, <2>4, <2>5, <2>6, <2>7 DEF Next, Step
<1>2. QED
  BY <1>1, EngineInvariance, PTL DEF Spec, ResultsPrivate

-----------------------------------------------------------------------------
(***************************************************************************)
(* The analysis of a whole translation unit, with a Manager of which is    *)
(* known what follows                                                      *)
(***************************************************************************)

CONSTANTS
  StateOK(_, _, _, _),  \* of a program, its unit, a Manager and a state
  ManagerOK(_, _, _),   \* of a program, its unit and a Manager
  InUnit(_, _, _)       \* the functions of a unit of a program

-----------------------------------------------------------------------------
(* The promises *)

Blocks(p, f) == 0 .. p[f].last

\* InUnit holds all functions with a body that the unit may call.
ClosedUnder(p, f) ==
  /\ InUnit(p, f, f)
  /\ \A g \in DOMAIN p : InUnit(p, f, g) =>
       \A b \in Blocks(p, g) : \A i \in 1 .. Len(p[g].elems[b]) :
         LET s == p[g].elems[b][i]
         IN  IsAnalyzedCall(s) /\ s.callee \in DOMAIN p =>
               InUnit(p, f, s.callee)

ManagerStarts(p, f) ==
  /\ ManagerOK(p, f, InitManager(p, f))
  /\ \A g \in DOMAIN p : \A m :
       ManagerOK(p, g, m) => ManagerOK(p, f, NextManager(p, f, m))

StatesStart(p, f) ==
  \A m : ManagerOK(p, f, m) => /\ StateOK(p, f, m, EmptyState)
                               /\ StateOK(p, f, m, InitTopValues(m))

StatesMerge(p, f) ==
  \A m, x, y : StateOK(p, f, m, x) /\ StateOK(p, f, m, y) =>
                 StateOK(p, f, m, MergeInState(x, y))

\* A statement keeps the state it is applied to and all others.
StatementsKeep(p, f) ==
  \A m, x, key, s :
    ManagerOK(p, f, m) /\ StateOK(p, f, m, x) /\ key # <<>> =>
      LET r == ApplyTransfer(key, s, x, m)
      IN  /\ ManagerOK(p, f, r.manager) /\ StateOK(p, f, r.manager, r.state)
          /\ \A y : StateOK(p, f, m, y) => StateOK(p, f, r.manager, y)

Promises ==
  \A p \in Programs :
    /\ \A f \in DOMAIN p : IsGraph(p[f])
    /\ AnalyzedFunctions(p) \subseteq DOMAIN p
    /\ \A f \in DOMAIN p : /\ ClosedUnder(p, f) /\ ManagerStarts(p, f)
                           /\ StatesStart(p, f) /\ StatesMerge(p, f)
                           /\ StatementsKeep(p, f)

-----------------------------------------------------------------------------
(* The invariant *)

ResultsOK(p, f, m, all) ==
  \A ctx \in DOMAIN all : \A key \in DOMAIN all[ctx] :
    StateOK(p, f, m, all[ctx][key])

FrameOK(p, f, m, frame) ==
  /\ {"fn", "ctx", "work", "block", "pos", "state", "oldExit"}
       \subseteq DOMAIN frame
  /\ frame.fn \in DOMAIN p /\ InUnit(p, f, frame.fn)
  /\ frame.work \in Seq(Blocks(p, frame.fn))
  /\ frame.block \in Blocks(p, frame.fn)
  /\ frame.pos \in Nat
  /\ StateOK(p, f, m, frame.state)

\* Some function of unit f calls one without a body.
CallsNoBody(p, f) ==
  \E g \in DOMAIN p : InUnit(p, f, g) /\
    \E b \in Blocks(p, g) : \E i \in 1 .. Len(p[g].elems[b]) :
      LET s == p[g].elems[b][i]
      IN  IsAnalyzedCall(s) /\ s.callee \notin DOMAIN p

UnitKnown ==
  /\ prog \in Programs /\ topFunction \in DOMAIN prog
  /\ unitsLeft \subseteq AnalyzedFunctions(prog)

\* A segmentation fault has one of two reasons.
CrashKnown ==
  /\ status = "segfault" =>
       ~ParseTerminates(prog) \/ CallsNoBody(prog, topFunction)
  /\ status \in {"running", "done"} => ParseTerminates(prog)

StatesKept ==
  /\ ManagerOK(prog, topFunction, manager)
  /\ ResultsOK(prog, topFunction, manager, allResults)
  /\ \A i \in Calls : FrameOK(prog, topFunction, manager, stack[i])

AnalysisInv == UnitKnown /\ CrashKnown /\ EngineInv /\ StatesKept

-----------------------------------------------------------------------------
(* Results *)

\* A set of numbers has a smallest one.
LEMMA Smallest ==
  ASSUME NEW T \in SUBSET Nat, T # {}
  PROVE  \E n \in T : \A m \in T : n <= m
<1> DEFINE T2 == {0 .. n : n \in T}
           R == StrictSubsetOrdering(Nat)
<1>1. T2 \subseteq FiniteSubsetsOf(Nat) /\ T2 # {}
  <2>1. \A n \in T : IsFiniteSet(0 .. n)
    BY FS_Interval
  <2>2. \A n \in T : 0 .. n \in FiniteSubsetsOf(Nat)
    BY <2>1 DEF FiniteSubsetsOf
  <2>3. QED
    BY <2>2
<1>2. IsWellFoundedOn(R, FiniteSubsetsOf(Nat))
  BY FS_StrictSubsetOrderingWellFounded
<1> HIDE DEF T2, R
<1>3. PICK X \in T2 : \A Y \in T2 : ~(<<Y, X>> \in R)
  BY <1>1, <1>2, WFMin
<1>4. PICK n \in T : X = 0 .. n
  BY DEF T2
<1>5. \A m \in T : n <= m
  <2>1. SUFFICES ASSUME NEW m \in T, m < n PROVE FALSE
    BY <1>4
  <2>2. 0 .. m \in T2 /\ 0 .. m \subseteq 0 .. n /\ n \notin 0 .. m
    BY <2>1 DEF T2
  <2>3. <<0 .. m, 0 .. n>> \in R
    BY <2>2 DEF R, StrictSubsetOrdering
  <2>4. QED
    BY <1>3, <1>4, <2>2, <2>3
<1>6. QED
  BY <1>5

\* operator[] of the maps
LEMMA GoodAt ==
  ASSUME NEW p, NEW u, NEW m, StateOK(p, u, m, EmptyState),
         NEW all, ResultsOK(p, u, m, all), NEW ctx, NEW key
  PROVE  StateOK(p, u, m, StateAt(ResultsOf(all, ctx), key))
BY DEF ResultsOK, StateAt, ResultsOf, EmptyResults

\* operator[] of the maps, written to
LEMMA GoodAfterAssign ==
  ASSUME NEW p, NEW u, NEW m, NEW all, ResultsOK(p, u, m, all),
         NEW ctx, NEW key, NEW state, StateOK(p, u, m, state)
  PROVE  ResultsOK(p, u, m, AssignIn(all, ctx, key, state))
<1> DEFINE new == AssignIn(all, ctx, key, state)
<1> SUFFICES ASSUME NEW c \in DOMAIN new, NEW k \in DOMAIN new[c]
             PROVE  StateOK(p, u, m, new[c][k])
  BY DEF ResultsOK
<1>1. CASE c = ctx
  <2>1. new[c] = Assign(ResultsOf(all, ctx), key, state)
    BY <1>1 DEF AssignIn
  <2>2. k = key \/ k \in DOMAIN ResultsOf(all, ctx)
    BY <2>1 DEF Assign
  <2>3. new[c][k] = IF k = key THEN state ELSE ResultsOf(all, ctx)[k]
    BY <2>1, <2>2 DEF Assign
  <2>4. QED
    BY <2>2, <2>3 DEF ResultsOK, ResultsOf, EmptyResults
<1>2. CASE c # ctx
  <2>1. c \in DOMAIN all /\ new[c] = all[c]
    BY <1>2 DEF AssignIn
  <2>2. QED
    BY <2>1 DEF ResultsOK
<1>3. QED
  BY <1>1, <1>2

-----------------------------------------------------------------------------
(* The merge of the predecessors *)

\* Its recursive function, up to the n-th predecessor
MergeUpTo(results, f, b, n, g) ==
  [i \in 0 .. n |->
     IF i = 0 THEN MergeInState(EmptyState, StateAt(results, BlockKey(f, b)))
     ELSE MergeInState(g[i-1],
                       StateAt(results, ExitKey(f, Predecessors(f, b)[i])))]

LEMMA MergeUnfold ==
  ASSUME NEW results, NEW f, NEW b
  PROVE  MergePrevStates(results, f, b) =
           (CHOOSE g : g = MergeUpTo(results, f, b,
                             Len(Predecessors(f, b)), g))[Len(Predecessors(f, b))]
BY DEF MergePrevStates, MergeUpTo

LEMMA MergeExists ==
  ASSUME NEW results, NEW f, NEW b, NEW n \in Nat
  PROVE  \E g : g = MergeUpTo(results, f, b, n, g)
<1> DEFINE Fails == {k \in Nat : ~\E g : g = MergeUpTo(results, f, b, k, g)}
<1>1. SUFFICES ASSUME Fails # {} PROVE FALSE
  OBVIOUS
<1>2. PICK k \in Fails : \A m \in Fails : k <= m
  <2>1. Fails \in SUBSET Nat
    OBVIOUS
  <2> HIDE DEF Fails
  <2>2. QED
    BY <1>1, <2>1, Smallest
<1>3. k # 0
  <2>1. SUFFICES ASSUME k = 0 PROVE FALSE
    OBVIOUS
  <2> DEFINE g == [i \in 0 .. 0 |-> MergeInState(EmptyState,
                                      StateAt(results, BlockKey(f, b)))]
  <2>2. g = MergeUpTo(results, f, b, 0, g)
    BY DEF MergeUpTo
  <2>3. QED
    BY <2>1, <2>2
<1>4. PICK g : g = MergeUpTo(results, f, b, k - 1, g)
  <2>1. k - 1 \in Nat /\ ~(k <= k - 1)
    BY <1>3
  <2>2. QED
    BY <1>2, <2>1
<1> DEFINE h == [i \in 0 .. k |->
                   IF i < k THEN g[i]
                   ELSE MergeInState(g[k-1],
                          StateAt(results, ExitKey(f, Predecessors(f, b)[k])))]
<1>5. h = MergeUpTo(results, f, b, k, h)
  <2>1. \A i \in 0 .. k - 1 : h[i] = g[i]
    OBVIOUS
  <2>2. \A i \in 0 .. k - 1 :
          g[i] = IF i = 0
                 THEN MergeInState(EmptyState, StateAt(results, BlockKey(f, b)))
                 ELSE MergeInState(g[i-1],
                        StateAt(results, ExitKey(f, Predecessors(f, b)[i])))
    BY <1>4 DEF MergeUpTo
  <2>3. QED
    BY <1>3, <2>1, <2>2 DEF MergeUpTo
<1>6. QED
  BY <1>5

\* A merge of good states is good.
LEMMA GoodMerge ==
  ASSUME NEW p, NEW u, NEW m, StateOK(p, u, m, EmptyState), StatesMerge(p, u),
         NEW all, ResultsOK(p, u, m, all), NEW ctx, NEW f, NEW b,
         Len(Predecessors(f, b)) \in Nat
  PROVE  StateOK(p, u, m, MergePrevStates(ResultsOf(all, ctx), f, b))
<1> DEFINE results == ResultsOf(all, ctx)
           n       == Len(Predecessors(f, b))
           Good(x) == StateOK(p, u, m, x)
           merged  == CHOOSE g : g = MergeUpTo(results, f, b, n, g)
           Bad     == {i \in 0 .. n : ~Good(merged[i])}
<1>1. \A key : Good(StateAt(results, key))
  BY GoodAt
<1>2. \A x, y : Good(x) /\ Good(y) => Good(MergeInState(x, y))
  BY DEF StatesMerge
<1> HIDE DEF results
<1>3. merged = MergeUpTo(results, f, b, n, merged)
  BY MergeExists
<1> HIDE DEF merged
<1>4. \A i \in 0 .. n :
        merged[i] = IF i = 0
                    THEN MergeInState(EmptyState, StateAt(results, BlockKey(f, b)))
                    ELSE MergeInState(merged[i-1],
                           StateAt(results, ExitKey(f, Predecessors(f, b)[i])))
  BY <1>3 DEF MergeUpTo
<1> HIDE DEF Good
<1>5. Bad = {}
  <2>1. SUFFICES ASSUME Bad # {} PROVE FALSE
    OBVIOUS
  <2>2. PICK k \in Bad : \A j \in Bad : k <= j
    <3>1. Bad \in SUBSET Nat
      OBVIOUS
    <3> HIDE DEF Bad
    <3>2. QED
      BY <2>1, <3>1, Smallest
  <2>3. k \in 0 .. n /\ ~Good(merged[k])
    OBVIOUS
  <2>4. Good(EmptyState)
    BY DEF Good
  <2>5. k # 0
    BY <1>1, <1>2, <1>4, <2>3, <2>4
  <2>6. k - 1 \in 0 .. n /\ Good(merged[k-1])
    BY <2>2, <2>5
  <2>7. QED
    BY <1>1, <1>2, <1>4, <2>3, <2>5, <2>6
<1>6. Good(merged[n])
  BY <1>5
<1>7. QED
  BY <1>6, MergeUnfold DEF results, merged, Good

-----------------------------------------------------------------------------
(* Frames *)

\* What the promises say of the unit being analysed
LEMMA Promised ==
  ASSUME Promises, UnitKnown
  PROVE  /\ ClosedUnder(prog, topFunction) /\ StatesStart(prog, topFunction)
         /\ StatesMerge(prog, topFunction) /\ StatementsKeep(prog, topFunction)
         /\ \A f \in DOMAIN prog : IsGraph(prog[f]) /\ ManagerStarts(prog, f)
         /\ AnalyzedFunctions(prog) \subseteq DOMAIN prog
BY DEF Promises, UnitKnown

\* The innermost invocation
LEMMA GoodTop ==
  ASSUME AnalysisInv, stack # <<>>
  PROVE  FrameOK(prog, topFunction, manager, Top)
BY StackFacts DEF AnalysisInv, EngineInv, StatesKept, Top, Last

\* A frame stays good as long as its state does.
LEMMA FrameStays ==
  ASSUME NEW p, NEW u, NEW m, NEW new, NEW frame, FrameOK(p, u, m, frame),
         \A y : StateOK(p, u, m, y) => StateOK(p, u, new, y)
  PROVE  FrameOK(p, u, new, frame)
BY DEF FrameOK

\* The innermost invocation goes on, and a statement may change the Manager.
LEMMA TopGoesOn ==
  ASSUME AnalysisInv, stack # <<>>, NEW frame,
         stack' = SetTop(frame), FrameOK(prog, topFunction, manager', frame),
         ManagerOK(prog, topFunction, manager'),
         \A y : StateOK(prog, topFunction, manager, y) =>
                  StateOK(prog, topFunction, manager', y),
         ResultsOK(prog, topFunction, manager', allResults'),
         UNCHANGED <<prog, topFunction>>
  PROVE  StatesKept'
<1>1. Len(stack) \in Calls /\ DOMAIN stack = Calls
  BY StackFacts DEF AnalysisInv, EngineInv
<1>2. /\ Calls' = Calls
      /\ \A i \in Calls : stack'[i] = IF i = Len(stack) THEN frame ELSE stack[i]
  <2>1. stack \in Seq({stack[i] : i \in Calls})
    BY DEF AnalysisInv, EngineInv, StackIsSeq
  <2>2. Len(stack') = Len(stack)
    BY <1>1, <2>1 DEF SetTop, Calls
  <2>3. QED
    BY <1>1, <2>2 DEF SetTop, Calls
<1>3. \A i \in Calls : FrameOK(prog, topFunction, manager', stack[i])
  BY FrameStays DEF AnalysisInv, StatesKept
<1>4. QED
  BY <1>2, <1>3 DEF StatesKept

\* A function of the unit is invoked from a good state.
LEMMA InvokeKeeps ==
  ASSUME Promises, AnalysisInv, NEW f \in DOMAIN prog, NEW ctx, NEW all,
         InUnit(prog, topFunction, f), Invoke(f, ctx, stack, all),
         ResultsOK(prog, topFunction, manager, all),
         UNCHANGED <<prog, topFunction, manager>>
  PROVE  StatesKept'
<1> DEFINE new == Frame(f, ctx, ResultsOf(allResults, ctx))
           Good(x) == StateOK(prog, topFunction, manager, x)
<1>1. UnitKnown /\ EngineInv /\ StatesKept
  BY DEF AnalysisInv
<1>2. Good(EmptyState) /\ Good(InitTopValues(manager))
  BY <1>1, Promised DEF StatesStart, StatesKept
<1>3. Good(EntryState(ResultsOf(all, ctx), f))
  BY <1>2, GoodAt DEF EntryState, StateAt
<1>4. ResultsOK(prog, topFunction, manager, allResults')
  BY <1>3, GoodAfterAssign DEF Invoke
<1>5. FrameOK(prog, topFunction, manager, new)
  <2>1. prog[f].last \in Nat
    BY <1>1, Promised DEF IsGraph
  <2>2. [b \in 1 .. Entry(f) + 1 |-> b - 1] \in Seq(Blocks(prog, f))
    BY <2>1 DEF Entry, Blocks
  <2>3. QED
    BY <1>2, <2>1, <2>2 DEF FrameOK, Frame, Exit, Blocks
<1>6. stack' = Append(stack, new)
  BY DEF Invoke
<1> HIDE DEF new
<1>7. /\ Calls' = Calls \cup {Len(stack) + 1} /\ stack'[Len(stack) + 1] = new
      /\ \A i \in Calls : stack'[i] = stack[i]
  <2>1. /\ stack \in Seq({stack[i] : i \in Calls} \cup {new})
        /\ Len(stack) \in Nat
    BY <1>1, StackFacts DEF EngineInv, StackIsSeq
  <2>2. QED
    BY <1>6, <2>1 DEF Calls
<1>8. QED
  BY <1>1, <1>4, <1>5, <1>7 DEF StatesKept

-----------------------------------------------------------------------------
(* The steps *)

\* The blocks of the innermost invocation
LEMMA TopBlocks ==
  ASSUME Promises, AnalysisInv, stack # <<>>
  PROVE  /\ prog[Top.fn].last \in Nat /\ IsGraph(prog[Top.fn])
         /\ \A b \in Blocks(prog, Top.fn) :
              /\ Successors(Top.fn, b) \in Seq(Blocks(prog, Top.fn))
              /\ Predecessors(Top.fn, b) \in Seq(Blocks(prog, Top.fn))
              /\ Elements(Top.fn, b) \in Seq(Statement)
<1>1. Top.fn \in DOMAIN prog
  BY GoodTop DEF FrameOK
<1>2. IsGraph(prog[Top.fn])
  BY <1>1, Promised DEF AnalysisInv
<1>3. QED
  BY <1>2 DEF IsGraph, Successors, Predecessors, Elements, Blocks

\* A block is taken off the worklist.
LEMMA BlockTaken ==
  ASSUME Promises, AnalysisInv, stack # <<>>, Top.work # <<>>
  PROVE  /\ Last(Top.work) \in Blocks(prog, Top.fn)
         /\ Front(Top.work) \in Seq(Blocks(prog, Top.fn))
         /\ StateOK(prog, topFunction, manager,
                    MergePrevStates(Results(Top), Top.fn, Last(Top.work)))
<1>1. FrameOK(prog, topFunction, manager, Top)
  BY GoodTop
<1>2. /\ Last(Top.work) \in Blocks(prog, Top.fn)
      /\ Front(Top.work) \in Seq(Blocks(prog, Top.fn))
  BY <1>1 DEF FrameOK, Last, Front
<1>3. Len(Predecessors(Top.fn, Last(Top.work))) \in Nat
  BY <1>2, TopBlocks
<1>4. StatesStart(prog, topFunction) /\ StatesMerge(prog, topFunction)
  BY Promised DEF AnalysisInv
<1>5. /\ StateOK(prog, topFunction, manager, EmptyState)
      /\ ResultsOK(prog, topFunction, manager, allResults)
  BY <1>4 DEF AnalysisInv, StatesKept, StatesStart
<1>6. QED
  BY <1>2, <1>3, <1>4, <1>5, GoodMerge DEF Results

LEMMA BlockStepGood ==
  ASSUME Promises, AnalysisInv, SkipBlock \/ EnterBlock
  PROVE  StatesKept'
<1> DEFINE b      == Last(Top.work)
           merged == MergePrevStates(Results(Top), Top.fn, b)
           taken  == [Top EXCEPT !.work = Front(@)]
<1>1. /\ stack # <<>> /\ Top.work # <<>>
      /\ UNCHANGED <<prog, topFunction, manager>>
  BY DEF SkipBlock, EnterBlock, NextBlock, InBlocks
<1>2. FrameOK(prog, topFunction, manager, Top)
  BY <1>1, GoodTop
<1>3. /\ b \in Blocks(prog, Top.fn)
      /\ Front(Top.work) \in Seq(Blocks(prog, Top.fn))
      /\ StateOK(prog, topFunction, manager, merged)
  BY <1>1, BlockTaken
<1>4. /\ ManagerOK(prog, topFunction, manager)
      /\ ResultsOK(prog, topFunction, manager, allResults)
  BY DEF AnalysisInv, StatesKept
<1>5. CASE SkipBlock
  <2>1. stack' = SetTop(taken) /\ allResults' = allResults
    BY <1>5 DEF SkipBlock, NextBlock
  <2>2. FrameOK(prog, topFunction, manager, taken)
    BY <1>2, <1>3 DEF FrameOK
  <2>3. QED
    BY <1>1, <1>4, <2>1, <2>2, TopGoesOn
<1>6. CASE EnterBlock
  <2>1. PICK old, ctx, key :
          /\ stack' = SetTop([taken EXCEPT !.block = b, !.pos = 1,
                               !.state = merged, !.oldExit = old])
          /\ allResults' = AssignIn(allResults, ctx, key, merged)
    BY <1>6 DEF EnterBlock, NextBlock
  <2>2. FrameOK(prog, topFunction, manager,
                [taken EXCEPT !.block = b, !.pos = 1,
                              !.state = merged, !.oldExit = old])
    <3> HIDE DEF b, merged
    <3>1. QED
      BY <1>2, <1>3 DEF FrameOK
  <2>3. ResultsOK(prog, topFunction, manager, allResults')
    BY <1>3, <1>4, <2>1, GoodAfterAssign
  <2>4. QED
    BY <1>1, <1>4, <2>1, <2>2, <2>3, TopGoesOn
<1>7. QED
  BY <1>5, <1>6

LEMMA FinishBlockGood ==
  ASSUME Promises, AnalysisInv, FinishBlock
  PROVE  StatesKept'
<1>1. /\ stack # <<>> /\ UNCHANGED <<prog, topFunction, manager>>
  BY DEF FinishBlock, AtBlockEnd
<1>2. FrameOK(prog, topFunction, manager, Top)
  BY <1>1, GoodTop
<1>3. /\ ManagerOK(prog, topFunction, manager)
      /\ ResultsOK(prog, topFunction, manager, allResults)
  BY DEF AnalysisInv, StatesKept
<1>4. ResultsOK(prog, topFunction, manager, allResults')
  <2>1. StateOK(prog, topFunction, manager, Top.state)
    BY <1>2 DEF FrameOK
  <2>2. QED
    BY <1>3, <2>1, GoodAfterAssign DEF FinishBlock
<1>5. \E frame : /\ stack' = SetTop(frame)
                 /\ FrameOK(prog, topFunction, manager, frame)
  <2>1. Top.work \o Successors(Top.fn, Top.block) \in Seq(Blocks(prog, Top.fn))
    BY <1>1, <1>2, TopBlocks DEF FrameOK
  <2>2. FrameOK(prog, topFunction, manager, [Top EXCEPT !.pos = 0])
    BY <1>2 DEF FrameOK
  <2>3. FrameOK(prog, topFunction, manager,
                [Top EXCEPT !.pos = 0,
                            !.work = @ \o Successors(Top.fn, Top.block)])
    BY <1>2, <2>1 DEF FrameOK
  <2>4. QED
    BY <2>2, <2>3 DEF FinishBlock
<1>6. QED
  BY <1>1, <1>3, <1>4, <1>5, TopGoesOn

LEMMA TransferStmtGood ==
  ASSUME Promises, AnalysisInv, TransferStmt
  PROVE  StatesKept'
<1> DEFINE key == CurrentKey(Top)
           r   == ApplyTransfer(key, CurrentStmt(Top), Top.state, manager)
<1>1. /\ stack # <<>> /\ UNCHANGED <<prog, topFunction>>
      /\ manager' = r.manager
      /\ stack' = SetTop([Advance(Top) EXCEPT !.state = r.state])
      /\ \/ allResults' = allResults
         \/ allResults' = AssignIn(allResults, Top.ctx, key, r.state)
  BY DEF TransferStmt, InStmts
<1>2. FrameOK(prog, topFunction, manager, Top)
  BY <1>1, GoodTop
<1>3. /\ ManagerOK(prog, topFunction, r.manager)
      /\ StateOK(prog, topFunction, r.manager, r.state)
      /\ \A y : StateOK(prog, topFunction, manager, y) =>
                 StateOK(prog, topFunction, r.manager, y)
  <2>1. StatementsKeep(prog, topFunction)
    BY Promised DEF AnalysisInv
  <2>2. /\ ManagerOK(prog, topFunction, manager) /\ key # <<>>
        /\ StateOK(prog, topFunction, manager, Top.state)
    BY <1>2 DEF AnalysisInv, StatesKept, FrameOK, CurrentKey, StmtKey
  <2>3. QED
    BY <2>1, <2>2 DEF StatementsKeep
<1> HIDE DEF r, key
<1>4. ResultsOK(prog, topFunction, r.manager, allResults')
  <2>1. ResultsOK(prog, topFunction, r.manager, allResults)
    BY <1>3 DEF AnalysisInv, StatesKept, ResultsOK
  <2>2. QED
    BY <1>1, <1>3, <2>1, GoodAfterAssign
<1>5. FrameOK(prog, topFunction, r.manager,
              [Advance(Top) EXCEPT !.state = r.state])
  BY <1>2, <1>3 DEF FrameOK, Advance
<1>6. QED
  BY <1>1, <1>3, <1>4, <1>5, TopGoesOn

LEMMA SkipCallGood ==
  ASSUME Promises, AnalysisInv, SkipCall
  PROVE  StatesKept'
<1>1. /\ stack # <<>> /\ stack' = SetTop(Advance(Top))
      /\ UNCHANGED <<prog, topFunction, manager, allResults>>
  BY DEF SkipCall, InCall, InStmts
<1>2. FrameOK(prog, topFunction, manager, Advance(Top))
  BY <1>1, GoodTop DEF FrameOK, Advance
<1>3. /\ ManagerOK(prog, topFunction, manager)
      /\ ResultsOK(prog, topFunction, manager, allResults)
  BY DEF AnalysisInv, StatesKept
<1>4. QED
  BY <1>1, <1>2, <1>3, TopGoesOn

\* The call that the innermost invocation is at is in its function.
LEMMA CallIsInUnit ==
  ASSUME Promises, AnalysisInv, InCall
  PROVE  /\ Top.fn \in DOMAIN prog /\ InUnit(prog, topFunction, Top.fn)
         /\ Top.block \in Blocks(prog, Top.fn)
         /\ Top.pos \in 1 .. Len(prog[Top.fn].elems[Top.block])
         /\ CurrentStmt(Top) = prog[Top.fn].elems[Top.block][Top.pos]
         /\ IsAnalyzedCall(CurrentStmt(Top))
<1>1. stack # <<>>
  BY DEF InCall, InStmts
<1>2. FrameOK(prog, topFunction, manager, Top)
  BY <1>1, GoodTop
<1>3. Elements(Top.fn, Top.block) \in Seq(Statement)
  BY <1>1, <1>2, TopBlocks DEF FrameOK
<1>4. QED
  BY <1>2, <1>3 DEF FrameOK, InCall, InStmts, CurrentStmt, Elements

LEMMA EnterCallGood ==
  ASSUME Promises, AnalysisInv, EnterCall
  PROVE  StatesKept'
<1>1. /\ InCall /\ Callee \in DOMAIN prog
      /\ Invoke(Callee, CalleeContext, stack,
                AssignIn(allResults, CalleeContext, FunctionKey(Callee), Top.state))
      /\ UNCHANGED <<prog, topFunction, manager>>
  BY DEF EnterCall
<1>2. InUnit(prog, topFunction, Callee)
  <2>1. ClosedUnder(prog, topFunction)
    BY Promised DEF AnalysisInv
  <2>2. QED
    BY <1>1, <2>1, CallIsInUnit DEF ClosedUnder, Callee
<1>3. ResultsOK(prog, topFunction, manager,
        AssignIn(allResults, CalleeContext, FunctionKey(Callee), Top.state))
  <2>1. FrameOK(prog, topFunction, manager, Top)
    BY <1>1, GoodTop DEF InCall, InStmts
  <2>2. QED
    BY <2>1, GoodAfterAssign DEF FrameOK, AnalysisInv, StatesKept
<1>4. QED
  BY <1>1, <1>2, <1>3, InvokeKeeps

LEMMA PopContextGood ==
  ASSUME Promises, AnalysisInv, PopContext
  PROVE  StatesKept'
<1>1. stack = <<>> /\ contextWork = <<<<topFunction, TopContext>>>>
  BY DEF AnalysisInv, EngineInv, WorkIsUnit, PopContext
<1>2. Invoke(topFunction, TopContext, stack, allResults)
  BY <1>1 DEF PopContext, Last
<1>3. InUnit(prog, topFunction, topFunction)
  BY Promised DEF AnalysisInv, ClosedUnder
<1>4. QED
  BY <1>2, <1>3, InvokeKeeps DEF PopContext, AnalysisInv, UnitKnown, StatesKept

LEMMA ReturnToTopGood ==
  ASSUME AnalysisInv, ReturnToTop
  PROVE  StatesKept'
<1>1. stack' = <<>> /\ UNCHANGED <<prog, topFunction, manager, allResults>>
  BY DEF ReturnToTop
<1>2. Calls' = {}
  BY <1>1 DEF Calls
<1>3. QED
  BY <1>1, <1>2 DEF AnalysisInv, StatesKept

\* The caller goes on with its own state or with the callee's exit state.
LEMMA ReturnToCallerGood ==
  ASSUME Promises, AnalysisInv, ReturnToCaller
  PROVE  StatesKept'
<1> DEFINE depth  == Len(stack) - 1
           caller == Last(Front(stack))
           exit   == StateAt(Results(Top), BlockKey(Top.fn, Exit))
<1>1. /\ UNCHANGED <<prog, topFunction, manager>> /\ Len(stack) > 1
      /\ \/ /\ stack' = [Front(stack) EXCEPT ![depth] = Advance(caller)]
            /\ allResults' = allResults
         \/ /\ stack' = [Front(stack) EXCEPT
                           ![depth] = [Advance(caller) EXCEPT !.state = exit]]
            /\ \E ctx, key :
                 allResults' = AssignIn(allResults, ctx, key, exit)
  BY DEF ReturnToCaller
<1>2. /\ stack \in Seq({stack[i] : i \in Calls}) /\ Calls = 1 .. Len(stack)
      /\ Len(stack) \in Nat
  BY StackFacts DEF AnalysisInv, EngineInv, StackIsSeq, Calls
<1>3. /\ depth \in Calls /\ Front(stack) \in Seq({stack[i] : i \in Calls})
      /\ Len(Front(stack)) = depth
      /\ \A i \in 1 .. depth : Front(stack)[i] = stack[i]
  BY <1>1, <1>2 DEF Front
<1>4. caller = stack[depth]
  <2>1. depth \in 1 .. depth
    BY <1>2, <1>3 DEF Calls
  <2>2. caller = Front(stack)[Len(Front(stack))]
    BY DEF Last
  <2>3. QED
    BY <1>3, <2>1, <2>2
<1>5. StateOK(prog, topFunction, manager, exit)
  <2>1. StateOK(prog, topFunction, manager, EmptyState)
    BY Promised DEF AnalysisInv, StatesKept, StatesStart
  <2>2. QED
    BY <2>1, GoodAt DEF AnalysisInv, StatesKept, Results
<1> HIDE DEF exit
<1>6. ResultsOK(prog, topFunction, manager, allResults')
  BY <1>1, <1>5, GoodAfterAssign DEF AnalysisInv, StatesKept
<1>7. FrameOK(prog, topFunction, manager, stack[depth])
  BY <1>3 DEF AnalysisInv, StatesKept
<1>8. PICK frame : /\ stack' = [Front(stack) EXCEPT ![depth] = frame]
                   /\ \/ frame = Advance(stack[depth])
                      \/ frame = [Advance(stack[depth]) EXCEPT !.state = exit]
  BY <1>1, <1>4
<1>9. FrameOK(prog, topFunction, manager, frame)
  <2>1. FrameOK(prog, topFunction, manager, Advance(stack[depth]))
    BY <1>7 DEF FrameOK, Advance
  <2> DEFINE next == Advance(stack[depth])
  <2> HIDE DEF next
  <2>2. FrameOK(prog, topFunction, manager, next)
    BY <2>1 DEF next
  <2>3. FrameOK(prog, topFunction, manager, [next EXCEPT !.state = exit])
    BY <1>5, <2>2 DEF FrameOK
  <2>4. QED
    BY <1>8, <2>2, <2>3 DEF next
<1>10. /\ Calls' = 1 .. depth
       /\ \A i \in 1 .. depth :
            stack'[i] = IF i = depth THEN frame ELSE stack[i]
  <2>1. Len(stack') = depth
    BY <1>3, <1>8
  <2>2. QED
    BY <1>2, <1>3, <1>8, <2>1 DEF Calls
<1>11. \A i \in 1 .. depth : FrameOK(prog, topFunction, manager, stack[i])
  BY <1>2, <1>3 DEF AnalysisInv, StatesKept
<1>12. QED
  BY <1>1, <1>6, <1>9, <1>10, <1>11 DEF AnalysisInv, StatesKept

\* Nothing that the invariant speaks of changes.
LEMMA StatesStay ==
  ASSUME AnalysisInv,
         UNCHANGED <<prog, topFunction, manager, allResults, stack>>
  PROVE  StatesKept'
BY DEF AnalysisInv, StatesKept, Calls

\* The engine's step
LEMMA StepGood ==
  ASSUME Promises, AnalysisInv, Step
  PROVE  StatesKept'
<1>1. CASE DumpResults \/ CallWithoutBody \/ Abort
  BY <1>1, StatesStay DEF DumpResults, CallWithoutBody, Abort
<1>2. QED
  BY <1>1, PopContextGood, BlockStepGood, FinishBlockGood, TransferStmtGood,
     SkipCallGood, EnterCallGood, ReturnToTopGood, ReturnToCallerGood DEF Step

\* A unit starts with nothing but the Manager.
LEMMA UnitStarts ==
  ASSUME Promises, NEW p \in Programs, NEW f \in DOMAIN p, NEW m,
         ManagerOK(p, f, m),
         prog = p, topFunction = f, manager = m, Construct(f)
  PROVE  EngineInv /\ StatesKept
<1>1. /\ contextWork = <<<<topFunction, TopContext>>>> /\ stack = <<>>
      /\ active = {} /\ allResults = [c \in {} |-> EmptyResults]
  BY DEF Construct
<1>2. Calls = {}
  BY <1>1 DEF Calls
<1>3. EngineInv
  BY <1>1, <1>2 DEF EngineInv, StackIsSeq, StackFits, WorkIsUnit,
                    ActiveIsStack, Calls
<1>4. StatesKept
  BY <1>1, <1>2 DEF StatesKept, ResultsOK
<1>5. QED
  BY <1>3, <1>4

LEMMA StartUnitKeeps ==
  ASSUME Promises, AnalysisInv, NEW f \in unitsLeft, StartUnit(f)
  PROVE  AnalysisInv'
<1>1. /\ UNCHANGED prog /\ topFunction' = f /\ unitsLeft' = unitsLeft \ {f}
      /\ manager' = NextManager(prog, f, manager) /\ status' = "running"
      /\ status = "done" /\ Construct(f)'
  BY DEF StartUnit, Construct
<1>2. /\ prog \in Programs /\ topFunction \in DOMAIN prog
      /\ f \in DOMAIN prog /\ ManagerStarts(prog, f)
  BY Promised DEF AnalysisInv, UnitKnown
<1>3. ManagerOK(prog, f, manager')
  BY <1>1, <1>2 DEF AnalysisInv, StatesKept, ManagerStarts
<1>4. EngineInv' /\ StatesKept'
  <2>1. /\ contextWork' = <<<<topFunction', TopContext>>>> /\ stack' = <<>>
        /\ active' = {} /\ allResults' = [c \in {} |-> EmptyResults]
    BY <1>1 DEF StartUnit
  <2>2. Calls' = {}
    BY <2>1 DEF Calls
  <2>3. EngineInv'
    BY <2>1, <2>2 DEF EngineInv, StackIsSeq, StackFits, WorkIsUnit,
                      ActiveIsStack, Calls
  <2>4. StatesKept'
    BY <1>1, <1>3, <2>1, <2>2 DEF StatesKept, ResultsOK
  <2>5. QED
    BY <2>3, <2>4
<1>5. UnitKnown' /\ CrashKnown'
  BY <1>1, <1>2 DEF AnalysisInv, UnitKnown, CrashKnown
<1>6. QED
  BY <1>4, <1>5 DEF AnalysisInv

LEMMA CrashStaysKnown ==
  ASSUME Promises, AnalysisInv, Step
  PROVE  CrashKnown'
<1>1. status = "running" /\ UNCHANGED <<prog, topFunction>>
  BY DEF Step, PopContext, DumpResults, SkipBlock, EnterBlock, NextBlock,
         FinishBlock, AtBlockEnd, TransferStmt, CallWithoutBody, SkipCall,
         EnterCall, InCall, ReturnToTop, ReturnToCaller, FunctionReturns,
         FunctionDone, Abort, MergeFails, ComparisonFails, InBlocks, InStmts,
         Running
<1>2. ParseTerminates(prog)
  BY <1>1 DEF AnalysisInv, CrashKnown
<1>3. CASE CallWithoutBody
  <2>1. InCall /\ Callee \notin DOMAIN prog
    BY <1>3 DEF CallWithoutBody
  <2>2. CallsNoBody(prog, topFunction)
    BY <2>1, CallIsInUnit DEF CallsNoBody, Callee
  <2>3. QED
    BY <1>1, <1>2, <1>3, <2>2 DEF CrashKnown, CallWithoutBody
<1>4. CASE ~CallWithoutBody
  <2>1. status' # "segfault"
    BY <1>1, <1>4 DEF Step, PopContext, DumpResults, SkipBlock, EnterBlock,
         NextBlock, FinishBlock, TransferStmt, SkipCall, EnterCall,
         ReturnToTop, ReturnToCaller, Abort
  <2>2. QED
    BY <1>1, <1>2, <2>1 DEF CrashKnown
<1>5. QED
  BY <1>3, <1>4

-----------------------------------------------------------------------------
(* The theorems *)

LEMMA AnalysisInitial == Promises /\ AnalyzerInit => AnalysisInv
<1> SUFFICES ASSUME Promises, AnalyzerInit PROVE AnalysisInv
  OBVIOUS
<1>1. UnitKnown /\ CrashKnown
  BY DEF AnalyzerInit, UnitKnown, CrashKnown
<1>2. ManagerOK(prog, topFunction, InitManager(prog, topFunction))
  BY <1>1, Promised DEF UnitKnown, ManagerStarts
<1>3. EngineInv /\ StatesKept
  BY <1>2, UnitStarts DEF AnalyzerInit
<1>4. QED
  BY <1>1, <1>3 DEF AnalysisInv

LEMMA AnalysisStep ==
  Promises /\ AnalysisInv /\ [AnalyzerNext]_analyzerVars => AnalysisInv'
<1> SUFFICES ASSUME Promises, AnalysisInv, [AnalyzerNext]_analyzerVars
             PROVE  AnalysisInv'
  OBVIOUS
<1>1. CASE ParseTUD
  <2>1. /\ UNCHANGED <<prog, topFunction, manager, contextWork, allResults,
                       active, stack>>
        /\ unitsLeft' \in {AnalyzedFunctions(prog), {}}
    BY <1>1 DEF ParseTUD
  <2>2. EngineInv' /\ StatesKept'
    BY <2>1, IdleKeeps, StatesStay DEF AnalysisInv
  <2>3. UnitKnown' /\ CrashKnown'
    BY <1>1, <2>1 DEF AnalysisInv, UnitKnown, CrashKnown, ParseTUD
  <2>4. QED
    BY <2>2, <2>3 DEF AnalysisInv
<1>2. CASE \E f \in unitsLeft : StartUnit(f)
  BY <1>2, StartUnitKeeps
<1>3. CASE Step /\ UNCHANGED unitsLeft
  <2>1. EngineInv'
    BY <1>3, EngineStep DEF AnalysisInv, Next
  <2>2. StatesKept' /\ CrashKnown'
    BY <1>3, StepGood, CrashStaysKnown
  <2>3. UNCHANGED <<prog, topFunction>>
    BY <1>3 DEF Step, PopContext, DumpResults, SkipBlock, EnterBlock,
         NextBlock, FinishBlock, TransferStmt, CallWithoutBody, SkipCall, EnterCall,
         ReturnToTop, ReturnToCaller, Abort
  <2>4. QED
    BY <1>3, <2>1, <2>2, <2>3 DEF AnalysisInv, UnitKnown
<1>4. CASE UNCHANGED analyzerVars
  <2>1. UNCHANGED <<vars, unitsLeft>>
    BY <1>4 DEF analyzerVars
  <2>2. EngineInv' /\ StatesKept'
    BY <2>1, IdleKeeps, StatesStay DEF AnalysisInv, vars
  <2>3. QED
    BY <2>1, <2>2 DEF AnalysisInv, UnitKnown, CrashKnown, vars
<1>5. QED
  BY <1>1, <1>2, <1>3, <1>4 DEF AnalyzerNext, AnalyzerStep

(***************************************************************************)
(* Through the whole analysis of a translation unit, whatever its          *)
(* functions, blocks and calls, the states in the results and on the stack *)
(* are what the transfer functions, the merge and the lattice's top keep   *)
(* them, and a segmentation fault comes of a parse that does not end or of *)
(* a call of a function without a body.                                    *)
(***************************************************************************)
THEOREM AnalysisInvariance ==
  ASSUME Promises
  PROVE  AnalyzerSpec => []AnalysisInv
BY AnalysisInitial, AnalysisStep, PTL DEF AnalyzerSpec

-----------------------------------------------------------------------------
(* Nothing is left out *)

CONSTANTS
  FullUnits(_),      \* the units of a program whose states are never empty
  SoundOK(_, _, _),  \* of a program, its unit and a state of its analysis
  ReadyOK(_, _, _),  \* of a program, its unit and the Manager after initUnit
  Marks(_, _, _)     \* the statements of a unit that mark the state

-----------------------------------------------------------------------------
(***************************************************************************)
(* What an analysis covers.  f is the unit, all the results, ctx a context *)
(* and g a function in it.                                                 *)
(***************************************************************************)

Stored(all, ctx, key) == key \in DOMAIN ResultsOf(all, ctx)
Seen(all, ctx, g, b)  == Stored(all, ctx, BlockKey(g, b))

EndKey(p, g, b) == IF b \in {p[g].last, 0} THEN BlockKey(g, b)
                   ELSE StmtKey(g, b, Len(p[g].elems[b]))

Positions(p, g, b)   == 1 .. Len(p[g].elems[b])
IsCallAt(p, g, b, i) == IsAnalyzedCall(p[g].elems[b][i])

\* A statement of a unit
IsUnitStmt(p, f, s) ==
  \E g \in DOMAIN p : InUnit(p, f, g) /\
    \E b \in Blocks(p, g) : \E i \in Positions(p, g, b) :
      s = p[g].elems[b][i]

\* A state that is not empty in a unit that has something to track.
Full(p, f, state) ==
  SoundOK(p, f, state) /\ (f \in FullUnits(p) => DOMAIN state # {})

\* The dump ends at such a state.
Marked(state) == \E v \in DOMAIN state : DumpFails(state[v])

\* A statement before i marks the state, and no call after it replaces it.
MarkOpen(p, f, g, b, i) ==
  \E j \in 1 .. i - 1 : /\ Marks(p, f, p[g].elems[b][j])
                        /\ \A k \in j .. i - 1 : ~IsCallAt(p, g, b, k)

\* The state at position i is not empty, so that no map lacks it for long.
MustStore(p, f, g, b, i) == f \in FullUnits(p) \/ MarkOpen(p, f, g, b, i)

\* Statement i is behind the engine, the function it calls as well.
Passed(p, f, all, ctx, g, b, i) ==
  IsCallAt(p, g, b, i) =>
    /\ p[g].elems[b][i].callee \in DOMAIN p
    /\ MustStore(p, f, g, b, i) =>
         Stored(all, PlContext(ctx, StmtKey(g, b, i)),
                FunctionKey(p[g].elems[b][i].callee))

BlockDone(p, f, all, ctx, g, b) ==
  /\ \A i \in Positions(p, g, b) : Passed(p, f, all, ctx, g, b, i)
  /\ MustStore(p, f, g, b, Len(p[g].elems[b]) + 1) =>
       Stored(all, ctx, EndKey(p, g, b))

AllSeen(p, all, ctx, g) == \A b \in Blocks(p, g) : Seen(all, ctx, g, b)

\* Block b, when it is taken off the worklist, has something to merge.
Fed(p, f, all, ctx, g, b) ==
  f \in FullUnits(p) =>
    \/ b = p[g].last
    \/ \E i \in 1 .. Len(p[g].pred[b]) :
         Stored(all, ctx, EndKey(p, g, p[g].pred[b][i]))

\* The worklist: the blocks 0 to k - 1 never seen, then some more.
WorkCov(p, f, all, frame) ==
  \E k \in 0 .. p[frame.fn].last + 1 :
    /\ Len(frame.work) >= k
    /\ \A j \in 1 .. k : frame.work[j] = j - 1
    /\ \A b \in k .. p[frame.fn].last : Seen(all, frame.ctx, frame.fn, b)
    /\ \A j \in k + 1 .. Len(frame.work) :
         Fed(p, f, all, frame.ctx, frame.fn, frame.work[j])

\* The block being analysed
BlockCov(p, f, all, frame) ==
  frame.pos > 0 =>
    /\ Seen(all, frame.ctx, frame.fn, frame.block)
    /\ frame.pos <= Len(p[frame.fn].elems[frame.block]) + 1
    /\ \A i \in Positions(p, frame.fn, frame.block) :
         i < frame.pos =>
           Passed(p, f, all, frame.ctx, frame.fn, frame.block, i)
    /\ Full(p, f, frame.state)
    /\ MarkOpen(p, f, frame.fn, frame.block, frame.pos) => Marked(frame.state)
    /\ frame.oldExit # EmptyState =>
         Stored(all, frame.ctx, EndKey(p, frame.fn, frame.block))

\* What is stored when an invocation begins
Begun(p, all, frame) ==
  /\ Seen(all, frame.ctx, frame.fn, p[frame.fn].last)
  /\ frame.ctx # TopContext => Stored(all, frame.ctx, FunctionKey(frame.fn))

FrameCov(p, f, all, frame) ==
  /\ Begun(p, all, frame)
  /\ WorkCov(p, f, all, frame) /\ BlockCov(p, f, all, frame)

\* An invocation that waits for a call
Waits(p, f, all, frame) ==
  /\ frame.pos \in Positions(p, frame.fn, frame.block)
  /\ IsCallAt(p, frame.fn, frame.block, frame.pos)
  /\ Passed(p, f, all, frame.ctx, frame.fn, frame.block, frame.pos)

OnStack(stk, ctx, g) ==
  \E i \in 1 .. Len(stk) : stk[i].ctx = ctx /\ stk[i].fn = g

\* Block b of g is being analysed.
InProgress(stk, ctx, g, b) ==
  \E i \in 1 .. Len(stk) : /\ stk[i].ctx = ctx /\ stk[i].fn = g
                           /\ stk[i].block = b /\ stk[i].pos > 0

StatesFull(p, f, all) ==
  \A ctx \in DOMAIN all : \A key \in DOMAIN all[ctx] :
    Full(p, f, all[ctx][key])

\* A mark reaches the function called next or else the end of its block.
MarksStored(p, f, all) ==
  \A ctx : \A g \in DOMAIN p : \A b \in Blocks(p, g) :
    /\ \A i \in Positions(p, g, b) : \A h \in DOMAIN p :
         /\ ctx.callee = StmtKey(g, b, i) /\ MarkOpen(p, f, g, b, i)
         /\ Stored(all, ctx, FunctionKey(h))
         => Marked(StateAt(ResultsOf(all, ctx), FunctionKey(h)))
    /\ /\ MarkOpen(p, f, g, b, Len(p[g].elems[b]) + 1)
       /\ Stored(all, ctx, EndKey(p, g, b))
       => Marked(StateAt(ResultsOf(all, ctx), EndKey(p, g, b)))

BlocksDone(p, f, all, stk) ==
  \A ctx : \A g \in DOMAIN p : \A b \in Blocks(p, g) :
    Seen(all, ctx, g, b) =>
      BlockDone(p, f, all, ctx, g, b) \/ InProgress(stk, ctx, g, b)

\* The functions called are analysed from the first block to the last.
FunctionsDone(p, f, work, all, stk) ==
  \A ctx : \A g \in DOMAIN p :
    \/ Stored(all, ctx, FunctionKey(g))
    \/ work = <<>> /\ ctx = TopContext /\ g = f
    => OnStack(stk, ctx, g) \/ AllSeen(p, all, ctx, g)

IsCovered(p, f, work, all, stk) ==
  /\ StatesFull(p, f, all) /\ MarksStored(p, f, all)
  /\ BlocksDone(p, f, all, stk) /\ FunctionsDone(p, f, work, all, stk)
  /\ \A i \in 1 .. Len(stk) : FrameCov(p, f, all, stk[i])
  /\ \A i \in 1 .. Len(stk) - 1 : Waits(p, f, all, stk[i])

\* Two states of the unit whose merge aborts, or one that ends a comparison or
\* the dump
CanAbort(p, f) ==
  \/ \E x, y : /\ SoundOK(p, f, x) /\ SoundOK(p, f, y)
               /\ Aborts(MergeInState(x, y))
  \/ \E x : /\ SoundOK(p, f, x)
            /\ \E v \in DOMAIN x : LatEqualFails(x[v]) \/ DumpFails(x[v])

UnitStarted == topFunction \in AnalyzedFunctions(prog) \ unitsLeft

AllDumped ==
  /\ stack = <<>> /\ contextWork = <<>>
  /\ \A ctx \in DOMAIN allResults : \A key \in DOMAIN allResults[ctx] :
       ~Marked(allResults[ctx][key])

CoverKnown ==
  /\ status = "running" => UnitStarted
  /\ status \in {"running", "done"} /\ UnitStarted =>
       /\ ReadyOK(prog, topFunction, manager)
       /\ IsCovered(prog, topFunction, contextWork, allResults, stack)
  /\ status = "done" /\ UnitStarted => AllDumped
  /\ status = "aborted" => CanAbort(prog, topFunction)

CoverInv == InOrder(prog) => CoverKnown

-----------------------------------------------------------------------------
(* The promises *)

UnitReady(p, f) ==
  \A g \in DOMAIN p : \A m :
    ManagerOK(p, g, m) => ReadyOK(p, f, NextManager(p, f, m))

SoundStart(p, f) ==
  /\ SoundOK(p, f, EmptyState)
  /\ \A m : ReadyOK(p, f, m) => Full(p, f, InitTopValues(m))

\* A merge that has failed stays failed.
SoundMerge(p, f) ==
  \A x, y :
    LET z == MergeInState(x, y)
    IN  /\ SoundOK(p, f, x) => ~Aborts(x)
        /\ Aborts(x) => Aborts(z)
        /\ SoundOK(p, f, x) /\ SoundOK(p, f, y) => SoundOK(p, f, z) \/ Aborts(z)

SoundStmts(p, f) ==
  \A m, x, key, s :
    /\ ReadyOK(p, f, m) /\ ManagerOK(p, f, m) /\ Full(p, f, x) /\ key # <<>>
    /\ IsUnitStmt(p, f, s) /\ ~IsAnalyzedCall(s)
    => LET r == ApplyTransfer(key, s, x, m)
       IN  /\ ReadyOK(p, f, r.manager) /\ Full(p, f, r.state)
           /\ Marked(x) \/ Marks(p, f, s) => Marked(r.state)

\* A set of functions that holds what its members call
HoldsCallees(p, X) ==
  \A g \in X : \A b \in Blocks(p, g) : \A i \in Positions(p, g, b) :
    LET s == p[g].elems[b][i]
    IN  IsAnalyzedCall(s) /\ s.callee \in DOMAIN p => s.callee \in X

\* InUnit holds no function that the unit does not call.
LeastUnit(p, f) ==
  \A X \in SUBSET DOMAIN p : f \in X /\ HoldsCallees(p, X) =>
    \A g \in DOMAIN p : InUnit(p, f, g) => g \in X

CoverPromises ==
  \A p \in Programs :
    \A f \in AnalyzedFunctions(p) :
      /\ UnitReady(p, f) /\ SoundStart(p, f)
      /\ SoundMerge(p, f) /\ SoundStmts(p, f) /\ LeastUnit(p, f)

-----------------------------------------------------------------------------
(* Keys and results *)

\* Locations of different kinds have different keys.
LEMMA KeysDiffer ==
  /\ \A g, h, b : FunctionKey(g) # BlockKey(h, b)
  /\ \A g, h, b, i : FunctionKey(g) # StmtKey(h, b, i)
  /\ \A g, h, b, c, i : BlockKey(g, b) # StmtKey(h, c, i)
  /\ \A g, h, b, c : BlockKey(g, b) = BlockKey(h, c) => g = h /\ b = c
  /\ \A g, h : FunctionKey(g) = FunctionKey(h) => g = h
  /\ \A g, h, b, c, i, j :
       StmtKey(g, b, i) = StmtKey(h, c, j) => g = h /\ b = c /\ i = j
<1>1. \A g, h, b : FunctionKey(g) # BlockKey(h, b)
  BY DEF FunctionKey, BlockKey
<1>2. \A g, h, b, i : FunctionKey(g) # StmtKey(h, b, i)
  BY DEF FunctionKey, StmtKey
<1>3. \A g, h, b, c, i : BlockKey(g, b) # StmtKey(h, c, i)
  BY DEF BlockKey, StmtKey
<1>4. \A g, h, b, c : BlockKey(g, b) = BlockKey(h, c) => g = h /\ b = c
  BY DEF BlockKey
<1>5. \A g, h : FunctionKey(g) = FunctionKey(h) => g = h
  BY DEF FunctionKey
<1>6. \A g, h, b, c, i, j :
        StmtKey(g, b, i) = StmtKey(h, c, j) => g = h /\ b = c /\ i = j
  BY DEF StmtKey
<1>7. QED
  BY <1>1, <1>2, <1>3, <1>4, <1>5, <1>6

LEMMA EndKeyFacts ==
  ASSUME NEW p, NEW g, NEW b
  PROVE  /\ \A h : FunctionKey(h) # EndKey(p, g, b)
         /\ EndKey(p, g, b) \in {BlockKey(g, b),
                                 StmtKey(g, b, Len(p[g].elems[b]))}
         /\ b \in {p[g].last, 0} => EndKey(p, g, b) = BlockKey(g, b)
         /\ \A h, c : EndKey(p, h, c) = EndKey(p, g, b) => h = g /\ c = b
BY KeysDiffer DEF EndKey

\* What is stored after a state has been
LEMMA StoredAfter ==
  ASSUME NEW all, NEW ctx, NEW key, NEW state, NEW c, NEW k
  PROVE  LET new == AssignIn(all, ctx, key, state)
         IN  /\ Stored(new, c, k) <=> Stored(all, c, k) \/ (c = ctx /\ k = key)
             /\ StateAt(ResultsOf(new, c), k) =
                  IF c = ctx /\ k = key THEN state
                  ELSE StateAt(ResultsOf(all, c), k)
<1> DEFINE new == AssignIn(all, ctx, key, state)
<1>1. CASE c = ctx
  <2>1. ResultsOf(new, c) = Assign(ResultsOf(all, ctx), key, state)
    BY <1>1 DEF ResultsOf, AssignIn
  <2>2. /\ DOMAIN ResultsOf(new, c) = DOMAIN ResultsOf(all, ctx) \cup {key}
        /\ \A x \in DOMAIN ResultsOf(new, c) :
             ResultsOf(new, c)[x] = IF x = key THEN state
                                    ELSE ResultsOf(all, ctx)[x]
    BY <2>1 DEF Assign
  <2> HIDE DEF new
  <2>3. QED
    BY <1>1, <2>2 DEF Stored, StateAt, new
<1>2. CASE c # ctx
  <2>1. ResultsOf(new, c) = ResultsOf(all, c)
    BY <1>2, OthersKept
  <2>2. QED
    BY <1>2, <2>1 DEF Stored
<1>3. QED
  BY <1>1, <1>2

\* No location is ever forgotten.
Grows(all, new) == \A c, k : Stored(all, c, k) => Stored(new, c, k)

LEMMA AssignGrows ==
  ASSUME NEW all, NEW ctx, NEW key, NEW state
  PROVE  Grows(all, AssignIn(all, ctx, key, state))
BY StoredAfter DEF Grows

LEMMA StoredState ==
  ASSUME NEW all, NEW ctx, NEW key
  PROVE  /\ Stored(all, ctx, key) =>
              /\ ctx \in DOMAIN all /\ key \in DOMAIN all[ctx]
              /\ StateAt(ResultsOf(all, ctx), key) = all[ctx][key]
         /\ ctx \in DOMAIN all /\ key \in DOMAIN all[ctx] =>
              Stored(all, ctx, key)
         /\ ~Stored(all, ctx, key) =>
              StateAt(ResultsOf(all, ctx), key) = EmptyState
BY DEF Stored, ResultsOf, StateAt, EmptyResults

LEMMA FullAfter ==
  ASSUME NEW p, NEW f, NEW all, StatesFull(p, f, all),
         NEW ctx, NEW key, NEW state, Full(p, f, state)
  PROVE  StatesFull(p, f, AssignIn(all, ctx, key, state))
<1> DEFINE new == AssignIn(all, ctx, key, state)
<1> SUFFICES ASSUME NEW c \in DOMAIN new, NEW k \in DOMAIN new[c]
             PROVE  Full(p, f, new[c][k])
  BY DEF StatesFull
<1> HIDE DEF new
<1>1. Stored(new, c, k) /\ new[c][k] = StateAt(ResultsOf(new, c), k)
  BY StoredState
<1>2. CASE c = ctx /\ k = key
  BY <1>1, <1>2, StoredAfter DEF new
<1>3. CASE ~(c = ctx /\ k = key)
  <2>1. Stored(all, c, k) /\ new[c][k] = StateAt(ResultsOf(all, c), k)
    BY <1>1, <1>3, StoredAfter DEF new
  <2>2. QED
    BY <2>1, StoredState DEF StatesFull
<1>4. QED
  BY <1>2, <1>3

LEMMA MarksAfter ==
  ASSUME NEW p, NEW f, NEW all, MarksStored(p, f, all),
         NEW ctx, NEW key, NEW state,
         \A g \in DOMAIN p : \A b \in Blocks(p, g) : \A i \in Positions(p, g, b) :
           /\ \E h \in DOMAIN p : key = FunctionKey(h)
           /\ ctx.callee = StmtKey(g, b, i) /\ MarkOpen(p, f, g, b, i)
           => Marked(state),
         \A g \in DOMAIN p : \A b \in Blocks(p, g) :
           /\ key = EndKey(p, g, b)
           /\ MarkOpen(p, f, g, b, Len(p[g].elems[b]) + 1)
           => Marked(state)
  PROVE  MarksStored(p, f, AssignIn(all, ctx, key, state))
<1> DEFINE new == AssignIn(all, ctx, key, state)
<1>1. \A c, k : /\ Stored(new, c, k) <=> Stored(all, c, k) \/ (c = ctx /\ k = key)
                /\ StateAt(ResultsOf(new, c), k) =
                     IF c = ctx /\ k = key THEN state
                     ELSE StateAt(ResultsOf(all, c), k)
  BY StoredAfter
<1> HIDE DEF new
<1>2. ASSUME NEW c, NEW g \in DOMAIN p, NEW b \in Blocks(p, g),
             NEW i \in Positions(p, g, b), NEW h \in DOMAIN p,
             c.callee = StmtKey(g, b, i), MarkOpen(p, f, g, b, i),
             Stored(new, c, FunctionKey(h))
      PROVE  Marked(StateAt(ResultsOf(new, c), FunctionKey(h)))
  <2>1. CASE c = ctx /\ FunctionKey(h) = key
    <3>1. Marked(state)
      BY <1>2, <2>1
    <3>2. QED
      BY <1>1, <2>1, <3>1
  <2>2. CASE ~(c = ctx /\ FunctionKey(h) = key)
    <3>1. /\ Stored(all, c, FunctionKey(h))
          /\ StateAt(ResultsOf(new, c), FunctionKey(h)) =
               StateAt(ResultsOf(all, c), FunctionKey(h))
      BY <1>1, <1>2, <2>2
    <3>2. QED
      BY <1>2, <3>1 DEF MarksStored
  <2>3. QED
    BY <2>1, <2>2
<1>3. ASSUME NEW c, NEW g \in DOMAIN p, NEW b \in Blocks(p, g),
             MarkOpen(p, f, g, b, Len(p[g].elems[b]) + 1),
             Stored(new, c, EndKey(p, g, b))
      PROVE  Marked(StateAt(ResultsOf(new, c), EndKey(p, g, b)))
  <2>1. CASE c = ctx /\ EndKey(p, g, b) = key
    <3>1. Marked(state)
      BY <1>3, <2>1
    <3>2. QED
      BY <1>1, <2>1, <3>1
  <2>2. CASE ~(c = ctx /\ EndKey(p, g, b) = key)
    <3>1. /\ Stored(all, c, EndKey(p, g, b))
          /\ StateAt(ResultsOf(new, c), EndKey(p, g, b)) =
               StateAt(ResultsOf(all, c), EndKey(p, g, b))
      BY <1>1, <1>3, <2>2
    <3>2. QED
      BY <1>3, <3>1 DEF MarksStored
  <2>3. QED
    BY <2>1, <2>2
<1>4. MarksStored(p, f, new)
  BY <1>2, <1>3 DEF MarksStored
<1>5. QED
  BY <1>4 DEF new


-----------------------------------------------------------------------------
(* What is covered stays so when more is stored. *)

LEMMA GrowsKeeps ==
  ASSUME NEW p, NEW f, NEW all, NEW new, Grows(all, new), NEW ctx, NEW g, NEW b
  PROVE  /\ Seen(all, ctx, g, b) => Seen(new, ctx, g, b)
         /\ \A i : Passed(p, f, all, ctx, g, b, i) =>
                     Passed(p, f, new, ctx, g, b, i)
         /\ BlockDone(p, f, all, ctx, g, b) => BlockDone(p, f, new, ctx, g, b)
         /\ Fed(p, f, all, ctx, g, b) => Fed(p, f, new, ctx, g, b)
         /\ AllSeen(p, all, ctx, g) => AllSeen(p, new, ctx, g)
<1>1. \A c : Seen(all, ctx, g, c) => Seen(new, ctx, g, c)
  BY DEF Grows, Seen
<1>2. \A i : Passed(p, f, all, ctx, g, b, i) => Passed(p, f, new, ctx, g, b, i)
  BY DEF Grows, Passed
<1>3. BlockDone(p, f, all, ctx, g, b) => BlockDone(p, f, new, ctx, g, b)
  BY <1>2 DEF Grows, BlockDone
<1>4. Fed(p, f, all, ctx, g, b) => Fed(p, f, new, ctx, g, b)
  BY DEF Grows, Fed
<1>5. AllSeen(p, all, ctx, g) => AllSeen(p, new, ctx, g)
  BY <1>1 DEF AllSeen
<1>6. QED
  BY <1>1, <1>2, <1>3, <1>4, <1>5

LEMMA FrameKeeps ==
  ASSUME NEW p, NEW f, NEW all, NEW new, Grows(all, new), NEW frame
  PROVE  /\ Begun(p, all, frame) => Begun(p, new, frame)
         /\ WorkCov(p, f, all, frame) => WorkCov(p, f, new, frame)
         /\ BlockCov(p, f, all, frame) => BlockCov(p, f, new, frame)
         /\ FrameCov(p, f, all, frame) => FrameCov(p, f, new, frame)
         /\ Waits(p, f, all, frame) => Waits(p, f, new, frame)
<1>1. ASSUME WorkCov(p, f, all, frame) PROVE WorkCov(p, f, new, frame)
  <2>1. PICK k \in 0 .. p[frame.fn].last + 1 :
          /\ Len(frame.work) >= k
          /\ \A j \in 1 .. k : frame.work[j] = j - 1
          /\ \A b \in k .. p[frame.fn].last : Seen(all, frame.ctx, frame.fn, b)
          /\ \A j \in k + 1 .. Len(frame.work) :
               Fed(p, f, all, frame.ctx, frame.fn, frame.work[j])
    BY <1>1 DEF WorkCov
  <2>2. /\ \A b \in k .. p[frame.fn].last : Seen(new, frame.ctx, frame.fn, b)
        /\ \A j \in k + 1 .. Len(frame.work) :
             Fed(p, f, new, frame.ctx, frame.fn, frame.work[j])
    BY <2>1, GrowsKeeps
  <2>3. QED
    BY <2>1, <2>2 DEF WorkCov
<1>2. BlockCov(p, f, all, frame) => BlockCov(p, f, new, frame)
  <2>1. /\ Seen(all, frame.ctx, frame.fn, frame.block) =>
             Seen(new, frame.ctx, frame.fn, frame.block)
        /\ \A i : Passed(p, f, all, frame.ctx, frame.fn, frame.block, i) =>
                    Passed(p, f, new, frame.ctx, frame.fn, frame.block, i)
        /\ \A key : Stored(all, frame.ctx, key) => Stored(new, frame.ctx, key)
    BY GrowsKeeps DEF Grows
  <2>2. QED
    BY <2>1 DEF BlockCov
<1>3. /\ Begun(p, all, frame) => Begun(p, new, frame)
      /\ Waits(p, f, all, frame) => Waits(p, f, new, frame)
  BY GrowsKeeps DEF Waits, Begun, Grows
<1>4. QED
  BY <1>1, <1>2, <1>3 DEF FrameCov

-----------------------------------------------------------------------------
(* The three ways in which the stack changes *)

\* The innermost invocation goes on.
LEMMA TopCovered ==
  ASSUME NEW p, NEW f, NEW work, NEW all, NEW stk, NEW n \in Nat \ {0},
         Len(stk) = n, IsCovered(p, f, work, all, stk),
         NEW new, Grows(all, new), StatesFull(p, f, new), MarksStored(p, f, new),
         NEW frame, frame.fn = stk[n].fn, frame.ctx = stk[n].ctx,
         FrameCov(p, f, new, frame),
         \A c, h : Stored(new, c, FunctionKey(h)) => Stored(all, c, FunctionKey(h)),
         \A c, g, b : Seen(new, c, g, b) =>
           \/ Seen(all, c, g, b)
           \/ /\ c = frame.ctx /\ g = frame.fn
              /\ b = frame.block /\ frame.pos > 0,
         stk[n].pos > 0 =>
           \/ frame.block = stk[n].block /\ frame.pos > 0
           \/ BlockDone(p, f, new, frame.ctx, frame.fn, stk[n].block),
         NEW nstk, Len(nstk) = n,
         \A i \in 1 .. n : nstk[i] = IF i = n THEN frame ELSE stk[i]
  PROVE  IsCovered(p, f, work, new, nstk)
<1>1. BlocksDone(p, f, new, nstk)
  <2> SUFFICES ASSUME NEW ctx, NEW g \in DOMAIN p, NEW b \in Blocks(p, g),
                      Seen(new, ctx, g, b), ~BlockDone(p, f, new, ctx, g, b)
               PROVE  InProgress(nstk, ctx, g, b)
    BY DEF BlocksDone
  <2>1. CASE ctx = frame.ctx /\ g = frame.fn /\ b = frame.block /\ frame.pos > 0
    <3>1. n \in 1 .. Len(nstk) /\ nstk[n] = frame
      OBVIOUS
    <3>2. QED
      BY <2>1, <3>1 DEF InProgress
  <2>2. CASE Seen(all, ctx, g, b)
    <3>1. ~BlockDone(p, f, all, ctx, g, b)
      BY GrowsKeeps
    <3>2. InProgress(stk, ctx, g, b)
      BY <2>2, <3>1 DEF IsCovered, BlocksDone
    <3>3. PICK i \in 1 .. n : /\ stk[i].ctx = ctx /\ stk[i].fn = g
                              /\ stk[i].block = b /\ stk[i].pos > 0
      BY <3>2 DEF InProgress
    <3>4. CASE i # n
      BY <3>3, <3>4 DEF InProgress
    <3>5. CASE i = n
      <4>1. frame.block = b /\ frame.pos > 0 /\ frame.ctx = ctx /\ frame.fn = g
        BY <3>3, <3>5
      <4>2. QED
        BY <2>1, <4>1
    <3>6. QED
      BY <3>4, <3>5
  <2>3. QED
    BY <2>1, <2>2
<1>2. FunctionsDone(p, f, work, new, nstk)
  <2> SUFFICES ASSUME NEW ctx, NEW g \in DOMAIN p,
                      \/ Stored(new, ctx, FunctionKey(g))
                      \/ work = <<>> /\ ctx = TopContext /\ g = f
               PROVE  OnStack(nstk, ctx, g) \/ AllSeen(p, new, ctx, g)
    BY DEF FunctionsDone
  <2>1. OnStack(stk, ctx, g) \/ AllSeen(p, all, ctx, g)
    BY DEF IsCovered, FunctionsDone
  <2>2. CASE AllSeen(p, all, ctx, g)
    BY <2>2, GrowsKeeps
  <2>3. CASE OnStack(stk, ctx, g)
    <3>1. PICK i \in 1 .. n : stk[i].ctx = ctx /\ stk[i].fn = g
      BY <2>3 DEF OnStack
    <3>2. nstk[i].ctx = ctx /\ nstk[i].fn = g
      BY <3>1
    <3>3. QED
      BY <3>2 DEF OnStack
  <2>4. QED
    BY <2>1, <2>2, <2>3
<1>3. \A i \in 1 .. n : FrameCov(p, f, new, nstk[i])
  BY FrameKeeps DEF IsCovered
<1>4. \A i \in 1 .. n - 1 : Waits(p, f, new, nstk[i])
  BY FrameKeeps DEF IsCovered
<1>5. QED
  BY <1>1, <1>2, <1>3, <1>4 DEF IsCovered

\* With an empty worklist all blocks have been seen.
LEMMA WorkDone ==
  ASSUME NEW p, NEW f, NEW all, NEW frame, WorkCov(p, f, all, frame),
         frame.work = <<>>
  PROVE  AllSeen(p, all, frame.ctx, frame.fn)
<1>1. Len(frame.work) = 0
  OBVIOUS
<1>2. PICK k \in 0 .. p[frame.fn].last + 1 :
        /\ 0 >= k
        /\ \A b \in k .. p[frame.fn].last : Seen(all, frame.ctx, frame.fn, b)
  BY <1>1 DEF WorkCov
<1>3. k = 0
  BY <1>2
<1>4. QED
  BY <1>2, <1>3 DEF AllSeen, Blocks

\* The innermost invocation returns.
LEMMA PopCovered ==
  ASSUME NEW p, NEW f, NEW work, NEW all, NEW stk, NEW n \in Nat \ {0},
         Len(stk) = n, IsCovered(p, f, work, all, stk),
         stk[n].pos = 0, stk[n].work = <<>>,
         NEW nstk, Len(nstk) = n - 1,
         \A i \in 1 .. n - 1 : nstk[i] = stk[i]
  PROVE  IsCovered(p, f, work, all, nstk)
<1>1. BlocksDone(p, f, all, nstk)
  <2> SUFFICES ASSUME NEW ctx, NEW g \in DOMAIN p, NEW b \in Blocks(p, g),
                      InProgress(stk, ctx, g, b)
               PROVE  InProgress(nstk, ctx, g, b)
    BY DEF BlocksDone, IsCovered
  <2>1. PICK i \in 1 .. n : /\ stk[i].ctx = ctx /\ stk[i].fn = g
                            /\ stk[i].block = b /\ stk[i].pos > 0
    BY DEF InProgress
  <2>2. i \in 1 .. n - 1
    BY <2>1
  <2>3. QED
    BY <2>1, <2>2 DEF InProgress
<1>2. AllSeen(p, all, stk[n].ctx, stk[n].fn)
  BY WorkDone DEF IsCovered, FrameCov
<1>3. FunctionsDone(p, f, work, all, nstk)
  <2> SUFFICES ASSUME NEW ctx, NEW g \in DOMAIN p, OnStack(stk, ctx, g)
               PROVE  OnStack(nstk, ctx, g) \/ AllSeen(p, all, ctx, g)
    BY DEF FunctionsDone, IsCovered
  <2>1. PICK i \in 1 .. n : stk[i].ctx = ctx /\ stk[i].fn = g
    BY DEF OnStack
  <2>2. CASE i = n
    BY <1>2, <2>1, <2>2
  <2>3. CASE i # n
    BY <2>1, <2>3 DEF OnStack
  <2>4. QED
    BY <2>2, <2>3
<1>4. QED
  BY <1>1, <1>3 DEF IsCovered

\* A function is invoked: frame is put on the stack stk.
Invoked(p, f, work, all, stk, later, new, nstk, frame) ==
  /\ Len(stk) \in Nat /\ IsCovered(p, f, work, all, stk)
  /\ Grows(all, new) /\ StatesFull(p, f, new) /\ MarksStored(p, f, new)
  /\ Len(stk) > 0 => Waits(p, f, new, stk[Len(stk)])
  /\ FrameCov(p, f, new, frame)
  /\ \A c, h : Stored(new, c, FunctionKey(h)) =>
       Stored(all, c, FunctionKey(h)) \/ (c = frame.ctx /\ h = frame.fn)
  /\ \A c, g, b : Seen(new, c, g, b) =>
       Seen(all, c, g, b) \/ BlockDone(p, f, new, c, g, b)
  /\ later = <<>> => work = <<>> \/ (frame.ctx = TopContext /\ frame.fn = f)
  /\ Len(nstk) = Len(stk) + 1 /\ nstk[Len(stk) + 1] = frame
  /\ \A i \in 1 .. Len(stk) : nstk[i] = stk[i]

LEMMA PushCovered ==
  ASSUME NEW p, NEW f, NEW work, NEW all, NEW stk, NEW later, NEW new,
         NEW nstk, NEW frame,
         Invoked(p, f, work, all, stk, later, new, nstk, frame)
  PROVE  IsCovered(p, f, later, new, nstk)
<1> DEFINE n == Len(stk)
<1>1. /\ n \in Nat /\ Len(stk) = n
      /\ n > 0 => Waits(p, f, new, stk[n])
      /\ Len(nstk) = n + 1 /\ nstk[n + 1] = frame
      /\ \A i \in 1 .. n : nstk[i] = stk[i]
  BY DEF Invoked
<1>2. /\ IsCovered(p, f, work, all, stk)
      /\ Grows(all, new) /\ StatesFull(p, f, new) /\ MarksStored(p, f, new)
      /\ FrameCov(p, f, new, frame)
  BY DEF Invoked
<1>3. \A c, h : Stored(new, c, FunctionKey(h)) =>
        Stored(all, c, FunctionKey(h)) \/ (c = frame.ctx /\ h = frame.fn)
  BY DEF Invoked
<1>4. \A c, g, b : Seen(new, c, g, b) =>
        Seen(all, c, g, b) \/ BlockDone(p, f, new, c, g, b)
  BY DEF Invoked
<1>5. later = <<>> => work = <<>> \/ (frame.ctx = TopContext /\ frame.fn = f)
  BY DEF Invoked
<1> HIDE DEF n
<1>6. BlocksDone(p, f, new, nstk)
  <2> SUFFICES ASSUME NEW ctx, NEW g \in DOMAIN p, NEW b \in Blocks(p, g),
                      Seen(new, ctx, g, b), ~BlockDone(p, f, new, ctx, g, b)
               PROVE  InProgress(nstk, ctx, g, b)
    BY DEF BlocksDone
  <2>1. Seen(all, ctx, g, b) /\ ~BlockDone(p, f, all, ctx, g, b)
    BY <1>2, <1>4, GrowsKeeps
  <2>2. InProgress(stk, ctx, g, b)
    BY <1>2, <2>1 DEF IsCovered, BlocksDone
  <2>3. PICK i \in 1 .. n : /\ stk[i].ctx = ctx /\ stk[i].fn = g
                            /\ stk[i].block = b /\ stk[i].pos > 0
    BY <1>1, <2>2 DEF InProgress
  <2>4. i \in 1 .. Len(nstk) /\ nstk[i] = stk[i]
    BY <1>1
  <2>5. QED
    BY <2>3, <2>4 DEF InProgress
<1>7. FunctionsDone(p, f, later, new, nstk)
  <2> SUFFICES ASSUME NEW ctx, NEW g \in DOMAIN p,
                      \/ Stored(new, ctx, FunctionKey(g))
                      \/ later = <<>> /\ ctx = TopContext /\ g = f
               PROVE  OnStack(nstk, ctx, g) \/ AllSeen(p, new, ctx, g)
    BY DEF FunctionsDone
  <2>1. CASE ctx = frame.ctx /\ g = frame.fn
    <3>1. n + 1 \in 1 .. Len(nstk) /\ nstk[n + 1].ctx = ctx /\ nstk[n + 1].fn = g
      BY <1>1, <2>1
    <3>2. QED
      BY <3>1 DEF OnStack
  <2>2. CASE ~(ctx = frame.ctx /\ g = frame.fn)
    <3>1. OnStack(stk, ctx, g) \/ AllSeen(p, all, ctx, g)
      BY <1>2, <1>3, <1>5, <2>2 DEF IsCovered, FunctionsDone
    <3>2. CASE AllSeen(p, all, ctx, g)
      BY <1>2, <3>2, GrowsKeeps
    <3>3. CASE OnStack(stk, ctx, g)
      <4>1. PICK i \in 1 .. n : stk[i].ctx = ctx /\ stk[i].fn = g
        BY <1>1, <3>3 DEF OnStack
      <4>2. i \in 1 .. Len(nstk) /\ nstk[i] = stk[i]
        BY <1>1
      <4>3. QED
        BY <4>1, <4>2 DEF OnStack
    <3>4. QED
      BY <3>1, <3>2, <3>3
  <2>3. QED
    BY <2>1, <2>2
<1>8. \A i \in 1 .. n + 1 : FrameCov(p, f, new, nstk[i])
  <2>1. \A i \in 1 .. n : FrameCov(p, f, new, nstk[i])
    BY <1>1, <1>2, FrameKeeps DEF IsCovered
  <2>2. QED
    BY <1>1, <1>2, <2>1
<1>9. \A i \in 1 .. n : Waits(p, f, new, nstk[i])
  <2>1. \A i \in 1 .. n - 1 : Waits(p, f, new, stk[i])
    BY <1>1, <1>2, FrameKeeps DEF IsCovered
  <2>2. QED
    BY <1>1, <1>2, <2>1
<1>10. QED
  BY <1>1, <1>2, <1>6, <1>7, <1>8, <1>9 DEF IsCovered


-----------------------------------------------------------------------------
(* The merge of the predecessors *)

\* A state of the unit, or one that ends the process
SoundOrAborts(p, f, x) == SoundOK(p, f, x) \/ (Aborts(x) /\ CanAbort(p, f))

LEMMA MergeFacts ==
  ASSUME NEW p, NEW f, SoundMerge(p, f), NEW x, NEW y,
         SoundOrAborts(p, f, x), SoundOK(p, f, y)
  PROVE  /\ SoundOrAborts(p, f, MergeInState(x, y))
         /\ DOMAIN MergeInState(x, y) = DOMAIN x \cup DOMAIN y
<1>1. DOMAIN MergeInState(x, y) = DOMAIN x \cup DOMAIN y
  BY DEF MergeInState
<1>2. CASE SoundOK(p, f, x)
  BY <1>1, <1>2 DEF SoundOrAborts, SoundMerge, CanAbort
<1>3. CASE Aborts(x) /\ CanAbort(p, f)
  BY <1>1, <1>3 DEF SoundOrAborts, SoundMerge
<1>4. QED
  BY <1>2, <1>3 DEF SoundOrAborts

LEMMA SoundAt ==
  ASSUME NEW p, NEW f, SoundStart(p, f), NEW all, StatesFull(p, f, all),
         NEW ctx, NEW key
  PROVE  /\ SoundOK(p, f, StateAt(ResultsOf(all, ctx), key))
         /\ Stored(all, ctx, key) => Full(p, f, StateAt(ResultsOf(all, ctx), key))
<1>1. Stored(all, ctx, key) => Full(p, f, StateAt(ResultsOf(all, ctx), key))
  BY StoredState DEF StatesFull
<1>2. ~Stored(all, ctx, key) => StateAt(ResultsOf(all, ctx), key) = EmptyState
  BY StoredState
<1>3. QED
  BY <1>1, <1>2 DEF Full, SoundStart

\* A merge has what its parts have.
LEMMA MergedStates ==
  ASSUME NEW p, NEW f, SoundStart(p, f), SoundMerge(p, f),
         NEW all, StatesFull(p, f, all), NEW ctx, NEW g, NEW b,
         Len(Predecessors(g, b)) \in Nat
  PROVE  LET results == ResultsOf(all, ctx)
             merged  == MergePrevStates(results, g, b)
         IN  /\ SoundOrAborts(p, f, merged)
             /\ DOMAIN StateAt(results, BlockKey(g, b)) \subseteq DOMAIN merged
             /\ \A i \in 1 .. Len(Predecessors(g, b)) :
                  DOMAIN StateAt(results, ExitKey(g, Predecessors(g, b)[i]))
                    \subseteq DOMAIN merged
<1> DEFINE results == ResultsOf(all, ctx)
           n       == Len(Predecessors(g, b))
           own     == StateAt(results, BlockKey(g, b))
           exit(i) == StateAt(results, ExitKey(g, Predecessors(g, b)[i]))
           merged  == CHOOSE h : h = MergeUpTo(results, g, b, n, h)
           Good(i) == /\ SoundOrAborts(p, f, merged[i])
                      /\ DOMAIN own \subseteq DOMAIN merged[i]
                      /\ \A j \in 1 .. i : DOMAIN exit(j) \subseteq DOMAIN merged[i]
           Bad     == {i \in 0 .. n : ~Good(i)}
<1>1. SoundOK(p, f, own) /\ \A i : SoundOK(p, f, exit(i))
  BY SoundAt
<1>2. merged = MergeUpTo(results, g, b, n, merged)
  BY MergeExists
<1>. \A x, y : SoundOrAborts(p, f, x) /\ SoundOK(p, f, y) =>
       /\ SoundOrAborts(p, f, MergeInState(x, y))
       /\ DOMAIN MergeInState(x, y) = DOMAIN x \cup DOMAIN y
  BY MergeFacts
<1>3. \A i \in 0 .. n :
        merged[i] = IF i = 0 THEN MergeInState(EmptyState, own)
                    ELSE MergeInState(merged[i-1], exit(i))
  <2> HIDE DEF merged, results
  <2>1. QED
    BY <1>2 DEF MergeUpTo
<1> HIDE DEF merged, results, own, exit
<1>4. Good(0)
  <2>1. SoundOrAborts(p, f, EmptyState)
    BY DEF SoundOrAborts, SoundStart
  <2>2. merged[0] = MergeInState(EmptyState, own)
    BY <1>3
  <2>3. /\ SoundOrAborts(p, f, MergeInState(EmptyState, own))
        /\ DOMAIN MergeInState(EmptyState, own) = DOMAIN EmptyState \cup DOMAIN own
    BY <1>1, <2>1
  <2>4. QED
    BY <2>2, <2>3
<1>5. ASSUME NEW i \in 1 .. n, Good(i - 1) PROVE Good(i)
  <2>1. merged[i] = MergeInState(merged[i-1], exit(i))
    BY <1>3
  <2>2. /\ SoundOrAborts(p, f, MergeInState(merged[i-1], exit(i)))
        /\ DOMAIN MergeInState(merged[i-1], exit(i)) =
             DOMAIN merged[i-1] \cup DOMAIN exit(i)
    BY <1>1, <1>5
  <2>3. \A j \in 1 .. i : j = i \/ j \in 1 .. i - 1
    OBVIOUS
  <2>4. \A j \in 1 .. i : DOMAIN exit(j) \subseteq DOMAIN merged[i]
    BY <1>5, <2>1, <2>2, <2>3
  <2>5. QED
    BY <1>5, <2>1, <2>2, <2>4
<1> HIDE DEF Good
<1>6. Bad = {}
  <2>1. SUFFICES ASSUME Bad # {} PROVE FALSE
    OBVIOUS
  <2>2. PICK k \in Bad : \A j \in Bad : k <= j
    <3>1. Bad \in SUBSET Nat
      OBVIOUS
    <3> HIDE DEF Bad
    <3>2. QED
      BY <2>1, <3>1, Smallest
  <2>3. k \in 0 .. n /\ ~Good(k)
    OBVIOUS
  <2>4. k # 0 /\ k - 1 \in 0 .. n
    BY <1>4, <2>3
  <2>5. Good(k - 1)
    BY <2>2, <2>4
  <2>6. QED
    BY <1>5, <2>3, <2>4, <2>5
<1>7. Good(n)
  BY <1>6
<1>8. MergePrevStates(results, g, b) = merged[n]
  BY MergeUnfold DEF merged
<1>9. QED
  BY <1>7, <1>8 DEF Good, results, own, exit


-----------------------------------------------------------------------------
(* The innermost invocation *)

\* A unit is being analysed, and nothing has been left out.
Covered == /\ AnalysisInv /\ UnitStarted /\ InOrder(prog)
           /\ ReadyOK(prog, topFunction, manager)
           /\ IsCovered(prog, topFunction, contextWork, allResults, stack)

LEMMA CoverPromised ==
  ASSUME Promises, CoverPromises, Covered
  PROVE  /\ UnitReady(prog, topFunction) /\ SoundStart(prog, topFunction)
         /\ SoundMerge(prog, topFunction) /\ SoundStmts(prog, topFunction)
         /\ \A g \in DOMAIN prog : IsReached(prog[g]) /\ IsGraph(prog[g])
BY Promised DEF CoverPromises, Covered, UnitStarted, AnalysisInv, UnitKnown,
   InOrder

LEMMA TopFacts ==
  ASSUME Promises, CoverPromises, Covered, stack # <<>>
  PROVE  /\ Len(stack) \in Nat \ {0} /\ Top = stack[Len(stack)]
         /\ FrameOK(prog, topFunction, manager, Top)
         /\ FrameCov(prog, topFunction, allResults, Top)
         /\ IsGraph(prog[Top.fn]) /\ IsReached(prog[Top.fn])
         /\ StatesFull(prog, topFunction, allResults)
         /\ MarksStored(prog, topFunction, allResults)
         /\ IsCovered(prog, topFunction, contextWork, allResults, stack)
<1>1. /\ Len(stack) \in Nat \ {0} /\ Len(stack) \in Calls
      /\ Top = stack[Len(stack)]
  BY StackFacts DEF Covered, AnalysisInv, EngineInv, Top, Last, Calls
<1>2. FrameOK(prog, topFunction, manager, Top)
  BY GoodTop DEF Covered
<1>3. IsGraph(prog[Top.fn]) /\ IsReached(prog[Top.fn])
  BY <1>2, CoverPromised DEF FrameOK
<1>4. QED
  BY <1>1, <1>2, <1>3 DEF Covered, IsCovered, Calls

LEMMA ExitIsEnd ==
  ASSUME NEW g, NEW b
  PROVE  ExitKey(g, b) = EndKey(prog, g, b)
BY DEF ExitKey, EndKey, IsEntryExit, Entry, Exit, Elements

LEMMA MemberOf ==
  ASSUME NEW S, NEW s \in Seq(S), NEW i \in 1 .. Len(s)
  PROVE  s[i] \in S
OBVIOUS

\* A block that is not being analysed is done if it was seen.
LEMMA SeenDone ==
  ASSUME Promises, CoverPromises, Covered, stack # <<>>, Top.pos = 0,
         NEW b \in Blocks(prog, Top.fn),
         Seen(allResults, Top.ctx, Top.fn, b)
  PROVE  BlockDone(prog, topFunction, allResults, Top.ctx, Top.fn, b)
<1>1. /\ Len(stack) \in Calls /\ Top = stack[Len(stack)]
      /\ Top.fn \in DOMAIN prog
  BY TopFacts DEF Calls, FrameOK
<1>2. ~InProgress(stack, Top.ctx, Top.fn, b)
  <2>1. SUFFICES ASSUME NEW i \in Calls, stack[i].ctx = Top.ctx, stack[i].pos > 0
                 PROVE  FALSE
    BY DEF InProgress, Calls
  <2>2. i = Len(stack)
    BY <1>1, <2>1, ContextsDistinct DEF Covered, AnalysisInv
  <2>3. QED
    BY <1>1, <2>1, <2>2
<1>3. QED
  BY <1>1, <1>2 DEF Covered, IsCovered, BlocksDone

\* The next block has something to merge.
LEMMA NextIsFed ==
  ASSUME Promises, CoverPromises, Covered, stack # <<>>, Top.pos = 0,
         Top.work # <<>>
  PROVE  Fed(prog, topFunction, allResults, Top.ctx, Top.fn, Last(Top.work))
<1> DEFINE g == Top.fn
           n == Len(Top.work)
<1>1. /\ Top.work \in Seq(Blocks(prog, g)) /\ WorkCov(prog, topFunction, allResults, Top)
      /\ IsGraph(prog[g]) /\ IsReached(prog[g])
  BY TopFacts DEF FrameOK, FrameCov
<1>2. n \in Nat \ {0} /\ Last(Top.work) = Top.work[n]
  BY <1>1 DEF Last
<1>3. PICK k \in 0 .. prog[g].last + 1 :
        /\ n >= k /\ \A j \in 1 .. k : Top.work[j] = j - 1
        /\ \A b \in k .. prog[g].last : Seen(allResults, Top.ctx, g, b)
        /\ \A j \in k + 1 .. n :
             Fed(prog, topFunction, allResults, Top.ctx, g, Top.work[j])
  BY <1>1 DEF WorkCov
<1>4. CASE n > k
  BY <1>2, <1>3, <1>4
<1>5. CASE n = k /\ k - 1 = prog[g].last
  BY <1>2, <1>3, <1>5 DEF Fed
<1>6. CASE n = k /\ k - 1 # prog[g].last
  <2>1. PICK c \in 0 .. prog[g].last - 1 : c = k - 1
    BY <1>1, <1>2, <1>6 DEF IsGraph
  <2>2. Last(Top.work) = c /\ prog[g].last \in Nat /\ c \in Blocks(prog, g)
    BY <1>1, <1>2, <1>3, <1>6, <2>1 DEF IsGraph, Blocks
  <2>3. PICK i \in 1 .. Len(prog[g].pred[c]) : prog[g].pred[c][i] > c
    BY <1>1, <2>1 DEF IsReached
  <2> DEFINE s == prog[g].pred[c]
             q == s[i]
  <2>4. s \in Seq(0 .. prog[g].last)
    BY <1>1, <2>2 DEF IsGraph, Blocks
  <2>5. q \in 0 .. prog[g].last
    BY <2>4, MemberOf
  <2>6. q \in k .. prog[g].last /\ q \in Blocks(prog, g)
    BY <2>1, <2>2, <2>3, <2>5 DEF Blocks
  <2>7. BlockDone(prog, topFunction, allResults, Top.ctx, g, q)
    BY <1>3, <2>6, SeenDone
  <2>8. topFunction \in FullUnits(prog) =>
          Stored(allResults, Top.ctx, EndKey(prog, g, q))
    BY <2>7 DEF BlockDone, MustStore
  <2>9. QED
    BY <2>2, <2>8 DEF Fed
<1>7. QED
  BY <1>2, <1>3, <1>4, <1>5, <1>6

LEMMA NextMerged ==
  ASSUME Promises, CoverPromises, Covered, stack # <<>>, Top.pos = 0,
         Top.work # <<>>
  PROVE  LET merged == MergePrevStates(Results(Top), Top.fn, Last(Top.work))
         IN  /\ SoundOrAborts(prog, topFunction, merged)
             /\ ~Aborts(merged) => Full(prog, topFunction, merged)
<1> DEFINE b      == Last(Top.work)
           f      == topFunction
           preds  == Predecessors(Top.fn, b)
           merged == MergePrevStates(Results(Top), Top.fn, b)
<1>1. SoundStart(prog, f) /\ SoundMerge(prog, f)
  BY CoverPromised
<1>2. /\ StatesFull(prog, f, allResults)
      /\ b \in Blocks(prog, Top.fn) /\ Len(preds) \in Nat
  <2>1. b \in Blocks(prog, Top.fn)
    BY BlockTaken DEF Covered
  <2>2. preds \in Seq(Blocks(prog, Top.fn))
    BY <2>1, TopBlocks DEF Covered
  <2>3. QED
    BY <2>1, <2>2, TopFacts
<1>3. /\ SoundOrAborts(prog, f, merged)
      /\ DOMAIN StateAt(Results(Top), BlockKey(Top.fn, b)) \subseteq DOMAIN merged
      /\ \A i \in 1 .. Len(preds) :
           DOMAIN StateAt(Results(Top), ExitKey(Top.fn, preds[i]))
             \subseteq DOMAIN merged
  BY <1>1, <1>2, MergedStates DEF Results
<1>4. ASSUME f \in FullUnits(prog) PROVE DOMAIN merged # {}
  <2>1. Fed(prog, f, allResults, Top.ctx, Top.fn, b)
    BY NextIsFed
  <2>2. \A key : Stored(allResults, Top.ctx, key) =>
          DOMAIN StateAt(Results(Top), key) # {}
    BY <1>1, <1>2, <1>4, SoundAt DEF Full, Results
  <2>3. CASE b = prog[Top.fn].last
    <3>1. Stored(allResults, Top.ctx, BlockKey(Top.fn, b))
      BY <2>3, TopFacts DEF FrameCov, Begun, Seen
    <3>2. QED
      BY <1>3, <2>2, <3>1
  <2>4. CASE b # prog[Top.fn].last
    <3>1. PICK i \in 1 .. Len(preds) :
            Stored(allResults, Top.ctx, ExitKey(Top.fn, preds[i]))
      BY <1>4, <2>1, <2>4, ExitIsEnd DEF Fed, Predecessors
    <3>2. QED
      BY <1>3, <2>2, <3>1
  <2>5. QED
    BY <2>3, <2>4
<1>5. QED
  BY <1>3, <1>4 DEF SoundOrAborts, Full

\* A block taken off the worklist has been seen.
LEMMA WorkTaken ==
  ASSUME NEW p, NEW f, NEW all, NEW frame, WorkCov(p, f, all, frame),
         p[frame.fn].last \in Nat,
         frame.work \in Seq(Blocks(p, frame.fn)), frame.work # <<>>,
         NEW new, Grows(all, new),
         Seen(new, frame.ctx, frame.fn, Last(frame.work)),
         NEW next, next.fn = frame.fn, next.ctx = frame.ctx,
         next.work = Front(frame.work)
  PROVE  WorkCov(p, f, new, next)
<1> DEFINE n == Len(frame.work)
<1>1. WorkCov(p, f, new, frame)
  BY FrameKeeps
<1>2. PICK k \in 0 .. p[frame.fn].last + 1 :
        /\ n >= k /\ \A j \in 1 .. k : frame.work[j] = j - 1
        /\ \A b \in k .. p[frame.fn].last : Seen(new, frame.ctx, frame.fn, b)
        /\ \A j \in k + 1 .. n : Fed(p, f, new, frame.ctx, frame.fn, frame.work[j])
  BY <1>1 DEF WorkCov
<1>3. /\ n \in Nat \ {0} /\ Len(next.work) = n - 1
      /\ \A j \in 1 .. n - 1 : next.work[j] = frame.work[j]
      /\ Last(frame.work) = frame.work[n]
  BY DEF Front, Last
<1>4. CASE n > k
  <2>1. /\ Len(next.work) >= k /\ \A j \in 1 .. k : next.work[j] = j - 1
        /\ \A j \in k + 1 .. Len(next.work) :
             Fed(p, f, new, next.ctx, next.fn, next.work[j])
    BY <1>2, <1>3, <1>4
  <2>2. QED
    BY <1>2, <2>1 DEF WorkCov
<1>5. CASE n = k
  <2>1. Last(frame.work) = k - 1 /\ k - 1 \in 0 .. p[frame.fn].last + 1
    BY <1>2, <1>3, <1>5
  <2>2. \A b \in k - 1 .. p[frame.fn].last : b = k - 1 \/ b \in k .. p[frame.fn].last
    BY <1>2
  <2>3. \A b \in k - 1 .. p[frame.fn].last : Seen(new, frame.ctx, frame.fn, b)
    BY <1>2, <2>1, <2>2
  <2>4. /\ Len(next.work) >= k - 1 /\ \A j \in 1 .. k - 1 : next.work[j] = j - 1
        /\ \A j \in (k - 1) + 1 .. Len(next.work) :
             Fed(p, f, new, next.ctx, next.fn, next.work[j])
    BY <1>2, <1>3, <1>5
  <2>5. QED
    BY <2>1, <2>3, <2>4 DEF WorkCov
<1>6. QED
  BY <1>2, <1>3, <1>4, <1>5


-----------------------------------------------------------------------------
(* The steps of the innermost invocation *)

\* A state is stored at a block or a statement.
LEMMA Written ==
  ASSUME NEW p, NEW f, NEW all, StatesFull(p, f, all), MarksStored(p, f, all),
         NEW ctx, NEW key, \A h : key # FunctionKey(h),
         NEW state, Full(p, f, state),
         \A g \in DOMAIN p : \A b \in Blocks(p, g) :
           /\ key = EndKey(p, g, b)
           /\ MarkOpen(p, f, g, b, Len(p[g].elems[b]) + 1)
           => Marked(state)
  PROVE  LET new == AssignIn(all, ctx, key, state)
         IN  /\ Grows(all, new) /\ StatesFull(p, f, new) /\ MarksStored(p, f, new)
             /\ Stored(new, ctx, key)
             /\ \A c, h : Stored(new, c, FunctionKey(h)) =>
                            Stored(all, c, FunctionKey(h))
             /\ \A c, g, b : Seen(new, c, g, b) =>
                  Seen(all, c, g, b) \/ (c = ctx /\ key = BlockKey(g, b))
<1> DEFINE new == AssignIn(all, ctx, key, state)
<1>1. Grows(all, new) /\ StatesFull(p, f, new)
  BY AssignGrows, FullAfter
<1>2. MarksStored(p, f, new)
  BY MarksAfter
<1>3. \A c, k : Stored(new, c, k) <=> Stored(all, c, k) \/ (c = ctx /\ k = key)
  BY StoredAfter
<1> HIDE DEF new
<1>4. QED
  BY <1>1, <1>2, <1>3 DEF Seen, new

LEMMA TopSet ==
  ASSUME AnalysisInv, stack # <<>>, NEW frame, stack' = SetTop(frame)
  PROVE  /\ Len(stack') = Len(stack)
         /\ \A i \in 1 .. Len(stack) :
              stack'[i] = IF i = Len(stack) THEN frame ELSE stack[i]
<1>1. stack \in Seq({stack[i] : i \in Calls}) /\ DOMAIN stack = Calls
  BY StackFacts DEF AnalysisInv, EngineInv, StackIsSeq
<1>2. Len(stack') = Len(stack)
  BY <1>1 DEF SetTop, Calls
<1>3. QED
  BY <1>1, <1>2 DEF SetTop, Calls

LEMMA TopStepCovered ==
  ASSUME Promises, CoverPromises, Covered, stack # <<>>,
         NEW frame, stack' = SetTop(frame),
         frame.fn = Top.fn, frame.ctx = Top.ctx,
         UNCHANGED <<prog, topFunction, contextWork>>,
         Grows(allResults, allResults'),
         StatesFull(prog, topFunction, allResults'),
         MarksStored(prog, topFunction, allResults'),
         FrameCov(prog, topFunction, allResults', frame),
         \A c, h : Stored(allResults', c, FunctionKey(h)) =>
                     Stored(allResults, c, FunctionKey(h)),
         \A c, g, b : Seen(allResults', c, g, b) =>
           \/ Seen(allResults, c, g, b)
           \/ /\ c = frame.ctx /\ g = frame.fn
              /\ b = frame.block /\ frame.pos > 0,
         Top.pos > 0 =>
           \/ frame.block = Top.block /\ frame.pos > 0
           \/ BlockDone(prog, topFunction, allResults', frame.ctx, frame.fn,
                        Top.block)
  PROVE  IsCovered(prog, topFunction, contextWork, allResults, stack)'
<1>1. /\ Len(stack') = Len(stack)
      /\ \A i \in 1 .. Len(stack) :
           stack'[i] = IF i = Len(stack) THEN frame ELSE stack[i]
  BY TopSet DEF Covered
<1>2. /\ Len(stack) \in Nat \ {0} /\ Top = stack[Len(stack)]
      /\ IsCovered(prog, topFunction, contextWork, allResults, stack)
  BY TopFacts
<1>3. IsCovered(prog, topFunction, contextWork, allResults', stack')
  BY <1>1, <1>2, TopCovered
<1>4. QED
  BY <1>3

LEMMA SkipBlockCovered ==
  ASSUME Promises, CoverPromises, Covered, SkipBlock
  PROVE  IsCovered(prog, topFunction, contextWork, allResults, stack)'
<1> DEFINE b      == Last(Top.work)
           merged == MergePrevStates(Results(Top), Top.fn, b)
           frame  == [Top EXCEPT !.work = Front(@)]
<1>1. /\ stack # <<>> /\ Top.pos = 0 /\ Top.work # <<>>
      /\ stack' = SetTop(frame)
      /\ merged = StateAt(Results(Top), BlockKey(Top.fn, b))
      /\ merged # EmptyState
      /\ UNCHANGED <<prog, topFunction, contextWork, allResults>>
  <2>1. /\ stack # <<>> /\ Top.pos = 0 /\ Top.work # <<>>
        /\ stack' = SetTop(frame) /\ Same(frame, b, merged)
        /\ UNCHANGED <<prog, topFunction, contextWork, allResults>>
    BY DEF SkipBlock, NextBlock, InBlocks
  <2>2. frame.fn = Top.fn /\ frame.ctx = Top.ctx
    OBVIOUS
  <2> HIDE DEF frame, b, merged
  <2>3. QED
    BY <2>1, <2>2 DEF Same, OldEntry, Results, frame, b, merged
<1>2. /\ FrameOK(prog, topFunction, manager, Top)
      /\ FrameCov(prog, topFunction, allResults, Top)
      /\ StatesFull(prog, topFunction, allResults)
      /\ MarksStored(prog, topFunction, allResults)
      /\ IsGraph(prog[Top.fn])
  BY <1>1, TopFacts
<1>3. Seen(allResults, Top.ctx, Top.fn, b)
  BY <1>1, StoredState DEF Seen, Results
<1>4. /\ frame.fn = Top.fn /\ frame.ctx = Top.ctx /\ frame.pos = 0
      /\ frame.work = Front(Top.work)
  BY <1>1, <1>2 DEF FrameOK
<1> HIDE DEF frame, merged
<1>5. Grows(allResults, allResults)
  BY DEF Grows
<1>6. WorkCov(prog, topFunction, allResults, frame)
  <2>1. prog[Top.fn].last \in Nat
    BY <1>2 DEF IsGraph
  <2>2. QED
    BY <1>1, <1>2, <1>3, <1>4, <1>5, <2>1, WorkTaken DEF FrameOK, FrameCov
<1>7. FrameCov(prog, topFunction, allResults, frame)
  BY <1>2, <1>4, <1>6 DEF FrameCov, Begun, BlockCov
<1>8. QED
  BY <1>1, <1>2, <1>4, <1>5, <1>7, TopStepCovered

LEMMA EnterBlockCovered ==
  ASSUME Promises, CoverPromises, Covered, EnterBlock
  PROVE  IsCovered(prog, topFunction, contextWork, allResults, stack)'
<1> DEFINE b      == Last(Top.work)
           merged == MergePrevStates(Results(Top), Top.fn, b)
           taken  == [Top EXCEPT !.work = Front(@)]
           old    == StateAt(Results(Top), ExitKey(Top.fn, b))
           frame  == [taken EXCEPT !.block = b, !.pos = 1, !.state = merged,
                                   !.oldExit = old]
           key    == BlockKey(Top.fn, b)
<1>1. /\ stack # <<>> /\ Top.pos = 0 /\ Top.work # <<>>
      /\ stack' = SetTop(frame) /\ ~Aborts(merged)
      /\ allResults' = AssignIn(allResults, Top.ctx, key, merged)
      /\ UNCHANGED <<prog, topFunction, contextWork>>
  <2>1. taken.fn = Top.fn /\ taken.ctx = Top.ctx
    OBVIOUS
  <2>2. Results(taken) = Results(Top)
    BY <2>1 DEF Results
  <2> HIDE DEF b, merged
  <2>3. /\ stack # <<>> /\ Top.pos = 0 /\ Top.work # <<>> /\ ~Aborts(merged)
        /\ allResults' = AssignIn(allResults, taken.ctx, BlockKey(taken.fn, b), merged)
        /\ stack' = SetTop([taken EXCEPT
             !.block = b, !.pos = 1, !.state = merged,
             !.oldExit = StateAt(Results(taken), ExitKey(taken.fn, b))])
        /\ UNCHANGED <<prog, topFunction, contextWork>>
    BY DEF EnterBlock, NextBlock, InBlocks, b, merged
  <2>4. QED
    BY <2>1, <2>2, <2>3
<1>2. /\ FrameOK(prog, topFunction, manager, Top)
      /\ FrameCov(prog, topFunction, allResults, Top)
      /\ StatesFull(prog, topFunction, allResults)
      /\ MarksStored(prog, topFunction, allResults)
      /\ IsGraph(prog[Top.fn])
  BY <1>1, TopFacts
<1>3. b \in Blocks(prog, Top.fn) /\ Full(prog, topFunction, merged)
  BY <1>1, NextMerged, BlockTaken DEF Covered
<1>4. old # EmptyState => Stored(allResults, Top.ctx, ExitKey(Top.fn, b))
  BY StoredState DEF Results
<1>5. /\ frame.fn = Top.fn /\ frame.ctx = Top.ctx /\ frame.pos = 1
      /\ frame.work = Front(Top.work) /\ frame.block = b
      /\ frame.state = merged /\ frame.oldExit = old
  <2>1. /\ taken.fn = Top.fn /\ taken.ctx = Top.ctx
        /\ taken.work = Front(Top.work)
        /\ {"block", "pos", "state", "oldExit"} \subseteq DOMAIN taken
    BY <1>2 DEF FrameOK
  <2> HIDE DEF taken, b, merged, old
  <2>2. QED
    BY <2>1
<1> HIDE DEF frame, merged, old, b
<1>6. \A g \in DOMAIN prog : \A c \in Blocks(prog, g) :
        /\ key = EndKey(prog, g, c)
        /\ MarkOpen(prog, topFunction, g, c, Len(prog[g].elems[c]) + 1)
        => Marked(merged)
  <2>1. SUFFICES ASSUME NEW g \in DOMAIN prog, NEW c \in Blocks(prog, g),
                        key = EndKey(prog, g, c),
                        MarkOpen(prog, topFunction, g, c, Len(prog[g].elems[c]) + 1)
                 PROVE  FALSE
    OBVIOUS
  <2>2. c \in {prog[g].last, 0}
    BY <2>1, KeysDiffer DEF EndKey
  <2>3. IsGraph(prog[g])
    BY CoverPromised
  <2>4. prog[g].elems[c] = <<>>
    BY <2>2, <2>3 DEF IsGraph, Blocks
  <2>5. 1 .. Len(prog[g].elems[c]) + 1 - 1 = {}
    BY <2>4
  <2>6. QED
    BY <2>1, <2>5 DEF MarkOpen
<1>7. /\ Grows(allResults, allResults')
      /\ StatesFull(prog, topFunction, allResults')
      /\ MarksStored(prog, topFunction, allResults')
      /\ Seen(allResults', Top.ctx, Top.fn, b)
      /\ \A c, h : Stored(allResults', c, FunctionKey(h)) =>
                     Stored(allResults, c, FunctionKey(h))
      /\ \A c, g, d : Seen(allResults', c, g, d) =>
           Seen(allResults, c, g, d) \/ (c = Top.ctx /\ key = BlockKey(g, d))
  <2>1. \A h : key # FunctionKey(h)
    BY KeysDiffer
  <2>2. QED
    BY <1>1, <1>2, <1>3, <1>6, <2>1, Written DEF Seen
<1>8. FrameCov(prog, topFunction, allResults', frame)
  <2>1. prog[Top.fn].last \in Nat
    BY <1>2 DEF IsGraph
  <2>2. WorkCov(prog, topFunction, allResults', frame)
    BY <1>1, <1>2, <1>5, <1>7, <2>1, WorkTaken DEF FrameOK, FrameCov, b
  <2>3. BlockCov(prog, topFunction, allResults', frame)
    <3>1. ~MarkOpen(prog, topFunction, Top.fn, b, 1)
      BY DEF MarkOpen
    <3>2. frame.oldExit # EmptyState =>
            Stored(allResults', Top.ctx, EndKey(prog, Top.fn, b))
      BY <1>4, <1>5, <1>7, ExitIsEnd DEF Grows
    <3>3. Len(prog[Top.fn].elems[b]) \in Nat
      BY <1>2, <1>3 DEF IsGraph, Blocks
    <3>4. QED
      BY <1>3, <1>5, <1>7, <3>1, <3>2, <3>3 DEF BlockCov, Positions
  <2>4. Begun(prog, allResults', Top)
    BY <1>2, <1>7, FrameKeeps DEF FrameCov
  <2>5. QED
    BY <1>5, <2>2, <2>3, <2>4 DEF FrameCov, Begun
<1>9. \A c, g, d : Seen(allResults', c, g, d) =>
        \/ Seen(allResults, c, g, d)
        \/ /\ c = frame.ctx /\ g = frame.fn
           /\ d = frame.block /\ frame.pos > 0
  BY <1>5, <1>7, KeysDiffer
<1>10. QED
  BY <1>1, <1>2, <1>5, <1>7, <1>8, <1>9, TopStepCovered


\* Blocks with something to merge are put on the worklist.
LEMMA WorkGrown ==
  ASSUME NEW p, NEW f, NEW all, NEW frame, WorkCov(p, f, all, frame),
         p[frame.fn].last \in Nat,
         NEW S, frame.work \in Seq(S), NEW more \in Seq(S),
         \A i \in 1 .. Len(more) : Fed(p, f, all, frame.ctx, frame.fn, more[i]),
         NEW next, next.fn = frame.fn, next.ctx = frame.ctx,
         next.work = frame.work \o more
  PROVE  WorkCov(p, f, all, next)
<1> DEFINE n == Len(frame.work)
<1>1. PICK k \in 0 .. p[frame.fn].last + 1 :
        /\ n >= k /\ \A j \in 1 .. k : frame.work[j] = j - 1
        /\ \A b \in k .. p[frame.fn].last : Seen(all, frame.ctx, frame.fn, b)
        /\ \A j \in k + 1 .. n : Fed(p, f, all, frame.ctx, frame.fn, frame.work[j])
  BY DEF WorkCov
<1>2. /\ n \in Nat /\ Len(more) \in Nat /\ Len(next.work) = n + Len(more)
      /\ \A j \in 1 .. n : next.work[j] = frame.work[j]
      /\ \A j \in n + 1 .. n + Len(more) : next.work[j] = more[j - n]
  OBVIOUS
<1>3. Len(next.work) >= k /\ \A j \in 1 .. k : next.work[j] = j - 1
  BY <1>1, <1>2
<1>4. ASSUME NEW j \in k + 1 .. Len(next.work)
      PROVE  Fed(p, f, all, frame.ctx, frame.fn, next.work[j])
  <2>1. CASE j <= n
    BY <1>1, <1>2, <2>1
  <2>2. CASE j > n
    <3>1. j - n \in 1 .. Len(more) /\ next.work[j] = more[j - n]
      BY <1>1, <1>2, <2>2
    <3>2. QED
      BY <3>1
  <2>3. QED
    BY <1>1, <1>2, <2>1, <2>2
<1>5. QED
  BY <1>1, <1>3, <1>4 DEF WorkCov

\* A mark is open behind a statement that marks, or that does not call.
LEMMA MarkNext ==
  ASSUME NEW p, NEW f, NEW g, NEW b, NEW i \in Nat \ {0},
         MarkOpen(p, f, g, b, i + 1)
  PROVE  /\ ~IsCallAt(p, g, b, i)
         /\ MarkOpen(p, f, g, b, i) \/ Marks(p, f, p[g].elems[b][i])
<1>1. PICK j \in 1 .. i : /\ Marks(p, f, p[g].elems[b][j])
                          /\ \A k \in j .. i : ~IsCallAt(p, g, b, k)
  BY DEF MarkOpen
<1>2. ~IsCallAt(p, g, b, i)
  BY <1>1
<1>3. CASE j = i
  BY <1>1, <1>2, <1>3
<1>4. CASE j # i
  <2>1. j \in 1 .. i - 1 /\ \A k \in j .. i - 1 : ~IsCallAt(p, g, b, k)
    BY <1>1, <1>4
  <2>2. QED
    BY <1>1, <1>2, <2>1 DEF MarkOpen
<1>5. QED
  BY <1>3, <1>4

\* A state that must be stored is not the one a missing entry reads as.
LEMMA MustStoreState ==
  ASSUME NEW p, NEW f, NEW g, NEW b, NEW i, MustStore(p, f, g, b, i),
         NEW x, Full(p, f, x), MarkOpen(p, f, g, b, i) => Marked(x)
  PROVE  x # EmptyState
<1>1. DOMAIN x # {}
  BY DEF MustStore, Full, Marked
<1>2. DOMAIN EmptyState = {}
  BY DEF EmptyState
<1>3. QED
  BY <1>1, <1>2

\* The edges of a graph are entered at both ends.
LEMMA EdgeEnds ==
  ASSUME NEW g, IsGraph(g), NEW b \in 0 .. g.last, NEW c \in 0 .. g.last
  PROVE  /\ \A i \in 1 .. Len(g.succ[b]) : g.succ[b][i] = c =>
              \E j \in 1 .. Len(g.pred[c]) : g.pred[c][j] = b
         /\ \A j \in 1 .. Len(g.pred[c]) : g.pred[c][j] = b =>
              \E i \in 1 .. Len(g.succ[b]) : g.succ[b][i] = c
<1>1. (\E i \in 1 .. Len(g.succ[b]) : g.succ[b][i] = c)
        <=> (\E j \in 1 .. Len(g.pred[c]) : g.pred[c][j] = b)
  BY DEF IsGraph
<1> DEFINE succ == g.succ[b]
           pred == g.pred[c]
<1>2. (\E i \in 1 .. Len(succ) : succ[i] = c)
        <=> (\E j \in 1 .. Len(pred) : pred[j] = b)
  BY <1>1
<1> HIDE DEF succ, pred
<1>3. /\ \A i \in 1 .. Len(succ) : succ[i] = c =>
           \E j \in 1 .. Len(pred) : pred[j] = b
      /\ \A j \in 1 .. Len(pred) : pred[j] = b =>
           \E i \in 1 .. Len(succ) : succ[i] = c
  BY <1>2
<1>4. QED
  BY <1>3 DEF succ, pred

LEMMA FinishBlockCovered ==
  ASSUME Promises, CoverPromises, Covered, FinishBlock
  PROVE  IsCovered(prog, topFunction, contextWork, allResults, stack)'
<1> DEFINE f      == topFunction
           g      == Top.fn
           b      == Top.block
           key    == ExitKey(g, b)
           quiet  == [Top EXCEPT !.pos = 0]
           frame  == [Top EXCEPT !.pos = 0, !.work = @ \o Successors(g, b)]
<1>1. /\ stack # <<>> /\ Top.pos = Len(prog[g].elems[b]) + 1
      /\ \/ /\ Top.state = Top.oldExit /\ stack' = SetTop(quiet)
            /\ allResults' = allResults
         \/ /\ Top.state # Top.oldExit /\ stack' = SetTop(frame)
            /\ allResults' = AssignIn(allResults, Top.ctx, key, Top.state)
      /\ UNCHANGED <<prog, topFunction, contextWork>>
  BY DEF FinishBlock, AtBlockEnd, Elements
<1>2. /\ FrameOK(prog, f, manager, Top) /\ FrameCov(prog, f, allResults, Top)
      /\ StatesFull(prog, f, allResults) /\ MarksStored(prog, f, allResults)
      /\ IsGraph(prog[g]) /\ IsReached(prog[g])
  BY <1>1, TopFacts
<1>3. /\ Len(prog[g].elems[b]) \in Nat /\ b \in Blocks(prog, g)
      /\ g \in DOMAIN prog /\ prog[g].last \in Nat /\ Top.pos > 0
  BY <1>1, <1>2 DEF IsGraph, Blocks, FrameOK
<1>4. /\ Seen(allResults, Top.ctx, g, b)
      /\ \A i \in Positions(prog, g, b) :
           Passed(prog, f, allResults, Top.ctx, g, b, i)
      /\ Full(prog, f, Top.state)
      /\ MarkOpen(prog, f, g, b, Len(prog[g].elems[b]) + 1) => Marked(Top.state)
      /\ Top.oldExit # EmptyState => Stored(allResults, Top.ctx, EndKey(prog, g, b))
  BY <1>1, <1>2, <1>3 DEF FrameCov, BlockCov, Positions
<1>5. key = EndKey(prog, g, b)
  BY ExitIsEnd
<1>6. CASE Top.state = Top.oldExit
  <2>1. quiet.fn = g /\ quiet.ctx = Top.ctx /\ quiet.pos = 0 /\ quiet.work = Top.work
    BY <1>2 DEF FrameOK
  <2> HIDE DEF quiet, frame
  <2>2. Grows(allResults, allResults)
    BY DEF Grows
  <2>3. FrameCov(prog, f, allResults, quiet)
    BY <1>2, <2>1 DEF FrameCov, Begun, BlockCov, WorkCov
  <2>4. BlockDone(prog, f, allResults, Top.ctx, g, b)
    BY <1>4, <1>6, MustStoreState DEF BlockDone
  <2>5. stack' = SetTop(quiet) /\ allResults' = allResults
    BY <1>1, <1>6
  <2>6. QED
    BY <1>1, <1>2, <2>1, <2>2, <2>3, <2>4, <2>5, TopStepCovered
<1>7. CASE Top.state # Top.oldExit
  <2>1. /\ frame.fn = g /\ frame.ctx = Top.ctx /\ frame.pos = 0
        /\ frame.work = Top.work \o Successors(g, b)
    BY <1>2 DEF FrameOK
  <2> HIDE DEF quiet, frame
  <2>2. /\ stack' = SetTop(frame)
        /\ allResults' = AssignIn(allResults, Top.ctx, key, Top.state)
    BY <1>1, <1>7
  <2>3. /\ Grows(allResults, allResults') /\ StatesFull(prog, f, allResults')
        /\ MarksStored(prog, f, allResults') /\ Stored(allResults', Top.ctx, key)
        /\ \A c, h : Stored(allResults', c, FunctionKey(h)) =>
                       Stored(allResults, c, FunctionKey(h))
        /\ \A c, h, d : Seen(allResults', c, h, d) =>
             Seen(allResults, c, h, d) \/ (c = Top.ctx /\ key = BlockKey(h, d))
    <3>1. /\ \A h : key # FunctionKey(h)
          /\ \A h, c : key = EndKey(prog, h, c) => h = g /\ c = b
      BY <1>5, EndKeyFacts
    <3>2. \A h \in DOMAIN prog : \A c \in Blocks(prog, h) :
            /\ key = EndKey(prog, h, c)
            /\ MarkOpen(prog, f, h, c, Len(prog[h].elems[c]) + 1)
            => Marked(Top.state)
      BY <1>4, <3>1
    <3>3. QED
      BY <1>2, <1>4, <2>2, <3>1, <3>2, Written
  <2>4. \A c, h, d : Seen(allResults', c, h, d) => Seen(allResults, c, h, d)
    <3>1. \A h, d : key = BlockKey(h, d) => h = g /\ d = b
      BY <1>5, KeysDiffer DEF EndKey
    <3>2. QED
      BY <1>4, <2>3, <3>1
  <2>5. BlockDone(prog, f, allResults', Top.ctx, g, b)
    BY <1>4, <1>5, <2>3, GrowsKeeps DEF BlockDone
  <2>6. WorkCov(prog, f, allResults', frame)
    <3>1. WorkCov(prog, f, allResults', Top)
      BY <1>2, <2>3, FrameKeeps DEF FrameCov
    <3>2. Successors(g, b) \in Seq(Blocks(prog, g))
      BY <1>2, <1>3 DEF IsGraph, Successors, Blocks
    <3>3. ASSUME NEW i \in 1 .. Len(Successors(g, b))
          PROVE  Fed(prog, f, allResults', Top.ctx, g, Successors(g, b)[i])
      <4>1. \E j \in 1 .. Len(prog[g].pred[Successors(g, b)[i]]) :
              prog[g].pred[Successors(g, b)[i]][j] = b
        <5> DEFINE c == Successors(g, b)[i]
                   G == prog[g]
        <5>1. /\ IsGraph(G) /\ c \in 0 .. G.last /\ b \in 0 .. G.last
              /\ i \in 1 .. Len(G.succ[b]) /\ G.succ[b][i] = c
          BY <1>2, <1>3, <3>2, MemberOf DEF Blocks, Successors
        <5> HIDE DEF c, G, b
        <5>2. \E j \in 1 .. Len(G.pred[c]) : G.pred[c][j] = b
          BY <5>1, EdgeEnds
        <5>3. QED
          BY <5>2 DEF c, G
      <4>2. QED
        BY <1>5, <2>3, <4>1 DEF Fed
    <3>4. Top.work \in Seq(Blocks(prog, g))
      BY <1>2 DEF FrameOK
    <3>5. QED
      BY <1>3, <2>1, <3>1, <3>2, <3>3, <3>4, WorkGrown
  <2>7. FrameCov(prog, f, allResults', frame)
    <3>1. Begun(prog, allResults', Top)
      BY <1>2, <2>3, FrameKeeps DEF FrameCov
    <3>2. QED
      BY <2>1, <2>6, <3>1 DEF FrameCov, Begun, BlockCov
  <2>8. QED
    BY <1>1, <2>1, <2>2, <2>3, <2>4, <2>5, <2>7, TopStepCovered
<1>8. QED
  BY <1>6, <1>7


\* The innermost invocation at a statement
LEMMA StmtFacts ==
  ASSUME Promises, CoverPromises, Covered, InStmts
  PROVE  /\ stack # <<>> /\ Top.fn \in DOMAIN prog
         /\ InUnit(prog, topFunction, Top.fn)
         /\ Top.block \in Blocks(prog, Top.fn)
         /\ Top.pos \in Positions(prog, Top.fn, Top.block)
         /\ Top.pos \in Nat \ {0}
         /\ Len(prog[Top.fn].elems[Top.block]) \in Nat
         /\ CurrentStmt(Top) = prog[Top.fn].elems[Top.block][Top.pos]
         /\ Seen(allResults, Top.ctx, Top.fn, Top.block)
         /\ Full(prog, topFunction, Top.state)
         /\ MarkOpen(prog, topFunction, Top.fn, Top.block, Top.pos) =>
              Marked(Top.state)
         /\ FrameOK(prog, topFunction, manager, Top)
         /\ FrameCov(prog, topFunction, allResults, Top)
         /\ StatesFull(prog, topFunction, allResults)
         /\ MarksStored(prog, topFunction, allResults)
<1>1. stack # <<>>
  BY DEF InStmts
<1>2. /\ FrameOK(prog, topFunction, manager, Top)
      /\ FrameCov(prog, topFunction, allResults, Top)
      /\ StatesFull(prog, topFunction, allResults)
      /\ MarksStored(prog, topFunction, allResults)
      /\ IsGraph(prog[Top.fn])
  BY <1>1, TopFacts
<1>3. Len(prog[Top.fn].elems[Top.block]) \in Nat
  BY <1>2 DEF IsGraph, FrameOK, Blocks
<1>4. /\ Top.pos > 0 /\ Top.pos <= Len(prog[Top.fn].elems[Top.block])
      /\ CurrentStmt(Top) = prog[Top.fn].elems[Top.block][Top.pos]
  BY DEF InStmts, Elements, CurrentStmt
<1>5. QED
  BY <1>1, <1>2, <1>3, <1>4 DEF FrameOK, FrameCov, BlockCov, Positions

\* A state is stored at a statement.
LEMMA StmtWritten ==
  ASSUME NEW p, NEW f, NEW all, StatesFull(p, f, all), MarksStored(p, f, all),
         NEW ctx, NEW g, NEW b, NEW i, NEW state, Full(p, f, state),
         MarkOpen(p, f, g, b, i + 1) => Marked(state)
  PROVE  LET new == AssignIn(all, ctx, StmtKey(g, b, i), state)
         IN  /\ Grows(all, new) /\ StatesFull(p, f, new) /\ MarksStored(p, f, new)
             /\ \A c, h : Stored(new, c, FunctionKey(h)) =>
                            Stored(all, c, FunctionKey(h))
             /\ \A c, h, d : Seen(new, c, h, d) => Seen(all, c, h, d)
<1> DEFINE key == StmtKey(g, b, i)
           new == AssignIn(all, ctx, key, state)
<1>0. \A h : key # FunctionKey(h)
  BY KeysDiffer
<1>1. /\ \A h, d : key # BlockKey(h, d)
      /\ \A h, d : key = EndKey(p, h, d) =>
           h = g /\ d = b /\ i = Len(p[g].elems[b])
  BY KeysDiffer DEF EndKey
<1> HIDE DEF key
<1>2. \A h \in DOMAIN p : \A d \in Blocks(p, h) :
        /\ key = EndKey(p, h, d)
        /\ MarkOpen(p, f, h, d, Len(p[h].elems[d]) + 1)
        => Marked(state)
  BY <1>1
<1>3. /\ Grows(all, new) /\ StatesFull(p, f, new) /\ MarksStored(p, f, new)
      /\ \A c, h : Stored(new, c, FunctionKey(h)) => Stored(all, c, FunctionKey(h))
      /\ \A c, h, d : Seen(new, c, h, d) =>
           Seen(all, c, h, d) \/ (c = ctx /\ key = BlockKey(h, d))
  BY <1>0, <1>2, Written
<1> HIDE DEF new
<1>4. QED
  BY <1>1, <1>3 DEF key, new

\* A statement is behind an invocation.
LEMMA FrameAdvanced ==
  ASSUME NEW p, NEW f, NEW all, NEW new, Grows(all, new),
         NEW frame, FrameCov(p, f, all, frame),
         frame.pos \in Positions(p, frame.fn, frame.block), frame.pos \in Nat \ {0},
         Len(p[frame.fn].elems[frame.block]) \in Nat,
         Passed(p, f, all, frame.ctx, frame.fn, frame.block, frame.pos),
         NEW next, next.fn = frame.fn, next.ctx = frame.ctx,
         next.work = frame.work, next.block = frame.block,
         next.pos = frame.pos + 1, next.oldExit = frame.oldExit,
         Full(p, f, next.state),
         MarkOpen(p, f, frame.fn, frame.block, frame.pos + 1) => Marked(next.state)
  PROVE  FrameCov(p, f, new, next)
<1>1. /\ WorkCov(p, f, new, frame) /\ Begun(p, new, frame)
      /\ BlockCov(p, f, new, frame)
  BY FrameKeeps DEF FrameCov
<1>2. WorkCov(p, f, new, next) /\ Begun(p, new, next)
  BY <1>1 DEF WorkCov, Begun
<1>3. Passed(p, f, new, frame.ctx, frame.fn, frame.block, frame.pos)
  BY GrowsKeeps
<1>4. \A i \in Positions(p, frame.fn, frame.block) :
        i < frame.pos + 1 => i < frame.pos \/ i = frame.pos
  BY DEF Positions
<1>5. frame.pos > 0 /\ frame.pos + 1 <= Len(p[frame.fn].elems[frame.block]) + 1
  <2> DEFINE k == frame.pos
             n == Len(p[frame.fn].elems[frame.block])
  <2>1. k \in 1 .. n /\ n \in Nat
    BY DEF Positions
  <2> HIDE DEF k, n
  <2>2. k > 0 /\ k + 1 <= n + 1
    BY <2>1
  <2>3. QED
    BY <2>2 DEF k, n
<1>6. BlockCov(p, f, new, next)
  BY <1>1, <1>3, <1>4, <1>5 DEF BlockCov
<1>7. QED
  BY <1>2, <1>6 DEF FrameCov

\* A statement is behind the innermost invocation.
LEMMA AdvancedCovered ==
  ASSUME Promises, CoverPromises, Covered, InStmts,
         NEW frame, stack' = SetTop(frame),
         frame.fn = Top.fn, frame.ctx = Top.ctx, frame.work = Top.work,
         frame.block = Top.block, frame.pos = Top.pos + 1,
         frame.oldExit = Top.oldExit,
         Full(prog, topFunction, frame.state),
         MarkOpen(prog, topFunction, Top.fn, Top.block, Top.pos + 1) =>
           Marked(frame.state),
         Passed(prog, topFunction, allResults, Top.ctx, Top.fn, Top.block, Top.pos),
         UNCHANGED <<prog, topFunction, contextWork>>,
         \/ allResults' = allResults
         \/ allResults' = AssignIn(allResults, Top.ctx, CurrentKey(Top), frame.state)
  PROVE  IsCovered(prog, topFunction, contextWork, allResults, stack)'
<1>1. /\ stack # <<>> /\ Top.pos \in Positions(prog, Top.fn, Top.block)
      /\ Top.pos \in Nat \ {0} /\ Len(prog[Top.fn].elems[Top.block]) \in Nat
      /\ FrameCov(prog, topFunction, allResults, Top)
      /\ StatesFull(prog, topFunction, allResults)
      /\ MarksStored(prog, topFunction, allResults)
  BY StmtFacts
<1>2. /\ Grows(allResults, allResults')
      /\ StatesFull(prog, topFunction, allResults')
      /\ MarksStored(prog, topFunction, allResults')
      /\ \A c, h : Stored(allResults', c, FunctionKey(h)) =>
                     Stored(allResults, c, FunctionKey(h))
      /\ \A c, h, d : Seen(allResults', c, h, d) => Seen(allResults, c, h, d)
  <2>1. CASE allResults' = allResults
    BY <1>1, <2>1 DEF Grows
  <2>2. CASE allResults' = AssignIn(allResults, Top.ctx, CurrentKey(Top), frame.state)
    <3> DEFINE state == frame.state
               new   == AssignIn(allResults, Top.ctx,
                                 StmtKey(Top.fn, Top.block, Top.pos), state)
    <3>1. /\ Full(prog, topFunction, state) /\ allResults' = new
          /\ MarkOpen(prog, topFunction, Top.fn, Top.block, Top.pos + 1) =>
               Marked(state)
      BY <2>2 DEF CurrentKey
    <3> HIDE DEF state
    <3>2. /\ Grows(allResults, new) /\ StatesFull(prog, topFunction, new)
          /\ MarksStored(prog, topFunction, new)
          /\ \A c, h : Stored(new, c, FunctionKey(h)) =>
                         Stored(allResults, c, FunctionKey(h))
          /\ \A c, h, d : Seen(new, c, h, d) => Seen(allResults, c, h, d)
      BY <1>1, <3>1, StmtWritten
    <3>3. QED
      BY <3>1, <3>2
  <2>3. QED
    BY <2>1, <2>2
<1>3. FrameCov(prog, topFunction, allResults', frame)
  BY <1>1, <1>2, FrameAdvanced
<1>4. frame.pos > 0
  BY <1>1
<1>5. QED
  BY <1>1, <1>2, <1>3, <1>4, TopStepCovered

LEMMA TransferStmtCovered ==
  ASSUME Promises, CoverPromises, Covered, TransferStmt
  PROVE  /\ IsCovered(prog, topFunction, contextWork, allResults, stack)'
         /\ ReadyOK(prog, topFunction, manager)'
<1> DEFINE key   == CurrentKey(Top)
           s     == CurrentStmt(Top)
           r     == ApplyTransfer(key, s, Top.state, manager)
           frame == [Advance(Top) EXCEPT !.state = r.state]
<1>1. /\ InStmts /\ ~IsAnalyzedCall(s)
      /\ UNCHANGED <<prog, topFunction, contextWork>>
      /\ manager' = r.manager /\ stack' = SetTop(frame)
      /\ \/ allResults' = allResults
         \/ allResults' = AssignIn(allResults, Top.ctx, key, r.state)
  BY DEF TransferStmt
<1>2. /\ InUnit(prog, topFunction, Top.fn) /\ Top.fn \in DOMAIN prog
      /\ Top.block \in Blocks(prog, Top.fn)
      /\ Top.pos \in Positions(prog, Top.fn, Top.block)
      /\ Top.pos \in Nat \ {0}
      /\ s = prog[Top.fn].elems[Top.block][Top.pos]
      /\ Full(prog, topFunction, Top.state)
      /\ MarkOpen(prog, topFunction, Top.fn, Top.block, Top.pos) =>
           Marked(Top.state)
      /\ FrameOK(prog, topFunction, manager, Top)
  BY <1>1, StmtFacts
<1>3. /\ ReadyOK(prog, topFunction, r.manager) /\ Full(prog, topFunction, r.state)
      /\ Marked(Top.state) \/ Marks(prog, topFunction, s) => Marked(r.state)
  <2>1. IsUnitStmt(prog, topFunction, s)
    BY <1>2 DEF IsUnitStmt
  <2>2. key # <<>>
    BY DEF CurrentKey, StmtKey
  <2>3. ReadyOK(prog, topFunction, manager) /\ ManagerOK(prog, topFunction, manager)
    BY DEF Covered, AnalysisInv, StatesKept
  <2>4. SoundStmts(prog, topFunction)
    BY CoverPromised
  <2> HIDE DEF key, s
  <2>5. QED
    BY <1>1, <1>2, <2>1, <2>2, <2>3, <2>4 DEF SoundStmts
<1>4. MarkOpen(prog, topFunction, Top.fn, Top.block, Top.pos + 1) => Marked(r.state)
  BY <1>2, <1>3, MarkNext
<1>5. Passed(prog, topFunction, allResults, Top.ctx, Top.fn, Top.block, Top.pos)
  BY <1>1, <1>2 DEF Passed, IsCallAt
<1> HIDE DEF r
<1>6. /\ frame.fn = Top.fn /\ frame.ctx = Top.ctx /\ frame.work = Top.work
      /\ frame.block = Top.block /\ frame.pos = Top.pos + 1
      /\ frame.oldExit = Top.oldExit /\ frame.state = r.state
  BY <1>2 DEF FrameOK, Advance
<1> HIDE DEF frame
<1>7. IsCovered(prog, topFunction, contextWork, allResults, stack)'
  BY <1>1, <1>3, <1>4, <1>5, <1>6, AdvancedCovered
<1>8. QED
  BY <1>1, <1>3, <1>7


\* A call that is skipped is known: the function was handed a state before.
LEMMA SkippedPassed ==
  ASSUME Promises, CoverPromises, Covered, SkipCall
  PROVE  Passed(prog, topFunction, allResults, Top.ctx, Top.fn, Top.block, Top.pos)
<1> DEFINE key == StmtKey(Top.fn, Top.block, Top.pos)
<1>1. /\ InCall /\ Callee \in DOMAIN prog
      /\ CallIsActive \/ Top.state = CalleeEntry
  BY DEF SkipCall, CallIsKnown
<1>2. /\ InStmts /\ IsAnalyzedCall(CurrentStmt(Top))
  BY <1>1 DEF InCall
<1>3. /\ Callee = prog[Top.fn].elems[Top.block][Top.pos].callee
      /\ CalleeContext = PlContext(Top.ctx, key)
  BY <1>2, StmtFacts DEF Callee, CalleeContext, CurrentKey
<1>4. ASSUME MustStore(prog, topFunction, Top.fn, Top.block, Top.pos)
      PROVE  Stored(allResults, CalleeContext, FunctionKey(Callee))
  <2>1. CASE Top.state = CalleeEntry
    <3>1. Top.state # EmptyState
      BY <1>2, <1>4, StmtFacts, MustStoreState
    <3>2. QED
      BY <2>1, <3>1, StoredState DEF CalleeEntry
  <2>2. CASE CallIsActive
    <3>1. PICK i \in Calls : /\ stack[i].fn = Callee
                             /\ stack[i].ctx = CalleeContext
      BY <2>2 DEF CallIsActive, Covered, AnalysisInv, EngineInv, ActiveIsStack,
                  FunctionContext, Calls
    <3>2. CalleeContext # TopContext
      <4>1. CalleeContext.callee # <<>>
        BY <1>3 DEF PlContext, StmtKey
      <4>2. TopContext.callee = <<>>
        BY DEF TopContext, NoCall
      <4>3. QED
        BY <4>1, <4>2
    <3>3. FrameCov(prog, topFunction, allResults, stack[i])
      BY DEF Covered, IsCovered, Calls
    <3>4. QED
      BY <3>1, <3>2, <3>3 DEF FrameCov, Begun
  <2>3. QED
    BY <1>1, <2>1, <2>2
<1>5. QED
  BY <1>1, <1>3, <1>4 DEF Passed

LEMMA SkipCallCovered ==
  ASSUME Promises, CoverPromises, Covered, SkipCall
  PROVE  IsCovered(prog, topFunction, contextWork, allResults, stack)'
<1> DEFINE frame == Advance(Top)
<1>1. /\ InStmts /\ IsAnalyzedCall(CurrentStmt(Top)) /\ stack' = SetTop(frame)
      /\ UNCHANGED <<prog, topFunction, contextWork, allResults>>
  BY DEF SkipCall, InCall
<1>2. /\ CurrentStmt(Top) = prog[Top.fn].elems[Top.block][Top.pos]
      /\ Top.pos \in Nat \ {0} /\ Full(prog, topFunction, Top.state)
      /\ FrameOK(prog, topFunction, manager, Top)
  BY <1>1, StmtFacts
<1>3. ~MarkOpen(prog, topFunction, Top.fn, Top.block, Top.pos + 1)
  BY <1>1, <1>2, MarkNext DEF IsCallAt
<1>4. Passed(prog, topFunction, allResults, Top.ctx, Top.fn, Top.block, Top.pos)
  BY SkippedPassed
<1>5. /\ frame.fn = Top.fn /\ frame.ctx = Top.ctx /\ frame.work = Top.work
      /\ frame.block = Top.block /\ frame.pos = Top.pos + 1
      /\ frame.oldExit = Top.oldExit /\ frame.state = Top.state
  BY <1>2 DEF FrameOK, Advance
<1> HIDE DEF frame
<1>6. QED
  BY <1>1, <1>2, <1>3, <1>4, <1>5, AdvancedCovered


-----------------------------------------------------------------------------
(* Calls and returns *)

\* A block without statements is done when its state is stored.
LEMMA EmptyBlock ==
  ASSUME NEW p, NEW f, NEW g, IsGraph(p[g]), NEW b \in {p[g].last, 0}
  PROVE  /\ b \in Blocks(p, g) /\ Positions(p, g, b) = {}
         /\ ~MarkOpen(p, f, g, b, Len(p[g].elems[b]) + 1)
         /\ \A all, ctx : Seen(all, ctx, g, b) => BlockDone(p, f, all, ctx, g, b)
<1>1. b \in Blocks(p, g) /\ p[g].elems[b] = <<>>
  BY DEF IsGraph, Blocks
<1>2. Len(p[g].elems[b]) = 0
  BY <1>1
<1>3. Positions(p, g, b) = {} /\ ~MarkOpen(p, f, g, b, Len(p[g].elems[b]) + 1)
  BY <1>2 DEF Positions, MarkOpen
<1>4. \A all, ctx : Seen(all, ctx, g, b) => BlockDone(p, f, all, ctx, g, b)
  BY <1>3 DEF Seen, BlockDone, EndKey
<1>5. QED
  BY <1>1, <1>3, <1>4

LEMMA NewFrameCovered ==
  ASSUME NEW p, NEW f, NEW all, NEW frame, p[frame.fn].last \in Nat,
         Begun(p, all, frame), frame.pos = 0,
         frame.work = [b \in 1 .. p[frame.fn].last + 1 |-> b - 1]
  PROVE  FrameCov(p, f, all, frame)
<1> DEFINE k == p[frame.fn].last + 1
<1>1. k \in 0 .. p[frame.fn].last + 1 /\ Len(frame.work) = k
  OBVIOUS
<1>2. \A j \in 1 .. k : frame.work[j] = j - 1
  OBVIOUS
<1>3. /\ \A b \in k .. p[frame.fn].last : FALSE
      /\ \A j \in k + 1 .. Len(frame.work) : FALSE
  BY <1>1
<1>4. WorkCov(p, f, all, frame)
  <2> SUFFICES \E q \in 0 .. p[frame.fn].last + 1 :
                 /\ Len(frame.work) >= q
                 /\ \A j \in 1 .. q : frame.work[j] = j - 1
                 /\ \A b \in q .. p[frame.fn].last :
                      Seen(all, frame.ctx, frame.fn, b)
                 /\ \A j \in q + 1 .. Len(frame.work) :
                      Fed(p, f, all, frame.ctx, frame.fn, frame.work[j])
    BY DEF WorkCov
  <2> WITNESS k \in 0 .. p[frame.fn].last + 1
  <2>1. QED
    BY <1>1, <1>2, <1>3
<1>5. QED
  BY <1>4 DEF FrameCov, BlockCov

\* The entry of a function is stored.
LEMMA EntryWritten ==
  ASSUME NEW p, NEW f, NEW all, StatesFull(p, f, all), MarksStored(p, f, all),
         NEW g, IsGraph(p[g]), NEW ctx, NEW state, Full(p, f, state)
  PROVE  LET key == BlockKey(g, p[g].last)
             new == AssignIn(all, ctx, key, state)
         IN  /\ Grows(all, new) /\ StatesFull(p, f, new) /\ MarksStored(p, f, new)
             /\ Stored(new, ctx, key)
             /\ \A c, h : Stored(new, c, FunctionKey(h)) =>
                            Stored(all, c, FunctionKey(h))
             /\ \A c, h, b : Seen(new, c, h, b) =>
                  \/ Seen(all, c, h, b)
                  \/ BlockDone(p, f, new, c, h, b)
<1> DEFINE key == BlockKey(g, p[g].last)
           new == AssignIn(all, ctx, key, state)
<1>1. \A h : key # FunctionKey(h)
  BY KeysDiffer
<1>2. \A h \in DOMAIN p : \A b \in Blocks(p, h) :
        /\ key = EndKey(p, h, b)
        /\ MarkOpen(p, f, h, b, Len(p[h].elems[b]) + 1)
        => Marked(state)
  <2> SUFFICES ASSUME NEW h \in DOMAIN p, NEW b \in Blocks(p, h),
                      key = EndKey(p, h, b)
               PROVE  ~MarkOpen(p, f, h, b, Len(p[h].elems[b]) + 1)
    OBVIOUS
  <2>1. h = g /\ b = p[g].last
    BY KeysDiffer DEF EndKey
  <2>2. QED
    BY <2>1, EmptyBlock
<1>3. \A h, b : key = BlockKey(h, b) => h = g /\ b = p[g].last
  BY KeysDiffer
<1> HIDE DEF key
<1>4. /\ Grows(all, new) /\ StatesFull(p, f, new) /\ MarksStored(p, f, new)
      /\ Stored(new, ctx, key)
      /\ \A c, h : Stored(new, c, FunctionKey(h)) => Stored(all, c, FunctionKey(h))
      /\ \A c, h, b : Seen(new, c, h, b) =>
           Seen(all, c, h, b) \/ (c = ctx /\ key = BlockKey(h, b))
  BY <1>1, <1>2, Written
<1> HIDE DEF new
<1>5. ASSUME NEW c, NEW h, NEW b, Seen(new, c, h, b), ~Seen(all, c, h, b)
      PROVE  BlockDone(p, f, new, c, h, b)
  <2>1. h = g /\ b = p[g].last
    BY <1>3, <1>4, <1>5
  <2>2. QED
    BY <1>5, <2>1, EmptyBlock
<1>6. QED
  BY <1>4, <1>5 DEF key, new

LEMMA InvokeCovered ==
  ASSUME Promises, CoverPromises, Covered,
         NEW g \in DOMAIN prog, NEW ctx, NEW all, Invoke(g, ctx, stack, all),
         Grows(allResults, all), StatesFull(prog, topFunction, all),
         MarksStored(prog, topFunction, all),
         ctx # TopContext => Stored(all, ctx, FunctionKey(g)),
         \A c, h : Stored(all, c, FunctionKey(h)) =>
           Stored(allResults, c, FunctionKey(h)) \/ (c = ctx /\ h = g),
         \A c, h, b : Seen(all, c, h, b) => Seen(allResults, c, h, b),
         stack # <<>> => Waits(prog, topFunction, all, Top),
         contextWork' = <<>> =>
           contextWork = <<>> \/ (ctx = TopContext /\ g = topFunction),
         UNCHANGED <<prog, topFunction>>
  PROVE  IsCovered(prog, topFunction, contextWork, allResults, stack)'
<1> DEFINE f     == topFunction
           key   == BlockKey(g, prog[g].last)
           state == EntryState(ResultsOf(all, ctx), g)
           frame == Frame(g, ctx, ResultsOf(allResults, ctx))
           new   == AssignIn(all, ctx, key, state)
<1>1. allResults' = new /\ stack' = Append(stack, frame)
  BY DEF Invoke, Entry
<1>2. SoundStart(prog, f) /\ IsGraph(prog[g])
  BY CoverPromised
<1>3. Full(prog, f, state)
  <2>1. Full(prog, f, InitTopValues(manager))
    BY <1>2 DEF SoundStart, Covered
  <2>2. Stored(all, ctx, FunctionKey(g)) =>
          Full(prog, f, StateAt(ResultsOf(all, ctx), FunctionKey(g)))
    BY <1>2, SoundAt
  <2>3. QED
    BY <2>1, <2>2 DEF EntryState, StateAt, Stored
<1>4. /\ frame.fn = g /\ frame.ctx = ctx /\ frame.pos = 0
      /\ frame.work = [b \in 1 .. prog[g].last + 1 |-> b - 1]
  BY DEF Frame, Entry
<1> HIDE DEF frame, state
<1>5. /\ Grows(all, new) /\ StatesFull(prog, f, new) /\ MarksStored(prog, f, new)
      /\ Stored(new, ctx, key)
      /\ \A c, h : Stored(new, c, FunctionKey(h)) => Stored(all, c, FunctionKey(h))
      /\ \A c, h, b : Seen(new, c, h, b) =>
           Seen(all, c, h, b) \/ BlockDone(prog, f, new, c, h, b)
  BY <1>2, <1>3, EntryWritten
<1> HIDE DEF new, key
<1>6. Grows(allResults, new)
  BY <1>5 DEF Grows
<1>7. Begun(prog, new, frame)
  BY <1>4, <1>5 DEF Begun, Seen, Grows, key
<1>8. FrameCov(prog, f, new, frame)
  <2>1. prog[frame.fn].last \in Nat
    BY <1>2, <1>4 DEF IsGraph
  <2>2. QED
    BY <1>4, <1>7, <2>1, NewFrameCovered
<1>9. \A c, h, b : Seen(new, c, h, b) =>
        Seen(allResults, c, h, b) \/ BlockDone(prog, f, new, c, h, b)
  BY <1>5
<1>10. /\ Len(stack) \in Nat /\ Len(stack') = Len(stack) + 1
       /\ \A i \in 1 .. Len(stack) : stack'[i] = stack[i]
       /\ stack'[Len(stack) + 1] = frame
  <2>1. stack \in Seq({stack[i] : i \in Calls} \cup {frame}) /\ Len(stack) \in Nat
    BY StackFacts DEF Covered, AnalysisInv, EngineInv, StackIsSeq
  <2>2. QED
    BY <1>1, <2>1
<1>11. Len(stack) > 0 => Waits(prog, f, new, stack[Len(stack)])
  <2>1. SUFFICES ASSUME Len(stack) > 0
                 PROVE  Waits(prog, f, new, stack[Len(stack)])
    OBVIOUS
  <2>2. stack # <<>>
    BY <2>1
  <2>3. Waits(prog, f, new, Top)
    BY <1>5, <2>2, FrameKeeps
  <2>4. QED
    BY <2>2, <2>3, TopFacts
<1>12. \A c, h : Stored(new, c, FunctionKey(h)) =>
         Stored(allResults, c, FunctionKey(h)) \/ (c = frame.ctx /\ h = frame.fn)
  BY <1>4, <1>5
<1>13. /\ IsCovered(prog, f, contextWork, allResults, stack)
       /\ contextWork' = <<>> =>
            contextWork = <<>> \/ (frame.ctx = TopContext /\ frame.fn = f)
  BY <1>4 DEF Covered
<1>14. StatesFull(prog, f, new) /\ MarksStored(prog, f, new)
  BY <1>5
<1>15. Invoked(prog, f, contextWork, allResults, stack, contextWork', new,
               stack', frame)
  BY <1>6, <1>8, <1>9, <1>10, <1>11, <1>12, <1>13, <1>14 DEF Invoked
<1> HIDE DEF f
<1>16. IsCovered(prog, f, contextWork', new, stack')
  BY <1>15, PushCovered
<1>17. QED
  BY <1>1, <1>16 DEF f

LEMMA EnterCallCovered ==
  ASSUME Promises, CoverPromises, Covered, EnterCall
  PROVE  IsCovered(prog, topFunction, contextWork, allResults, stack)'
<1> DEFINE f   == topFunction
           key == StmtKey(Top.fn, Top.block, Top.pos)
           all == AssignIn(allResults, CalleeContext, FunctionKey(Callee), Top.state)
<1>1. /\ InStmts /\ IsAnalyzedCall(CurrentStmt(Top)) /\ Callee \in DOMAIN prog
      /\ Invoke(Callee, CalleeContext, stack, all)
      /\ UNCHANGED <<prog, topFunction, contextWork>>
  BY DEF EnterCall, InCall
<1>2. /\ CurrentStmt(Top) = prog[Top.fn].elems[Top.block][Top.pos]
      /\ Top.pos \in Positions(prog, Top.fn, Top.block)
      /\ Full(prog, f, Top.state)
      /\ MarkOpen(prog, f, Top.fn, Top.block, Top.pos) => Marked(Top.state)
      /\ StatesFull(prog, f, allResults) /\ MarksStored(prog, f, allResults)
  BY <1>1, StmtFacts
<1>3. /\ Callee = prog[Top.fn].elems[Top.block][Top.pos].callee
      /\ CalleeContext = PlContext(Top.ctx, key) /\ CalleeContext.callee = key
  BY <1>2 DEF Callee, CalleeContext, CurrentKey, PlContext
<1>4. \A c, k : Stored(all, c, k) <=>
        Stored(allResults, c, k) \/ (c = CalleeContext /\ k = FunctionKey(Callee))
  BY StoredAfter
<1>5. Grows(allResults, all) /\ StatesFull(prog, f, all)
  BY <1>2, AssignGrows, FullAfter
<1>6. MarksStored(prog, f, all)
  <2>1. \A h \in DOMAIN prog : \A b \in Blocks(prog, h) :
          FunctionKey(Callee) # EndKey(prog, h, b)
    BY EndKeyFacts
  <2>2. ASSUME NEW h \in DOMAIN prog, NEW b \in Blocks(prog, h),
               NEW i \in Positions(prog, h, b),
               CalleeContext.callee = StmtKey(h, b, i), MarkOpen(prog, f, h, b, i)
        PROVE  Marked(Top.state)
    <3>1. StmtKey(Top.fn, Top.block, Top.pos) = StmtKey(h, b, i)
      BY <1>3, <2>2
    <3>2. h = Top.fn /\ b = Top.block /\ i = Top.pos
      BY <3>1 DEF StmtKey
    <3>3. QED
      BY <1>2, <2>2, <3>2
  <2>3. QED
    BY <1>2, <2>1, <2>2, MarksAfter
<1> HIDE DEF all
<1>7. Stored(all, CalleeContext, FunctionKey(Callee))
  BY <1>4
<1>8. Waits(prog, f, all, Top)
  BY <1>1, <1>2, <1>3, <1>7 DEF Waits, IsCallAt, Passed
<1>9. /\ \A c, h : Stored(all, c, FunctionKey(h)) =>
           Stored(allResults, c, FunctionKey(h)) \/ (c = CalleeContext /\ h = Callee)
      /\ \A c, h, b : Seen(all, c, h, b) => Seen(allResults, c, h, b)
  BY <1>4, KeysDiffer DEF Seen
<1>10. QED
  BY <1>1, <1>5, <1>6, <1>7, <1>8, <1>9, InvokeCovered

LEMMA PopContextCovered ==
  ASSUME Promises, CoverPromises, Covered, PopContext
  PROVE  IsCovered(prog, topFunction, contextWork, allResults, stack)'
<1>1. stack = <<>> /\ contextWork = <<<<topFunction, TopContext>>>>
  BY DEF Covered, AnalysisInv, EngineInv, WorkIsUnit, PopContext
<1>2. /\ Invoke(topFunction, TopContext, stack, allResults)
      /\ UNCHANGED <<prog, topFunction>>
  BY <1>1 DEF PopContext, Last
<1>3. /\ StatesFull(prog, topFunction, allResults)
      /\ MarksStored(prog, topFunction, allResults)
      /\ topFunction \in DOMAIN prog
  BY DEF Covered, IsCovered, AnalysisInv, UnitKnown
<1>4. Grows(allResults, allResults)
  BY DEF Grows
<1>5. QED
  BY <1>1, <1>2, <1>3, <1>4, InvokeCovered


\* A function returns: the blocks it was to analyse have been seen.
LEMMA ReturnFacts ==
  ASSUME Promises, CoverPromises, Covered, FunctionDone
  PROVE  /\ stack # <<>> /\ Top.pos = 0 /\ Top.work = <<>>
         /\ AllSeen(prog, allResults, Top.ctx, Top.fn)
         /\ Full(prog, topFunction,
                 StateAt(Results(Top), BlockKey(Top.fn, Exit)))
<1>1. stack # <<>> /\ Top.pos = 0 /\ Top.work = <<>>
  BY DEF FunctionDone, InBlocks
<1>2. /\ WorkCov(prog, topFunction, allResults, Top)
      /\ IsGraph(prog[Top.fn]) /\ StatesFull(prog, topFunction, allResults)
  BY <1>1, TopFacts DEF FrameCov
<1>3. AllSeen(prog, allResults, Top.ctx, Top.fn)
  BY <1>1, <1>2, WorkDone
<1>4. Exit \in Blocks(prog, Top.fn)
  BY <1>2 DEF IsGraph, Blocks, Exit
<1>5. Stored(allResults, Top.ctx, BlockKey(Top.fn, Exit))
  BY <1>3, <1>4 DEF AllSeen, Seen
<1>6. SoundStart(prog, topFunction)
  BY CoverPromised
<1>7. QED
  BY <1>1, <1>2, <1>3, <1>5, <1>6, SoundAt DEF Results

LEMMA ReturnToTopCovered ==
  ASSUME Promises, CoverPromises, Covered, ReturnToTop
  PROVE  IsCovered(prog, topFunction, contextWork, allResults, stack)'
<1>1. /\ FunctionDone /\ Len(stack) = 1 /\ stack' = <<>>
      /\ contextWork' = contextWork
      /\ UNCHANGED <<prog, topFunction, allResults>>
  BY RequeuesNobody DEF ReturnToTop, FunctionReturns
<1>2. /\ Top = stack[1] /\ Top.pos = 0 /\ Top.work = <<>>
      /\ IsCovered(prog, topFunction, contextWork, allResults, stack)
  BY <1>1, ReturnFacts, TopFacts
<1> DEFINE nstk == stack'
           n    == Len(stack)
<1>3. /\ n \in Nat \ {0} /\ Len(stack) = n /\ stack[n].pos = 0
      /\ stack[n].work = <<>> /\ Len(nstk) = n - 1
      /\ \A i \in 1 .. n - 1 : nstk[i] = stack[i]
  BY <1>1, <1>2
<1> HIDE DEF nstk, n
<1>4. IsCovered(prog, topFunction, contextWork, allResults, nstk)
  BY <1>2, <1>3, PopCovered
<1>5. QED
  BY <1>1, <1>4 DEF nstk

\* The caller goes on behind its call.
LEMMA ReturnToCallerCovered ==
  ASSUME Promises, CoverPromises, Covered, ReturnToCaller
  PROVE  IsCovered(prog, topFunction, contextWork, allResults, stack)'
<1> DEFINE f      == topFunction
           depth  == Len(stack) - 1
           base   == Front(stack)
           caller == Last(Front(stack))
           exit   == StateAt(Results(Top), BlockKey(Top.fn, Exit))
           quiet  == Advance(caller)
           loud   == [quiet EXCEPT !.state = exit]
<1>1. /\ FunctionDone /\ Len(stack) > 1 /\ contextWork' = contextWork
      /\ UNCHANGED <<prog, topFunction>>
      /\ \/ /\ stack' = [base EXCEPT ![depth] = quiet] /\ allResults' = allResults
         \/ /\ stack' = [base EXCEPT ![depth] = loud]
            /\ allResults' = AssignIn(allResults, caller.ctx, CurrentKey(caller), exit)
  BY RequeuesNobody DEF ReturnToCaller, FunctionReturns
<1>2. /\ Top.pos = 0 /\ Top.work = <<>> /\ Top = stack[Len(stack)]
      /\ Full(prog, f, exit) /\ StatesFull(prog, f, allResults)
      /\ MarksStored(prog, f, allResults)
      /\ IsCovered(prog, f, contextWork, allResults, stack)
  BY <1>1, ReturnFacts, TopFacts
<1>3. /\ stack \in Seq({stack[i] : i \in Calls}) /\ Calls = 1 .. Len(stack)
      /\ Len(stack) \in Nat
  BY StackFacts DEF Covered, AnalysisInv, EngineInv, StackIsSeq, Calls
<1>4. /\ depth \in Calls /\ base \in Seq({stack[i] : i \in Calls})
      /\ Len(base) = depth /\ \A i \in 1 .. depth : base[i] = stack[i]
  BY <1>1, <1>3 DEF Front
<1>5. caller = stack[depth] /\ caller = base[depth]
  <2>1. depth \in 1 .. depth
    BY <1>3, <1>4
  <2>2. caller = Front(stack)[Len(Front(stack))]
    BY DEF Last
  <2>3. QED
    BY <1>4, <2>1, <2>2
<1>6. /\ FrameOK(prog, f, manager, caller) /\ FrameCov(prog, f, allResults, caller)
      /\ Waits(prog, f, allResults, caller)
  <2>1. depth \in 1 .. Len(stack) /\ depth \in 1 .. Len(stack) - 1
    BY <1>3, <1>4
  <2>2. FrameOK(prog, f, manager, stack[depth])
    BY <1>4 DEF Covered, AnalysisInv, StatesKept
  <2>3. QED
    BY <1>2, <1>5, <2>1, <2>2 DEF IsCovered

<1>7. IsCovered(prog, f, contextWork, allResults, base)
  <2>1. /\ Len(stack) \in Nat \ {0} /\ stack[Len(stack)].pos = 0
        /\ stack[Len(stack)].work = <<>>
        /\ Len(base) = Len(stack) - 1
        /\ \A i \in 1 .. Len(stack) - 1 : base[i] = stack[i]
    BY <1>1, <1>2, <1>3, <1>4
  <2> HIDE DEF base
  <2>2. QED
    BY <1>2, <2>1, PopCovered
<1>8. /\ caller.pos \in Positions(prog, caller.fn, caller.block)
      /\ caller.pos \in Nat \ {0}
      /\ Len(prog[caller.fn].elems[caller.block]) \in Nat
      /\ IsCallAt(prog, caller.fn, caller.block, caller.pos)
      /\ Passed(prog, f, allResults, caller.ctx, caller.fn, caller.block, caller.pos)
      /\ Full(prog, f, caller.state)
  <2>1. IsGraph(prog[caller.fn])
    BY <1>6, CoverPromised DEF FrameOK
  <2>2. Len(prog[caller.fn].elems[caller.block]) \in Nat
    BY <1>6, <2>1 DEF IsGraph, FrameOK, Blocks
  <2>3. /\ caller.pos \in Positions(prog, caller.fn, caller.block)
        /\ caller.pos \in Nat \ {0}
    BY <1>6, <2>2 DEF Waits, Positions
  <2>4. QED
    BY <1>6, <2>2, <2>3 DEF Waits, FrameCov, BlockCov
<1>9. ~MarkOpen(prog, f, caller.fn, caller.block, caller.pos + 1)
  BY <1>8, MarkNext
<1> DEFINE key == StmtKey(caller.fn, caller.block, caller.pos)
<1>10. PICK frame :
         /\ stack' = [base EXCEPT ![depth] = frame]
         /\ frame.fn = caller.fn /\ frame.ctx = caller.ctx
         /\ frame.work = caller.work /\ frame.block = caller.block
         /\ frame.pos = caller.pos + 1 /\ frame.oldExit = caller.oldExit
         /\ frame.state = caller.state \/ frame.state = exit
  <2> HIDE DEF caller, exit
  <2>1. /\ quiet.fn = caller.fn /\ quiet.ctx = caller.ctx
        /\ quiet.work = caller.work /\ quiet.block = caller.block
        /\ quiet.pos = caller.pos + 1 /\ quiet.oldExit = caller.oldExit
        /\ quiet.state = caller.state
        /\ {"fn", "ctx", "work", "block", "pos", "state", "oldExit"}
             \subseteq DOMAIN quiet
    BY <1>6 DEF FrameOK, Advance
  <2> HIDE DEF quiet
  <2>2. /\ loud.fn = caller.fn /\ loud.ctx = caller.ctx
        /\ loud.work = caller.work /\ loud.block = caller.block
        /\ loud.pos = caller.pos + 1 /\ loud.oldExit = caller.oldExit
        /\ loud.state = exit
    BY <2>1
  <2> HIDE DEF loud
  <2>3. QED
    BY <1>1, <2>1, <2>2
<1>11. \/ allResults' = allResults
       \/ allResults' = AssignIn(allResults, caller.ctx, key, exit)
  BY <1>1 DEF CurrentKey
<1> HIDE DEF caller, exit, quiet, loud
<1>12. /\ Grows(allResults, allResults') /\ StatesFull(prog, f, allResults')
       /\ MarksStored(prog, f, allResults')
       /\ \A c, h : Stored(allResults', c, FunctionKey(h)) =>
                      Stored(allResults, c, FunctionKey(h))
       /\ \A c, h, d : Seen(allResults', c, h, d) => Seen(allResults, c, h, d)
  <2>1. CASE allResults' = allResults
    BY <1>2, <2>1 DEF Grows
  <2>2. CASE allResults' = AssignIn(allResults, caller.ctx, key, exit)
    <3> DEFINE new == AssignIn(allResults, caller.ctx, key, exit)
    <3>1. /\ Grows(allResults, new) /\ StatesFull(prog, f, new)
          /\ MarksStored(prog, f, new)
          /\ \A c, h : Stored(new, c, FunctionKey(h)) =>
                         Stored(allResults, c, FunctionKey(h))
          /\ \A c, h, d : Seen(new, c, h, d) => Seen(allResults, c, h, d)
      BY <1>2, <1>9, StmtWritten
    <3>2. QED
      BY <2>2, <3>1
  <2>3. QED
    BY <1>11, <2>1, <2>2
<1>13. FrameCov(prog, f, allResults', frame)
  <2>1. Full(prog, f, frame.state)
    BY <1>2, <1>8, <1>10
  <2>2. QED
    BY <1>6, <1>8, <1>9, <1>10, <1>12, <2>1, FrameAdvanced
<1>14. /\ depth \in Nat \ {0} /\ Len(stack') = depth
       /\ \A i \in 1 .. depth : stack'[i] = IF i = depth THEN frame ELSE base[i]
  BY <1>3, <1>4, <1>10
<1> DEFINE nstk == stack'
           new  == allResults'
<1>15. /\ Len(nstk) = depth
       /\ \A i \in 1 .. depth : nstk[i] = IF i = depth THEN frame ELSE base[i]
  BY <1>14
<1>16. /\ frame.fn = base[depth].fn /\ frame.ctx = base[depth].ctx
       /\ frame.block = base[depth].block /\ frame.pos > 0
  BY <1>5, <1>8, <1>10
<1>17. /\ Grows(allResults, new) /\ StatesFull(prog, f, new)
       /\ MarksStored(prog, f, new) /\ FrameCov(prog, f, new, frame)
       /\ \A c, h : Stored(new, c, FunctionKey(h)) =>
                      Stored(allResults, c, FunctionKey(h))
       /\ \A c, h, d : Seen(new, c, h, d) => Seen(allResults, c, h, d)
  BY <1>12, <1>13
<1>18. depth \in Nat \ {0} /\ Len(base) = depth
  BY <1>4, <1>14
<1> HIDE DEF nstk, new, base, depth, f
<1>19. IsCovered(prog, f, contextWork, new, nstk)
  BY <1>7, <1>15, <1>16, <1>17, <1>18, TopCovered
<1>20. QED
  BY <1>1, <1>19 DEF nstk, new, f


-----------------------------------------------------------------------------
(* The ends of the analysis *)

\* A state of the unit on which a comparison or the dump ends the process
LEMMA FailsOnSound ==
  ASSUME NEW p, NEW f, NEW x, SoundOK(p, f, x), NEW v \in DOMAIN x,
         LatEqualFails(x[v]) \/ DumpFails(x[v])
  PROVE  CanAbort(p, f)
BY DEF CanAbort

LEMMA ComparedSound ==
  ASSUME NEW p, NEW f, NEW x, SoundOK(p, f, x), NEW y, CompareMayFail(x, y)
  PROVE  CanAbort(p, f)
BY FailsOnSound DEF CompareMayFail

LEMMA AbortCovered ==
  ASSUME Promises, CoverPromises, Covered, Abort
  PROVE  CanAbort(prog, topFunction)
<1> DEFINE f == topFunction
<1>1. CASE MergeFails
  <2> DEFINE b      == Last(Top.work)
             merged == MergePrevStates(Results(Top), Top.fn, b)
             taken  == [Top EXCEPT !.work = Front(@)]
  <2>1. /\ stack # <<>> /\ Top.pos = 0 /\ Top.work # <<>>
        /\ Aborts(merged) \/ CompareMayFail(merged, OldEntry(taken, b))
    BY <1>1 DEF MergeFails, NextBlock, InBlocks
  <2>2. SoundOrAborts(prog, f, merged) /\ SoundMerge(prog, f)
    BY <2>1, NextMerged, CoverPromised
  <2> HIDE DEF merged, taken
  <2>3. CASE Aborts(merged)
    BY <2>2, <2>3 DEF SoundOrAborts, SoundMerge
  <2>4. CASE ~Aborts(merged)
    BY <2>1, <2>2, <2>4, ComparedSound DEF SoundOrAborts
  <2>5. QED
    BY <2>3, <2>4
<1>2. CASE AtBlockEnd /\ CompareMayFail(Top.state, Top.oldExit)
  <2>1. stack # <<>> /\ Top.pos = Len(prog[Top.fn].elems[Top.block]) + 1
    BY <1>2 DEF AtBlockEnd, Elements
  <2>2. /\ FrameOK(prog, f, manager, Top) /\ FrameCov(prog, f, allResults, Top)
        /\ IsGraph(prog[Top.fn])
    BY <2>1, TopFacts
  <2>3. Len(prog[Top.fn].elems[Top.block]) \in Nat
    BY <2>2 DEF IsGraph, FrameOK, Blocks
  <2>4. Full(prog, f, Top.state)
    <3> DEFINE n == Len(prog[Top.fn].elems[Top.block])
    <3>0. Top.pos = n + 1 /\ n \in Nat
      BY <2>1, <2>3
    <3> HIDE DEF n
    <3>1. Top.pos > 0
      BY <3>0
    <3>2. BlockCov(prog, f, allResults, Top)
      BY <2>2 DEF FrameCov
    <3>3. QED
      BY <3>1, <3>2 DEF BlockCov
  <2> DEFINE x == Top.state
             y == Top.oldExit
  <2>5. SoundOK(prog, f, x) /\ CompareMayFail(x, y)
    BY <1>2, <2>4 DEF Full
  <2> HIDE DEF x, y
  <2>6. QED
    BY <2>5, ComparedSound
<1>3. CASE InCall /\ CompareMayFail(Top.state, CalleeEntry)
  <2>1. Full(prog, f, Top.state)
    BY <1>3, StmtFacts DEF InCall
  <2>2. QED
    BY <1>3, <2>1, ComparedSound DEF Full
<1>4. CASE FunctionDone /\ CompareResultsFails(Results(Top))
  <2>1. PICK key \in DOMAIN Results(Top) :
          \E v \in DOMAIN Results(Top)[key] : LatEqualFails(Results(Top)[key][v])
    BY <1>4 DEF CompareResultsFails
  <2>2. stack # <<>>
    BY <1>4 DEF FunctionDone, InBlocks
  <2>3. SoundStart(prog, f) /\ StatesFull(prog, f, allResults)
    BY <2>2, CoverPromised, TopFacts
  <2>4. SoundOK(prog, f, Results(Top)[key])
    BY <2>1, <2>3, SoundAt DEF Results, StateAt
  <2>5. QED
    BY <2>1, <2>4, FailsOnSound
<1>5. QED
  BY <1>1, <1>2, <1>3, <1>4 DEF Abort, ComparisonFails

\* The dump passes over no state that it has to stop at.
LEMMA DumpCovered ==
  ASSUME Promises, CoverPromises, Covered, DumpResults
  PROVE  /\ status' = "done" => AllDumped'
         /\ status' = "aborted" => CanAbort(prog, topFunction)
         /\ status' \in {"done", "aborted"}
<1> DEFINE fails == \E ctx \in DOMAIN allResults :
                      \E key \in DOMAIN allResults[ctx] :
                        Marked(allResults[ctx][key])
<1>1. /\ stack = <<>> /\ contextWork = <<>>
      /\ status' = IF fails THEN "aborted" ELSE "done"
      /\ UNCHANGED <<contextWork, allResults, stack>>
  BY DEF DumpResults, Marked
<1>2. status' = "done" => AllDumped'
  BY <1>1 DEF AllDumped
<1>3. ASSUME status' = "aborted" PROVE CanAbort(prog, topFunction)
  <2>1. PICK ctx \in DOMAIN allResults : \E key \in DOMAIN allResults[ctx] :
          Marked(allResults[ctx][key])
    BY <1>1, <1>3
  <2>2. PICK key \in DOMAIN allResults[ctx] : Marked(allResults[ctx][key])
    BY <2>1
  <2>3. SoundOK(prog, topFunction, allResults[ctx][key])
    BY DEF Covered, IsCovered, StatesFull, Full
  <2>4. QED
    BY <2>2, <2>3, FailsOnSound DEF Marked
<1>4. QED
  BY <1>1, <1>2, <1>3

\* A unit starts with nothing to cover.
LEMMA NothingCovered ==
  ASSUME NEW p, NEW f, NEW work, work # <<>>
  PROVE  IsCovered(p, f, work, [c \in {} |-> EmptyResults], <<>>)
<1> DEFINE all == [c \in {} |-> EmptyResults]
<1>1. DOMAIN all = {} /\ \A c, k : ~Stored(all, c, k)
  BY DEF Stored, ResultsOf, EmptyResults
<1> HIDE DEF all
<1>2. Len(<<>>) = 0
  OBVIOUS
<1>3. IsCovered(p, f, work, all, <<>>)
  BY <1>1, <1>2 DEF IsCovered, StatesFull, MarksStored, BlocksDone,
                    FunctionsDone, Seen
<1>4. QED
  BY <1>3 DEF all

-----------------------------------------------------------------------------
(* The theorem *)

LEMMA ProgramFixed ==
  ASSUME [AnalyzerNext]_analyzerVars
  PROVE  prog' = prog
<1>1. CASE Step
  BY <1>1 DEF Step, PopContext, DumpResults, SkipBlock, EnterBlock, NextBlock,
       FinishBlock, TransferStmt, CallWithoutBody, SkipCall, EnterCall,
       ReturnToTop, ReturnToCaller, Abort
<1>2. CASE ParseTUD \/ \E f \in unitsLeft : StartUnit(f)
  BY <1>2 DEF ParseTUD, StartUnit
<1>3. CASE UNCHANGED analyzerVars
  BY <1>3 DEF analyzerVars, vars
<1>4. QED
  BY <1>1, <1>2, <1>3 DEF AnalyzerNext, AnalyzerStep

LEMMA CoverInitial == AnalyzerInit => CoverInv
BY DEF AnalyzerInit, CoverInv, CoverKnown

LEMMA StartUnitCovered ==
  ASSUME Promises, CoverPromises, AnalysisInv,
         NEW f \in unitsLeft, StartUnit(f)
  PROVE  CoverKnown'
<1>1. /\ prog' = prog /\ topFunction' = f /\ unitsLeft' = unitsLeft \ {f}
      /\ manager' = NextManager(prog, f, manager) /\ status' = "running"
      /\ contextWork' = <<<<f, TopContext>>>> /\ stack' = <<>>
      /\ allResults' = [c \in {} |-> EmptyResults]
  BY DEF StartUnit
<1>2. /\ prog \in Programs /\ topFunction \in DOMAIN prog
      /\ f \in AnalyzedFunctions(prog)
      /\ ManagerOK(prog, topFunction, manager)
  BY DEF AnalysisInv, UnitKnown, StatesKept
<1>3. ReadyOK(prog, f, manager')
  BY <1>1, <1>2 DEF CoverPromises, UnitReady
<1>4. IsCovered(prog, f, contextWork', allResults', stack')
  BY <1>1, NothingCovered
<1>5. QED
  BY <1>1, <1>2, <1>3, <1>4 DEF CoverKnown, UnitStarted

\* The engine's step
LEMMA StepCovered ==
  ASSUME Promises, CoverPromises, AnalysisInv, InOrder(prog), CoverKnown,
         Step, UNCHANGED unitsLeft
  PROVE  CoverKnown'
<1>1. status = "running" /\ UNCHANGED <<prog, topFunction>>
  BY DEF Step, PopContext, DumpResults, SkipBlock, EnterBlock, NextBlock,
         FinishBlock, AtBlockEnd, TransferStmt, CallWithoutBody, SkipCall,
         EnterCall, InCall, ReturnToTop, ReturnToCaller, FunctionReturns,
         FunctionDone, Abort, MergeFails, ComparisonFails, InBlocks, InStmts,
         Running
<1>2. Covered
  BY <1>1 DEF Covered, CoverKnown
<1>3. UnitStarted'
  BY <1>1, <1>2 DEF Covered, UnitStarted
<1>4. CASE Abort
  BY <1>1, <1>2, <1>4, AbortCovered DEF Abort, CoverKnown
<1>5. CASE CallWithoutBody
  BY <1>5 DEF CallWithoutBody, CoverKnown
<1>6. CASE DumpResults
  <2>1. /\ UNCHANGED <<manager, contextWork, allResults, stack>>
        /\ status' \in {"done", "aborted"}
    BY <1>2, <1>6, DumpCovered DEF DumpResults
  <2>2. /\ ReadyOK(prog, topFunction, manager)'
        /\ IsCovered(prog, topFunction, contextWork, allResults, stack)'
    BY <1>1, <1>2, <2>1 DEF Covered
  <2>3. QED
    BY <1>1, <1>2, <1>6, <2>1, <2>2, DumpCovered DEF CoverKnown
<1>7. CASE /\ UNCHANGED status
           /\ ReadyOK(prog, topFunction, manager)'
           /\ IsCovered(prog, topFunction, contextWork, allResults, stack)'
  BY <1>1, <1>3, <1>7 DEF CoverKnown
<1>8. CASE TransferStmt
  BY <1>2, <1>7, <1>8, TransferStmtCovered DEF TransferStmt
<1>9. CASE \/ PopContext \/ SkipBlock \/ EnterBlock \/ FinishBlock
           \/ SkipCall \/ EnterCall \/ ReturnToTop \/ ReturnToCaller
  <2>1. UNCHANGED <<manager, status>>
    BY <1>9 DEF PopContext, SkipBlock, EnterBlock, FinishBlock, SkipCall,
         EnterCall, ReturnToTop, ReturnToCaller
  <2>2. ReadyOK(prog, topFunction, manager)'
    BY <1>1, <1>2, <2>1 DEF Covered
  <2>3. IsCovered(prog, topFunction, contextWork, allResults, stack)'
    BY <1>2, <1>9, PopContextCovered, SkipBlockCovered, EnterBlockCovered,
       FinishBlockCovered, SkipCallCovered, EnterCallCovered,
       ReturnToTopCovered, ReturnToCallerCovered
  <2>4. QED
    BY <1>7, <2>1, <2>2, <2>3
<1>10. QED
  BY <1>4, <1>5, <1>6, <1>8, <1>9 DEF Step

LEMMA CoverStep ==
  /\ Promises /\ CoverPromises /\ AnalysisInv /\ CoverInv
  /\ [AnalyzerNext]_analyzerVars
  => CoverInv'
<1> SUFFICES ASSUME Promises, CoverPromises, AnalysisInv, InOrder(prog)',
                    CoverInv, [AnalyzerNext]_analyzerVars
             PROVE  CoverKnown'
  BY DEF CoverInv
<1>0. InOrder(prog) /\ CoverKnown
  <2>1. prog' = prog
    BY ProgramFixed
  <2>2. QED
    BY <2>1 DEF CoverInv
<1>1. CASE ParseTUD
  <2>1. /\ UNCHANGED <<prog, topFunction>>
        /\ \/ status' = "done" /\ unitsLeft' = AnalyzedFunctions(prog)
           \/ status' = "segfault"
    BY <1>1 DEF ParseTUD
  <2>2. status' = "done" => ~UnitStarted'
    BY <2>1 DEF UnitStarted
  <2>3. QED
    BY <1>0, <2>1, <2>2 DEF CoverKnown
<1>2. CASE \E f \in unitsLeft : StartUnit(f)
  BY <1>2, StartUnitCovered
<1>3. CASE Step /\ UNCHANGED unitsLeft
  BY <1>0, <1>3, StepCovered
<1>4. CASE UNCHANGED analyzerVars
  <2>1. UNCHANGED <<prog, topFunction, manager, contextWork, allResults, stack,
                    status, unitsLeft>>
    BY <1>4 DEF analyzerVars, vars
  <2>2. UnitStarted' = UnitStarted /\ AllDumped' = AllDumped
    BY <2>1 DEF UnitStarted, AllDumped
  <2>3. QED
    BY <1>0, <2>1, <2>2 DEF CoverKnown
<1>5. QED
  BY <1>1, <1>2, <1>3, <1>4 DEF AnalyzerNext, AnalyzerStep

(***************************************************************************)
(* Nothing is left out: through the whole analysis every block seen is     *)
(* analysed to its end, every function handed a state is analysed from its *)
(* entry to its exit, every mark of a statement is still in the results    *)
(* the dump goes through, and a process that aborts has met two states of  *)
(* its unit that cannot be merged, or one that cannot be compared or       *)
(* dumped.                                                                 *)
(***************************************************************************)
THEOREM Coverage ==
  ASSUME Promises, CoverPromises
  PROVE  AnalyzerSpec => [](AnalysisInv /\ CoverInv)
<1>1. AnalyzerInit => AnalysisInv /\ CoverInv
  BY AnalysisInitial, CoverInitial
<1>2. AnalysisInv /\ CoverInv /\ [AnalyzerNext]_analyzerVars =>
        AnalysisInv' /\ CoverInv'
  BY AnalysisStep, CoverStep
<1>3. QED
  BY <1>1, <1>2, PTL DEF AnalyzerSpec

-----------------------------------------------------------------------------
(* What a unit that is done has gone through *)

\* The functions analysed in some context
SeenFunctions(p, all) == {g \in DOMAIN p : \E ctx : AllSeen(p, all, ctx, g)}

\* The analysis is over: its results are covered and dumped.
UnitOver(p, f, all) ==
  /\ p \in Programs /\ f \in DOMAIN p
  /\ IsCovered(p, f, <<>>, all, <<>>)
  /\ \A ctx \in DOMAIN all : \A key \in DOMAIN all[ctx] : ~Marked(all[ctx][key])

LEMMA NoMarkStored ==
  ASSUME NEW p, NEW f, NEW all, UnitOver(p, f, all),
         NEW ctx, NEW key, Stored(all, ctx, key)
  PROVE  ~Marked(StateAt(ResultsOf(all, ctx), key))
BY DEF UnitOver, Stored, StateAt, ResultsOf, EmptyResults

LEMMA OverFacts ==
  ASSUME NEW p, NEW f, NEW all, UnitOver(p, f, all)
  PROVE  /\ f \in SeenFunctions(p, all)
         /\ \A g \in SeenFunctions(p, all) : \E ctx :
              \A b \in Blocks(p, g) : BlockDone(p, f, all, ctx, g, b)
         /\ \A ctx : \A h \in DOMAIN p :
              Stored(all, ctx, FunctionKey(h)) => h \in SeenFunctions(p, all)
<1>1. \A ctx, g : ~OnStack(<<>>, ctx, g)
  BY DEF OnStack
<1>2. \A ctx, g, b : ~InProgress(<<>>, ctx, g, b)
  BY DEF InProgress
<1>3. /\ FunctionsDone(p, f, <<>>, all, <<>>) /\ BlocksDone(p, f, all, <<>>)
      /\ f \in DOMAIN p
  BY DEF UnitOver, IsCovered
<1>4. AllSeen(p, all, TopContext, f)
  BY <1>1, <1>3 DEF FunctionsDone
<1>5. \A ctx : \A h \in DOMAIN p :
        Stored(all, ctx, FunctionKey(h)) => AllSeen(p, all, ctx, h)
  BY <1>1, <1>3 DEF FunctionsDone
<1>6. \A g \in DOMAIN p : \A ctx : AllSeen(p, all, ctx, g) =>
        \A b \in Blocks(p, g) : BlockDone(p, f, all, ctx, g, b)
  BY <1>2, <1>3 DEF BlocksDone, AllSeen
<1>7. QED
  BY <1>3, <1>4, <1>5, <1>6 DEF SeenFunctions

\* No statement of theirs has left a mark: the next call or else the end of
\* the block would have stored it, and the dump met it.
LEMMA NoMarks ==
  ASSUME NEW p, NEW f, NEW all, UnitOver(p, f, all),
         NEW g \in SeenFunctions(p, all), NEW b \in Blocks(p, g),
         NEW j \in Positions(p, g, b), IsGraph(p[g])
  PROVE  Marks(p, f, p[g].elems[b][j]) => IsCallAt(p, g, b, j)
<1> SUFFICES ASSUME Marks(p, f, p[g].elems[b][j]), ~IsCallAt(p, g, b, j)
             PROVE  FALSE
  OBVIOUS
<1> DEFINE n == Len(p[g].elems[b])
<1>1. g \in DOMAIN p /\ n \in Nat /\ j \in 1 .. n
  <2>1. g \in DOMAIN p /\ p[g].elems \in [Blocks(p, g) -> Seq(Statement)]
    BY DEF SeenFunctions, IsGraph, Blocks
  <2>2. p[g].elems[b] \in Seq(Statement)
    BY <2>1
  <2>3. QED
    BY <2>1, <2>2 DEF Positions
<1>2. PICK ctx : BlockDone(p, f, all, ctx, g, b)
  BY OverFacts
<1>3. /\ \A i \in 1 .. n : Passed(p, f, all, ctx, g, b, i)
      /\ MustStore(p, f, g, b, n + 1) => Stored(all, ctx, EndKey(p, g, b))
  BY <1>2 DEF BlockDone, Positions
<1>4. MarksStored(p, f, all)
  BY DEF UnitOver, IsCovered
<1> HIDE DEF n
<1> DEFINE Later == {i \in Nat : /\ i > j /\ i <= n + 1
                                 /\ i = n + 1 \/ IsCallAt(p, g, b, i)}
<1>5. PICK i \in Later : \A k \in Later : i <= k
  <2>1. n + 1 \in Later
    BY <1>1
  <2>2. Later \in SUBSET Nat /\ Later # {}
    BY <2>1
  <2> HIDE DEF Later
  <2>3. QED
    BY <2>2, Smallest
<1>6. i \in Nat /\ i > j /\ i <= n + 1
  BY <1>5
<1>7. MarkOpen(p, f, g, b, i)
  <2>1. \A k \in j .. i - 1 : ~IsCallAt(p, g, b, k)
    <3>1. SUFFICES ASSUME NEW k \in j .. i - 1, IsCallAt(p, g, b, k)
                   PROVE  FALSE
      OBVIOUS
    <3>2. k # j
      BY <3>1
    <3>3. k \in Nat /\ k > j /\ k <= n + 1 /\ ~(i <= k)
      BY <1>1, <1>6, <3>1, <3>2
    <3>4. k \in Later
      BY <3>1, <3>3
    <3>5. QED
      BY <1>5, <3>3, <3>4
  <2>2. j \in 1 .. i - 1
    BY <1>1, <1>6
  <2>3. QED
    BY <2>1, <2>2 DEF MarkOpen
<1>8. CASE i = n + 1
  <2>1. Stored(all, ctx, EndKey(p, g, b))
    BY <1>3, <1>7, <1>8 DEF MustStore
  <2>2. Marked(StateAt(ResultsOf(all, ctx), EndKey(p, g, b)))
    BY <1>1, <1>4, <1>7, <1>8, <2>1 DEF MarksStored, n
  <2>3. QED
    BY <2>1, <2>2, NoMarkStored
<1>9. CASE i # n + 1
  <2> DEFINE h  == p[g].elems[b][i].callee
             to == PlContext(ctx, StmtKey(g, b, i))
  <2>1. i \in 1 .. n /\ IsCallAt(p, g, b, i)
    BY <1>1, <1>5, <1>6, <1>9
  <2>2. h \in DOMAIN p /\ Stored(all, to, FunctionKey(h))
    BY <1>3, <1>7, <2>1 DEF Passed, MustStore
  <2>3. to.callee = StmtKey(g, b, i)
    BY DEF PlContext
  <2>4. i \in Positions(p, g, b)
    BY <2>1 DEF Positions, n
  <2> HIDE DEF h, to
  <2>5. Marked(StateAt(ResultsOf(all, to), FunctionKey(h)))
    BY <1>1, <1>4, <1>7, <2>2, <2>3, <2>4 DEF MarksStored
  <2>6. QED
    BY <2>2, <2>5, NoMarkStored
<1>10. QED
  BY <1>8, <1>9

\* Their calls are of functions with a body, which have been analysed as well
\* in a unit that has something to track.
LEMMA CallsSeen ==
  ASSUME NEW p, NEW f, NEW all, UnitOver(p, f, all),
         NEW g \in SeenFunctions(p, all), NEW b \in Blocks(p, g),
         NEW i \in Positions(p, g, b), IsCallAt(p, g, b, i)
  PROVE  /\ p[g].elems[b][i].callee \in DOMAIN p
         /\ f \in FullUnits(p) =>
              p[g].elems[b][i].callee \in SeenFunctions(p, all)
<1>1. PICK ctx : BlockDone(p, f, all, ctx, g, b)
  BY OverFacts
<1>2. Passed(p, f, all, ctx, g, b, i)
  BY <1>1 DEF BlockDone
<1>3. QED
  BY <1>2, OverFacts DEF Passed, MustStore

(***************************************************************************)
(* A unit that is done calls functions with a body only, and no statement  *)
(* of its functions marks the state.  When it has nothing to track, only   *)
(* the analysed function itself is known to have been gone through.        *)
(***************************************************************************)
IsGoneThrough(p, f) ==
  \A g \in DOMAIN p : g = f \/ (f \in FullUnits(p) /\ InUnit(p, f, g)) =>
    \A b \in Blocks(p, g) : \A i \in Positions(p, g, b) :
      IF IsCallAt(p, g, b, i) THEN p[g].elems[b][i].callee \in DOMAIN p
                              ELSE ~Marks(p, f, p[g].elems[b][i])

LEMMA OverIsGoneThrough ==
  ASSUME NEW p, NEW f, NEW all, UnitOver(p, f, all), LeastUnit(p, f),
         \A g \in DOMAIN p : IsGraph(p[g])
  PROVE  IsGoneThrough(p, f)
<1> DEFINE G == SeenFunctions(p, all)
<1>1. f \in G /\ G \in SUBSET DOMAIN p
  BY OverFacts DEF SeenFunctions
<1>2. ASSUME NEW g \in G, NEW b \in Blocks(p, g), NEW i \in Positions(p, g, b)
      PROVE  /\ IF IsCallAt(p, g, b, i) THEN p[g].elems[b][i].callee \in DOMAIN p
                                        ELSE ~Marks(p, f, p[g].elems[b][i])
             /\ f \in FullUnits(p) /\ IsCallAt(p, g, b, i) =>
                  p[g].elems[b][i].callee \in G
  BY <1>1, CallsSeen, NoMarks
<1> HIDE DEF G
<1>3. ASSUME f \in FullUnits(p)
      PROVE  \A g \in DOMAIN p : InUnit(p, f, g) => g \in G
  <2>1. HoldsCallees(p, G)
    BY <1>2, <1>3 DEF HoldsCallees, IsCallAt
  <2>2. QED
    BY <1>1, <2>1 DEF LeastUnit
<1>4. \A g \in DOMAIN p : g = f \/ (f \in FullUnits(p) /\ InUnit(p, f, g)) =>
        g \in G
  BY <1>1, <1>3
<1>5. QED
  BY <1>2, <1>4 DEF IsGoneThrough

\* How the analysis of a unit ends
EndKnown ==
  InOrder(prog) =>
    /\ status = "aborted" => CanAbort(prog, topFunction)
    /\ status = "done" /\ UnitStarted => IsGoneThrough(prog, topFunction)

LEMMA EndsKnown ==
  Promises /\ CoverPromises /\ AnalysisInv /\ CoverInv => EndKnown
<1> SUFFICES ASSUME Promises, CoverPromises, AnalysisInv, InOrder(prog),
                    CoverKnown
             PROVE  EndKnown
  BY DEF CoverInv, EndKnown
<1>1. ASSUME status = "done", UnitStarted
      PROVE  IsGoneThrough(prog, topFunction)
  <2>1. /\ prog \in Programs /\ topFunction \in DOMAIN prog
        /\ topFunction \in AnalyzedFunctions(prog)
    BY <1>1 DEF AnalysisInv, UnitKnown, UnitStarted
  <2>2. /\ LeastUnit(prog, topFunction)
        /\ \A g \in DOMAIN prog : IsGraph(prog[g])
    BY <2>1 DEF Promises, CoverPromises
  <2>3. UnitOver(prog, topFunction, allResults)
    <3>1. AllDumped /\
          IsCovered(prog, topFunction, contextWork, allResults, stack)
      BY <1>1 DEF CoverKnown
    <3>2. QED
      BY <2>1, <3>1 DEF AllDumped, UnitOver
  <2>4. QED
    BY <2>2, <2>3, OverIsGoneThrough
<1>2. QED
  BY <1>1 DEF CoverKnown, EndKnown

(***************************************************************************)
(* How the analysis of a unit ends: the process has met two states of its  *)
(* unit that cannot be merged, or one that cannot be compared or dumped,   *)
(* or else every statement of the unit's functions has been gone through.  *)
(***************************************************************************)
THEOREM Ends ==
  ASSUME Promises, CoverPromises
  PROVE  AnalyzerSpec => []EndKnown
BY Coverage, EndsKnown, PTL

-----------------------------------------------------------------------------
(***************************************************************************)
(* The results of an invocation that is over solve the dataflow equations. *)
(*                                                                         *)
(* The merge meets states that need not have the same variables, and only  *)
(* the last state to have one decides on its value, up to normal form: a   *)
(* value met with itself.  What a Manager has to promise for this is       *)
(* SolutionPromises.                                                       *)
(***************************************************************************)

CONSTANT ValueOK(_, _, _, _)  \* of a program, its unit, a variable and a value

NormOf(o) == LatMeet(o, o)

\* The value met in decides on the normal form of the meet.
MeetsDecide(p, f) ==
  /\ \A x : SoundOK(p, f, x) => \A v \in DOMAIN x : ValueOK(p, f, v, x[v])
  /\ \A v, o, i :
       ValueOK(p, f, v, o) /\ ValueOK(p, f, v, i) =>
         /\ ValueOK(p, f, v, LatMeet(o, i))
         /\ NormOf(LatMeet(o, i)) = NormOf(i)

\* A statement makes the same of a state whatever was reported before.
StmtsAgree(p, f) ==
  \A m, n, x, key, s :
    /\ ReadyOK(p, f, m) /\ ManagerOK(p, f, m)
    /\ ReadyOK(p, f, n) /\ ManagerOK(p, f, n)
    /\ Full(p, f, x) /\ key # <<>>
    /\ IsUnitStmt(p, f, s) /\ ~IsAnalyzedCall(s)
    => ApplyTransfer(key, s, x, m).state = ApplyTransfer(key, s, x, n).state

SolutionPromises ==
  \A p \in Programs : \A f \in AnalyzedFunctions(p) :
    MeetsDecide(p, f) /\ StmtsAgree(p, f)

-----------------------------------------------------------------------------
(* The invariant *)

EntryOf(all, ctx, g, b)   == StateAt(ResultsOf(all, ctx), BlockKey(g, b))
ExitOf(p, all, ctx, g, b) == StateAt(ResultsOf(all, ctx), EndKey(p, g, b))

\* The states s[1], s[2], ... have been merged into x, in this order.
Absorbs(x, s) ==
  \A i \in DOMAIN s : \A v \in DOMAIN s[i] :
    /\ v \in DOMAIN x
    /\ (\A j \in DOMAIN s : j > i => v \notin DOMAIN s[j]) =>
         NormOf(x[v]) = NormOf(s[i][v])

\* The exit state of block q that its successors have been told of.
ToldExit(p, all, frame, q) ==
  IF frame.pos > 0 /\ q = frame.block
  THEN frame.oldExit ELSE ExitOf(p, all, frame.ctx, frame.fn, q)

ToldExits(p, all, frame, b) ==
  [i \in 1 .. Len(p[frame.fn].pred[b]) |->
     ToldExit(p, all, frame, p[frame.fn].pred[b][i])]

\* One more merge does not change the entry of block b.
Settled(p, all, frame, b) ==
  Absorbs(EntryOf(all, frame.ctx, frame.fn, b), ToldExits(p, all, frame, b))

CallFree(p, g, b) == \A i \in Positions(p, g, b) : ~IsCallAt(p, g, b, i)

\* The first n statements of a block lead from x to y, with any Manager.
Runs(p, f, g, b, n, x, y) ==
  \E h : /\ h[0] = x /\ h[n] = y
         /\ \A i \in 1 .. n : \A m :
              ReadyOK(p, f, m) /\ ManagerOK(p, f, m) =>
                h[i] = ApplyTransfer(StmtKey(g, b, i), p[g].elems[b][i],
                                     h[i-1], m).state

BlockSolved(p, f, all, ctx, g, b) ==
  Runs(p, f, g, b, Len(p[g].elems[b]),
       EntryOf(all, ctx, g, b), ExitOf(p, all, ctx, g, b))

\* A block whose entry is not settled is on the worklist.
WorkSettled(p, all, frame) ==
  \A b \in Blocks(p, frame.fn) :
    \/ \E j \in 1 .. Len(frame.work) : frame.work[j] = b
    \/ Settled(p, all, frame, b)

\* The exit of the block being analysed is what it was, or new already: the
\* last statement has stored its state under the same key.
ExitKnown(p, all, frame) ==
  frame.pos > 0 =>
    LET exit == ExitOf(p, all, frame.ctx, frame.fn, frame.block)
    IN  \/ exit = frame.oldExit
        \/ /\ frame.pos = Len(p[frame.fn].elems[frame.block]) + 1
           /\ exit = frame.state

StateRuns(p, f, all, frame) ==
  frame.pos > 0 /\ CallFree(p, frame.fn, frame.block) =>
    Runs(p, f, frame.fn, frame.block, frame.pos - 1,
         EntryOf(all, frame.ctx, frame.fn, frame.block), frame.state)

FrameSolved(p, f, all, frame) ==
  /\ WorkSettled(p, all, frame)
  /\ ExitKnown(p, all, frame) /\ StateRuns(p, f, all, frame)

BlocksSolved(p, f, all, stk) ==
  \A ctx : \A g \in DOMAIN p : \A b \in Blocks(p, g) :
    Seen(all, ctx, g, b) /\ CallFree(p, g, b) =>
      InProgress(stk, ctx, g, b) \/ BlockSolved(p, f, all, ctx, g, b)

IsSolved(p, f, all, stk) ==
  /\ BlocksSolved(p, f, all, stk)
  /\ \A i \in 1 .. Len(stk) : FrameSolved(p, f, all, stk[i])

SolveInv ==
  InOrder(prog) /\ status = "running" =>
    IsSolved(prog, topFunction, allResults, stack)

-----------------------------------------------------------------------------
(* The merge *)

Valued(p, f, x) == \A v \in DOMAIN x : ValueOK(p, f, v, x[v])

\* z is the merge of the states s[0] to s[n], up to normal form.
IsMerge(z, s, n) ==
  /\ \A v \in DOMAIN z : \E i \in 0 .. n : v \in DOMAIN s[i]
  /\ \A i \in 0 .. n : \A v \in DOMAIN s[i] :
       /\ v \in DOMAIN z
       /\ (\A j \in i + 1 .. n : v \notin DOMAIN s[j]) =>
            NormOf(z[v]) = NormOf(s[i][v])

LEMMA MergeOne ==
  ASSUME NEW p, NEW f, MeetsDecide(p, f),
         NEW x, Valued(p, f, x), NEW y, Valued(p, f, y),
         NEW z, z = MergeInState(x, y)
  PROVE  /\ DOMAIN z = DOMAIN x \cup DOMAIN y /\ Valued(p, f, z)
         /\ \A v \in DOMAIN y : NormOf(z[v]) = NormOf(y[v])
         /\ \A v \in DOMAIN x : v \notin DOMAIN y => z[v] = x[v]
<1>1. /\ DOMAIN z = DOMAIN x \cup DOMAIN y
      /\ \A v \in DOMAIN z : z[v] = IF v \notin DOMAIN y THEN x[v]
                                    ELSE IF v \in DOMAIN x THEN LatMeet(x[v], y[v])
                                    ELSE y[v]
  BY DEF MergeInState
<1>2. ASSUME NEW v \in DOMAIN z
      PROVE  /\ ValueOK(p, f, v, z[v])
             /\ v \in DOMAIN y => NormOf(z[v]) = NormOf(y[v])
             /\ v \notin DOMAIN y => z[v] = x[v]
  <2>1. CASE v \notin DOMAIN y
    BY <1>1, <2>1 DEF Valued
  <2>2. CASE v \in DOMAIN y /\ v \notin DOMAIN x
    BY <1>1, <2>2 DEF Valued
  <2>3. CASE v \in DOMAIN y /\ v \in DOMAIN x
    <3>1. z[v] = LatMeet(x[v], y[v])
      BY <1>1, <2>3
    <3>2. ValueOK(p, f, v, x[v]) /\ ValueOK(p, f, v, y[v])
      BY <2>3 DEF Valued
    <3>3. QED
      BY <2>3, <3>1, <3>2 DEF MeetsDecide
  <2>4. QED
    BY <2>1, <2>2, <2>3
<1>3. QED
  BY <1>1, <1>2 DEF Valued

\* The merge goes on with one more state.
LEMMA MergeMore ==
  ASSUME NEW p, NEW f, MeetsDecide(p, f), NEW s, NEW n \in Nat \ {0},
         NEW x, Valued(p, f, x), IsMerge(x, s, n - 1),
         NEW y, y = s[n], Valued(p, f, y), NEW z, z = MergeInState(x, y)
  PROVE  Valued(p, f, z) /\ IsMerge(z, s, n)
<1>1. /\ DOMAIN z = DOMAIN x \cup DOMAIN y /\ Valued(p, f, z)
      /\ \A v \in DOMAIN y : NormOf(z[v]) = NormOf(y[v])
      /\ \A v \in DOMAIN x : v \notin DOMAIN y => z[v] = x[v]
  BY MergeOne
<1>2. /\ \A v \in DOMAIN x : \E i \in 0 .. n - 1 : v \in DOMAIN s[i]
      /\ \A i \in 0 .. n - 1 : \A v \in DOMAIN s[i] :
           /\ v \in DOMAIN x
           /\ (\A j \in i + 1 .. n - 1 : v \notin DOMAIN s[j]) =>
                NormOf(x[v]) = NormOf(s[i][v])
  BY DEF IsMerge
<1>3. \A v \in DOMAIN z : \E i \in 0 .. n : v \in DOMAIN s[i]
  <2>1. n \in 0 .. n /\ 0 .. n - 1 \subseteq 0 .. n
    OBVIOUS
  <2>2. QED
    BY <1>1, <1>2, <2>1
<1>4. ASSUME NEW i \in 0 .. n, NEW v \in DOMAIN s[i]
      PROVE  /\ v \in DOMAIN z
             /\ (\A j \in i + 1 .. n : v \notin DOMAIN s[j]) =>
                  NormOf(z[v]) = NormOf(s[i][v])
  <2>1. CASE i = n
    BY <1>1, <2>1
  <2>2. CASE i # n
    <3>1. i \in 0 .. n - 1 /\ n \in i + 1 .. n /\ i + 1 .. n - 1 \subseteq i + 1 .. n
      BY <2>2
    <3>2. v \in DOMAIN x
      BY <1>2, <3>1
    <3>3. ASSUME \A j \in i + 1 .. n : v \notin DOMAIN s[j]
          PROVE  NormOf(z[v]) = NormOf(s[i][v])
      <4>1. v \notin DOMAIN y /\ \A j \in i + 1 .. n - 1 : v \notin DOMAIN s[j]
        BY <3>1, <3>3
      <4>2. z[v] = x[v]
        BY <1>1, <3>2, <4>1
      <4>3. QED
        BY <1>2, <3>1, <4>1, <4>2
    <3>4. QED
      BY <1>1, <3>2, <3>3
  <2>3. QED
    BY <2>1, <2>2
<1>5. IsMerge(z, s, n)
  BY <1>3, <1>4 DEF IsMerge
<1>6. QED
  BY <1>1, <1>5

\* The states that are merged into the entry of a block
Sources(results, g, b) ==
  [i \in 0 .. Len(Predecessors(g, b)) |->
     IF i = 0 THEN StateAt(results, BlockKey(g, b))
     ELSE StateAt(results, ExitKey(g, Predecessors(g, b)[i]))]

LEMMA MergesSources ==
  ASSUME NEW p, NEW f, SoundStart(p, f), MeetsDecide(p, f),
         NEW all, StatesFull(p, f, all), NEW ctx, NEW g, NEW b,
         Len(Predecessors(g, b)) \in Nat
  PROVE  LET results == ResultsOf(all, ctx)
         IN  IsMerge(MergePrevStates(results, g, b), Sources(results, g, b),
                     Len(Predecessors(g, b)))
<1> DEFINE results == ResultsOf(all, ctx)
           n       == Len(Predecessors(g, b))
           s       == Sources(results, g, b)
           merged  == CHOOSE h : h = MergeUpTo(results, g, b, n, h)
           Good(i) == Valued(p, f, merged[i]) /\ IsMerge(merged[i], s, i)
           Bad     == {i \in 0 .. n : ~Good(i)}
<1>1. \A key : Valued(p, f, StateAt(results, key))
  <2>1. \A key : SoundOK(p, f, StateAt(results, key))
    BY SoundAt
  <2>2. QED
    BY <2>1 DEF MeetsDecide, Valued
<1>2. merged = MergeUpTo(results, g, b, n, merged)
  BY MergeExists
<1>3. \A i \in 0 .. n :
        merged[i] = IF i = 0 THEN MergeInState(EmptyState, s[0])
                    ELSE MergeInState(merged[i-1], s[i])
  <2> HIDE DEF merged, results
  <2>1. QED
    BY <1>2 DEF MergeUpTo, Sources
<1>4. \A i \in 0 .. n : Valued(p, f, s[i])
  BY <1>1 DEF Sources
<1> HIDE DEF merged, results, s
<1>5. Good(0)
  <2>1. Valued(p, f, EmptyState) /\ DOMAIN EmptyState = {}
    BY DEF Valued, EmptyState
  <2>2. merged[0] = MergeInState(EmptyState, s[0])
    BY <1>3
  <2>3. /\ DOMAIN merged[0] = DOMAIN s[0] /\ Valued(p, f, merged[0])
        /\ \A v \in DOMAIN s[0] : NormOf(merged[0][v]) = NormOf(s[0][v])
    <3> DEFINE x == EmptyState
               y == s[0]
               z == merged[0]
    <3>1. /\ Valued(p, f, x) /\ DOMAIN x = {} /\ Valued(p, f, y)
          /\ z = MergeInState(x, y)
      BY <1>4, <2>1, <2>2
    <3> HIDE DEF x, y, z
    <3>2. /\ DOMAIN z = DOMAIN x \cup DOMAIN y /\ Valued(p, f, z)
          /\ \A v \in DOMAIN y : NormOf(z[v]) = NormOf(y[v])
      BY <3>1, MergeOne
    <3>3. DOMAIN z = DOMAIN y
      BY <3>1, <3>2
    <3>4. QED
      BY <3>2, <3>3 DEF y, z
  <2>4. \A i \in 0 .. 0 : i = 0
    OBVIOUS
  <2>5. QED
    <3>1. \A v \in DOMAIN merged[0] : 0 \in 0 .. 0 /\ v \in DOMAIN s[0]
      BY <2>3
    <3>2. IsMerge(merged[0], s, 0)
      BY <2>3, <2>4, <3>1 DEF IsMerge
    <3>3. QED
      BY <2>3, <3>2
<1>6. ASSUME NEW i \in 1 .. n, Good(i - 1) PROVE Good(i)
  <2>1. merged[i] = MergeInState(merged[i-1], s[i]) /\ Valued(p, f, s[i])
    BY <1>3, <1>4
  <2>2. QED
    BY <1>6, <2>1, MergeMore
<1> HIDE DEF Good
<1>7. Bad = {}
  <2>1. SUFFICES ASSUME Bad # {} PROVE FALSE
    OBVIOUS
  <2>2. PICK k \in Bad : \A j \in Bad : k <= j
    <3>1. Bad \in SUBSET Nat
      OBVIOUS
    <3> HIDE DEF Bad
    <3>2. QED
      BY <2>1, <3>1, Smallest
  <2>3. k \in 0 .. n /\ ~Good(k)
    OBVIOUS
  <2>4. k # 0 /\ k - 1 \in 0 .. n
    BY <1>5, <2>3
  <2>5. Good(k - 1)
    BY <2>2, <2>4
  <2>6. QED
    BY <1>6, <2>3, <2>4, <2>5
<1>8. Good(n)
  BY <1>7
<1>9. MergePrevStates(results, g, b) = merged[n]
  BY MergeUnfold DEF merged
<1>10. QED
  BY <1>8, <1>9 DEF Good, results, s

-----------------------------------------------------------------------------
(* What a step leaves as it was *)

\* The locations of a block
OfBlock(g, b, key) == key = BlockKey(g, b) \/ \E i : key = StmtKey(g, b, i)

\* Writing to a block leaves the others alone.
LEMMA OtherBlocks ==
  ASSUME NEW p, NEW all, NEW ctx, NEW g, NEW b, NEW key, OfBlock(g, b, key),
         NEW state, NEW new, new = AssignIn(all, ctx, key, state),
         NEW c, NEW h, NEW d, ~(c = ctx /\ h = g /\ d = b)
  PROVE  /\ EntryOf(new, c, h, d) = EntryOf(all, c, h, d)
         /\ ExitOf(p, new, c, h, d) = ExitOf(p, all, c, h, d)
         /\ Seen(new, c, h, d) <=> Seen(all, c, h, d)
<1>1. \A k : ~(c = ctx /\ k = key) =>
        /\ Stored(new, c, k) <=> Stored(all, c, k)
        /\ StateAt(ResultsOf(new, c), k) = StateAt(ResultsOf(all, c), k)
  BY StoredAfter
<1>2. c = ctx => BlockKey(h, d) # key /\ EndKey(p, h, d) # key
  BY KeysDiffer, EndKeyFacts DEF OfBlock
<1>3. QED
  BY <1>1, <1>2 DEF EntryOf, ExitOf, Seen

LEMMA SettledStays ==
  ASSUME NEW p, NEW all, NEW frame, NEW new, NEW next, NEW b,
         next.fn = frame.fn,
         EntryOf(new, next.ctx, frame.fn, b) = EntryOf(all, frame.ctx, frame.fn, b),
         \A i \in 1 .. Len(p[frame.fn].pred[b]) :
           ToldExit(p, new, next, p[frame.fn].pred[b][i]) =
             ToldExit(p, all, frame, p[frame.fn].pred[b][i]),
         Settled(p, all, frame, b)
  PROVE  Settled(p, new, next, b)
<1>1. ToldExits(p, new, next, b) = ToldExits(p, all, frame, b)
  BY DEF ToldExits
<1>2. QED
  BY <1>1 DEF Settled

\* An invocation of which no results are written
LEMMA FrameSolvedStays ==
  ASSUME NEW p, NEW f, NEW all, NEW new, NEW frame,
         ResultsOf(new, frame.ctx) = ResultsOf(all, frame.ctx),
         FrameSolved(p, f, all, frame)
  PROVE  FrameSolved(p, f, new, frame)
<1>1. \A b : /\ EntryOf(new, frame.ctx, frame.fn, b) = EntryOf(all, frame.ctx, frame.fn, b)
             /\ ExitOf(p, new, frame.ctx, frame.fn, b) = ExitOf(p, all, frame.ctx, frame.fn, b)
  BY DEF EntryOf, ExitOf
<1>2. \A q : ToldExit(p, new, frame, q) = ToldExit(p, all, frame, q)
  BY <1>1 DEF ToldExit
<1>3. \A b : Settled(p, all, frame, b) => Settled(p, new, frame, b)
  BY <1>1, <1>2, SettledStays
<1>4. WorkSettled(p, new, frame)
  BY <1>3 DEF FrameSolved, WorkSettled
<1>5. ExitKnown(p, new, frame) /\ StateRuns(p, f, new, frame)
  BY <1>1 DEF FrameSolved, ExitKnown, StateRuns
<1>6. QED
  BY <1>4, <1>5 DEF FrameSolved

-----------------------------------------------------------------------------
(* The innermost invocation *)

\* A unit is being analysed, nothing is left out and all results are solved.
Solved == /\ Covered
          /\ IsSolved(prog, topFunction, allResults, stack)

LEMMA TopSolved ==
  ASSUME Promises, CoverPromises, Solved, stack # <<>>
  PROVE  /\ Len(stack) \in Nat \ {0} /\ Top = stack[Len(stack)]
         /\ FrameSolved(prog, topFunction, allResults, Top)
         /\ BlocksSolved(prog, topFunction, allResults, stack)
         /\ FrameOK(prog, topFunction, manager, Top)
         /\ FrameCov(prog, topFunction, allResults, Top)
         /\ IsGraph(prog[Top.fn])
         /\ Top.fn \in DOMAIN prog /\ Top.block \in Blocks(prog, Top.fn)
<1>1. /\ Len(stack) \in Nat \ {0} /\ Top = stack[Len(stack)]
      /\ FrameOK(prog, topFunction, manager, Top)
      /\ FrameCov(prog, topFunction, allResults, Top)
      /\ IsGraph(prog[Top.fn])
  BY TopFacts DEF Solved
<1>2. Len(stack) \in 1 .. Len(stack)
  BY <1>1
<1>3. QED
  BY <1>1, <1>2 DEF Solved, IsSolved, FrameOK

\* The innermost invocation writes to the block it is at.
TopWrites(frame) ==
  \/ allResults' = allResults
  \/ \E key, state :
       /\ OfBlock(Top.fn, frame.block, key)
       /\ allResults' = AssignIn(allResults, Top.ctx, key, state)

LEMMA TopStepSolved ==
  ASSUME Promises, CoverPromises, Solved, stack # <<>>,
         NEW frame, stack' = SetTop(frame),
         frame.fn = Top.fn, frame.ctx = Top.ctx,
         UNCHANGED <<prog, topFunction>>, TopWrites(frame),
         FrameSolved(prog, topFunction, allResults', frame),
         Top.pos > 0 => frame.block = Top.block,
         \/ frame.pos > 0
         \/ Top.pos = 0 /\ allResults' = allResults
         \/ CallFree(prog, Top.fn, frame.block) =>
              BlockSolved(prog, topFunction, allResults', Top.ctx, Top.fn,
                          frame.block)
  PROVE  IsSolved(prog, topFunction, allResults, stack)'
<1> DEFINE n == Len(stack)
           f == topFunction
<1>1. /\ Len(stack') = n
      /\ \A i \in 1 .. n : stack'[i] = IF i = n THEN frame ELSE stack[i]
  BY TopSet DEF Solved, Covered
<1>2. /\ n \in Nat \ {0} /\ Top = stack[n] /\ n \in Calls /\ Calls = 1 .. n
      /\ BlocksSolved(prog, f, allResults, stack) /\ EngineInv
      /\ \A i \in 1 .. n : FrameSolved(prog, f, allResults, stack[i])
  BY TopSolved DEF Calls, Solved, Covered, AnalysisInv, IsSolved
<1>3. ASSUME NEW i \in 1 .. n
      PROVE  FrameSolved(prog, f, allResults', stack'[i])
  <2>1. CASE i = n
    BY <1>1, <2>1
  <2>2. CASE i # n
    <3>1. stack[i].ctx # Top.ctx
      BY <1>2, <2>2, ContextsDistinct
    <3>2. ResultsOf(allResults', stack[i].ctx) = ResultsOf(allResults, stack[i].ctx)
      BY <3>1, OthersKept DEF TopWrites
    <3>3. QED
      BY <1>1, <1>2, <2>2, <3>2, FrameSolvedStays
  <2>3. QED
    BY <2>1, <2>2
<1>4. ASSUME NEW c, NEW h \in DOMAIN prog, NEW d \in Blocks(prog, h),
             Seen(allResults', c, h, d), CallFree(prog, h, d),
             ~BlockSolved(prog, f, allResults', c, h, d)
      PROVE  InProgress(stack', c, h, d)
  <2> DEFINE here == c = Top.ctx /\ h = Top.fn /\ d = frame.block
  <2>1. CASE here /\ frame.pos > 0
    <3>1. n \in 1 .. Len(stack') /\ stack'[n] = frame
      BY <1>1, <1>2
    <3>2. QED
      BY <2>1, <3>1 DEF InProgress
  <2>2. CASE ~here \/ (Top.pos = 0 /\ allResults' = allResults)
    <3>1. /\ Seen(allResults, c, h, d)
          /\ EntryOf(allResults', c, h, d) = EntryOf(allResults, c, h, d)
          /\ ExitOf(prog, allResults', c, h, d) = ExitOf(prog, allResults, c, h, d)
      BY <1>4, <2>2, OtherBlocks DEF TopWrites
    <3>2. InProgress(stack, c, h, d)
      BY <1>2, <1>4, <3>1 DEF BlocksSolved, BlockSolved
    <3>3. PICK i \in 1 .. n : /\ stack[i].ctx = c /\ stack[i].fn = h
                              /\ stack[i].block = d /\ stack[i].pos > 0
      BY <3>2 DEF InProgress
    <3>4. i # n
      BY <1>2, <2>2, <3>3
    <3>5. i \in 1 .. Len(stack') /\ stack'[i] = stack[i]
      BY <1>1, <3>4
    <3>6. QED
      BY <3>3, <3>5 DEF InProgress
  <2>3. QED
    BY <1>4, <2>1, <2>2
<1>5. BlocksSolved(prog, f, allResults', stack')
  BY <1>4 DEF BlocksSolved
<1>6. QED
  BY <1>1, <1>3, <1>5 DEF IsSolved

-----------------------------------------------------------------------------
(* The steps between blocks *)

LEMMA MergeAbsorbs ==
  ASSUME NEW z, NEW src, NEW n \in Nat, IsMerge(z, src, n),
         NEW s, DOMAIN s = 1 .. n, \A i \in 1 .. n : s[i] = src[i]
  PROVE  Absorbs(z, s)
<1> SUFFICES ASSUME NEW i \in 1 .. n, NEW v \in DOMAIN s[i]
             PROVE  /\ v \in DOMAIN z
                    /\ (\A j \in 1 .. n : j > i => v \notin DOMAIN s[j]) =>
                         NormOf(z[v]) = NormOf(s[i][v])
  BY DEF Absorbs
<1>1. i \in 0 .. n /\ s[i] = src[i]
  OBVIOUS
<1>2. /\ v \in DOMAIN z
      /\ (\A j \in i + 1 .. n : v \notin DOMAIN src[j]) =>
           NormOf(z[v]) = NormOf(s[i][v])
  BY <1>1 DEF IsMerge
<1>3. \A j \in i + 1 .. n : j \in 1 .. n /\ j > i
  OBVIOUS
<1>4. QED
  BY <1>2, <1>3

\* What has been merged for the next block settles its entry.
LEMMA NextAbsorbs ==
  ASSUME Promises, CoverPromises, SolutionPromises, Solved, stack # <<>>,
         Top.pos = 0, Top.work # <<>>
  PROVE  /\ Last(Top.work) \in Blocks(prog, Top.fn)
         /\ Absorbs(MergePrevStates(Results(Top), Top.fn, Last(Top.work)),
                    ToldExits(prog, allResults, Top, Last(Top.work)))
<1> DEFINE b       == Last(Top.work)
           g       == Top.fn
           f       == topFunction
           results == ResultsOf(allResults, Top.ctx)
           n       == Len(Predecessors(g, b))
           merged  == MergePrevStates(results, g, b)
           src     == Sources(results, g, b)
           exits   == ToldExits(prog, allResults, Top, b)
<1>1. b \in Blocks(prog, g) /\ n \in Nat
  <2>1. b \in Blocks(prog, g)
    BY BlockTaken DEF Solved, Covered
  <2>2. Predecessors(g, b) \in Seq(Blocks(prog, g))
    BY <2>1, TopBlocks DEF Solved, Covered
  <2>3. QED
    BY <2>1, <2>2
<1>2. SoundStart(prog, f) /\ StatesFull(prog, f, allResults)
  BY CoverPromised, TopFacts DEF Solved
<1>3. MeetsDecide(prog, f)
  BY DEF SolutionPromises, Solved, Covered, UnitStarted, AnalysisInv, UnitKnown
<1>4. IsMerge(merged, src, n)
  BY <1>1, <1>2, <1>3, MergesSources
<1>5. DOMAIN exits = 1 .. n /\ \A i \in 1 .. n : exits[i] = src[i]
  BY <1>1, ExitIsEnd DEF ToldExits, ToldExit, Sources, ExitOf, Predecessors
<1> HIDE DEF merged, src, exits, n
<1>6. Absorbs(merged, exits)
  BY <1>1, <1>4, <1>5, MergeAbsorbs
<1>7. QED
  BY <1>1, <1>6 DEF merged, exits, Results

LEMMA WorkLeft ==
  ASSUME NEW S, NEW work \in Seq(S), NEW j \in 1 .. Len(work),
         work[j] # Last(work)
  PROVE  \E i \in 1 .. Len(Front(work)) : Front(work)[i] = work[j]
<1>1. j # Len(work) /\ Len(work) \in Nat
  BY DEF Last
<1>2. j \in 1 .. Len(Front(work)) /\ Front(work)[j] = work[j]
  BY <1>1 DEF Front
<1>3. QED
  BY <1>2

LEMMA SkipBlockSolved ==
  ASSUME Promises, CoverPromises, SolutionPromises, Solved, SkipBlock
  PROVE  IsSolved(prog, topFunction, allResults, stack)'
<1> DEFINE b      == Last(Top.work)
           merged == MergePrevStates(Results(Top), Top.fn, b)
           frame  == [Top EXCEPT !.work = Front(@)]
<1>1. /\ stack # <<>> /\ Top.pos = 0 /\ Top.work # <<>>
      /\ stack' = SetTop(frame)
      /\ merged = EntryOf(allResults, Top.ctx, Top.fn, b)
      /\ UNCHANGED <<prog, topFunction, allResults>>
  <2>1. /\ stack # <<>> /\ Top.pos = 0 /\ Top.work # <<>>
        /\ stack' = SetTop(frame) /\ Same(frame, b, merged)
        /\ UNCHANGED <<prog, topFunction, allResults>>
    BY DEF SkipBlock, NextBlock, InBlocks
  <2>2. frame.fn = Top.fn /\ frame.ctx = Top.ctx
    OBVIOUS
  <2> HIDE DEF frame, b, merged
  <2>3. QED
    BY <2>1, <2>2 DEF Same, OldEntry, Results, EntryOf
<1>2. /\ FrameOK(prog, topFunction, manager, Top)
      /\ FrameSolved(prog, topFunction, allResults, Top)
  BY <1>1, TopSolved
<1>3. Settled(prog, allResults, Top, b)
  BY <1>1, NextAbsorbs DEF Settled
<1>4. /\ frame.fn = Top.fn /\ frame.ctx = Top.ctx /\ frame.pos = 0
      /\ frame.work = Front(Top.work) /\ frame.block = Top.block
  BY <1>1, <1>2 DEF FrameOK
<1> HIDE DEF frame, merged, b
<1>5. \A c : Settled(prog, allResults, Top, c) => Settled(prog, allResults, frame, c)
  <2>1. \A q : ToldExit(prog, allResults, frame, q) = ToldExit(prog, allResults, Top, q)
    BY <1>1, <1>4 DEF ToldExit
  <2>2. QED
    BY <1>4, <2>1, SettledStays
<1>6. WorkSettled(prog, allResults, frame)
  <2> SUFFICES ASSUME NEW c \in Blocks(prog, Top.fn),
                      ~Settled(prog, allResults, Top, c)
               PROVE  \E j \in 1 .. Len(frame.work) : frame.work[j] = c
    BY <1>4, <1>5 DEF WorkSettled
  <2>1. PICK j \in 1 .. Len(Top.work) : Top.work[j] = c
    BY <1>2 DEF FrameSolved, WorkSettled
  <2>2. Top.work[j] # Last(Top.work)
    BY <1>3, <2>1 DEF b
  <2>3. QED
    BY <1>2, <1>4, <2>1, <2>2, WorkLeft DEF FrameOK
<1>7. FrameSolved(prog, topFunction, allResults, frame)
  BY <1>4, <1>6 DEF FrameSolved, ExitKnown, StateRuns
<1>8. TopWrites(frame)
  BY <1>1 DEF TopWrites
<1>9. QED
  BY <1>1, <1>4, <1>7, <1>8, TopStepSolved
\* A block without statements leads from its entry to its entry.
LEMMA NoRun ==
  ASSUME NEW p, NEW f, NEW g, NEW b, NEW x
  PROVE  Runs(p, f, g, b, 0, x, x)
<1> DEFINE h == [i \in {0} |-> x]
<1>1. h[0] = x /\ \A i \in 1 .. 0 : FALSE
  OBVIOUS
<1> HIDE DEF h
<1>2. QED
  BY <1>1 DEF Runs

LEMMA EnterBlockSolved ==
  ASSUME Promises, CoverPromises, SolutionPromises, Solved, EnterBlock
  PROVE  IsSolved(prog, topFunction, allResults, stack)'
<1> DEFINE f      == topFunction
           g      == Top.fn
           ctx    == Top.ctx
           b      == Last(Top.work)
           merged == MergePrevStates(Results(Top), Top.fn, b)
           taken  == [Top EXCEPT !.work = Front(@)]
           old    == StateAt(Results(Top), ExitKey(Top.fn, b))
           frame  == [taken EXCEPT !.block = b, !.pos = 1, !.state = merged,
                                   !.oldExit = old]
           key    == BlockKey(Top.fn, b)
<1>1. /\ stack # <<>> /\ Top.pos = 0 /\ Top.work # <<>>
      /\ stack' = SetTop(frame)
      /\ allResults' = AssignIn(allResults, Top.ctx, key, merged)
      /\ UNCHANGED <<prog, topFunction>>
  <2>1. taken.fn = Top.fn /\ taken.ctx = Top.ctx
    OBVIOUS
  <2>2. Results(taken) = Results(Top)
    BY <2>1 DEF Results
  <2> HIDE DEF b, merged
  <2>3. /\ stack # <<>> /\ Top.pos = 0 /\ Top.work # <<>>
        /\ allResults' = AssignIn(allResults, taken.ctx, BlockKey(taken.fn, b), merged)
        /\ stack' = SetTop([taken EXCEPT
             !.block = b, !.pos = 1, !.state = merged,
             !.oldExit = StateAt(Results(taken), ExitKey(taken.fn, b))])
        /\ UNCHANGED <<prog, topFunction>>
    BY DEF EnterBlock, NextBlock, InBlocks, b, merged
  <2>4. QED
    BY <2>1, <2>2, <2>3
<1>2. /\ FrameOK(prog, f, manager, Top)
      /\ FrameSolved(prog, f, allResults, Top)
      /\ IsGraph(prog[g])
  BY <1>1, TopSolved
<1>3. /\ b \in Blocks(prog, g)
      /\ Absorbs(merged, ToldExits(prog, allResults, Top, b))
  BY <1>1, NextAbsorbs
<1>4. old = ExitOf(prog, allResults, ctx, g, b)
  BY ExitIsEnd DEF ExitOf, Results
<1>5. /\ frame.fn = g /\ frame.ctx = ctx /\ frame.pos = 1
      /\ frame.work = Front(Top.work) /\ frame.block = b
      /\ frame.state = merged /\ frame.oldExit = old
  <2>1. /\ taken.fn = Top.fn /\ taken.ctx = Top.ctx
        /\ taken.work = Front(Top.work)
        /\ {"block", "pos", "state", "oldExit"} \subseteq DOMAIN taken
    BY <1>2 DEF FrameOK
  <2> HIDE DEF taken, b, merged, old
  <2>2. QED
    BY <2>1
<1> HIDE DEF frame, merged, old
<1>6. /\ EntryOf(allResults', ctx, g, b) = merged
      /\ ExitOf(prog, allResults', ctx, g, b) =
           IF EndKey(prog, g, b) = key THEN merged ELSE old
  BY <1>1, <1>4, StoredAfter DEF EntryOf, ExitOf
<1>7. OfBlock(g, b, key)
  BY DEF OfBlock
<1> HIDE DEF b, key
<1>8. \A d : d # b =>
        /\ EntryOf(allResults', ctx, g, d) = EntryOf(allResults, ctx, g, d)
        /\ ExitOf(prog, allResults', ctx, g, d) = ExitOf(prog, allResults, ctx, g, d)
  BY <1>1, <1>7, OtherBlocks
<1>9. \A q : ToldExit(prog, allResults', frame, q) = ToldExit(prog, allResults, Top, q)
  BY <1>1, <1>4, <1>5, <1>8 DEF ToldExit
<1>10. Settled(prog, allResults', frame, b)
  <2>1. ToldExits(prog, allResults', frame, b) = ToldExits(prog, allResults, Top, b)
    BY <1>5, <1>9 DEF ToldExits
  <2>2. QED
    BY <1>3, <1>5, <1>6, <2>1 DEF Settled
<1>11. \A d : d # b /\ Settled(prog, allResults, Top, d) =>
         Settled(prog, allResults', frame, d)
  BY <1>5, <1>8, <1>9, SettledStays
<1>12. WorkSettled(prog, allResults', frame)
  <2> SUFFICES ASSUME NEW c \in Blocks(prog, g), c # b,
                      ~Settled(prog, allResults, Top, c)
               PROVE  \E j \in 1 .. Len(frame.work) : frame.work[j] = c
    BY <1>5, <1>10, <1>11 DEF WorkSettled
  <2>1. PICK j \in 1 .. Len(Top.work) : Top.work[j] = c
    BY <1>2 DEF FrameSolved, WorkSettled
  <2>2. Top.work[j] # Last(Top.work)
    BY <2>1 DEF b
  <2>3. QED
    BY <1>2, <1>5, <2>1, <2>2, WorkLeft DEF FrameOK
<1>13. ExitKnown(prog, allResults', frame)
  <2>1. CASE EndKey(prog, g, b) # key
    BY <1>5, <1>6, <2>1 DEF ExitKnown
  <2>2. CASE EndKey(prog, g, b) = key
    <3>1. b \in {prog[g].last, 0}
      BY <2>2, KeysDiffer DEF EndKey, key
    <3>2. prog[g].elems[b] = <<>>
      BY <1>2, <1>3, <3>1 DEF IsGraph, Blocks
    <3>3. Len(prog[g].elems[b]) = 0
      BY <3>2
    <3>4. QED
      BY <1>5, <1>6, <2>2, <3>3 DEF ExitKnown
  <2>3. QED
    BY <2>1, <2>2
<1>14. StateRuns(prog, f, allResults', frame)
  <2>1. Runs(prog, f, g, b, 0, merged, merged)
    BY NoRun
  <2>2. QED
    BY <1>5, <1>6, <2>1 DEF StateRuns
<1>15. FrameSolved(prog, f, allResults', frame)
  BY <1>12, <1>13, <1>14 DEF FrameSolved
<1>16. TopWrites(frame)
  BY <1>1, <1>5, <1>7 DEF TopWrites
<1>17. QED
  BY <1>1, <1>5, <1>15, <1>16, TopStepSolved
\* The worklist when blocks are put on it
LEMMA WorkAppended ==
  ASSUME NEW S, NEW work \in Seq(S), NEW more \in Seq(S), NEW c, NEW j \in Nat,
         NEW all, all = work \o more
  PROVE  /\ j \in 1 .. Len(work) /\ work[j] = c =>
              \E i \in 1 .. Len(all) : all[i] = c
         /\ j \in 1 .. Len(more) /\ more[j] = c =>
              \E i \in 1 .. Len(all) : all[i] = c
<1>1. /\ Len(all) = Len(work) + Len(more) /\ Len(work) \in Nat /\ Len(more) \in Nat
      /\ \A i \in 1 .. Len(work) : all[i] = work[i]
      /\ \A i \in 1 .. Len(more) : all[Len(work) + i] = more[i]
  OBVIOUS
<1>2. ASSUME j \in 1 .. Len(work), work[j] = c
      PROVE  \E i \in 1 .. Len(all) : all[i] = c
  <2>1. j \in 1 .. Len(all) /\ all[j] = c
    BY <1>1, <1>2
  <2>2. QED
    BY <2>1
<1>3. ASSUME j \in 1 .. Len(more), more[j] = c
      PROVE  \E i \in 1 .. Len(all) : all[i] = c
  <2>1. Len(work) + j \in 1 .. Len(all) /\ all[Len(work) + j] = c
    BY <1>1, <1>3
  <2>2. QED
    BY <2>1
<1>4. QED
  BY <1>2, <1>3

\* A block is among the successors of its predecessors.
LEMMA IsSuccessor ==
  ASSUME NEW G, IsGraph(G), NEW b \in 0 .. G.last, NEW c \in 0 .. G.last,
         NEW more, more = G.succ[b], NEW told, told = G.pred[c],
         NEW j \in 1 .. Len(told), told[j] = b
  PROVE  \E i \in Nat : i \in 1 .. Len(more) /\ more[i] = c
<1>1. (\E i \in 1 .. Len(more) : more[i] = c) <=>
        (\E i \in 1 .. Len(told) : told[i] = b)
  BY DEF IsGraph
<1>2. \E i \in 1 .. Len(told) : told[i] = b
  OBVIOUS
<1>3. \E i \in 1 .. Len(more) : more[i] = c
  BY <1>1, <1>2
<1>4. QED
  BY <1>3

LEMMA FinishBlockSolved ==
  ASSUME Promises, CoverPromises, SolutionPromises, Solved, FinishBlock
  PROVE  IsSolved(prog, topFunction, allResults, stack)'
<1> DEFINE f      == topFunction
           g      == Top.fn
           b      == Top.block
           ctx    == Top.ctx
           n      == Len(prog[g].elems[b])
           key    == ExitKey(g, b)
           quiet  == [Top EXCEPT !.pos = 0]
           frame  == [Top EXCEPT !.pos = 0, !.work = @ \o Successors(g, b)]
           entry  == EntryOf(allResults, ctx, g, b)
           exit   == ExitOf(prog, allResults, ctx, g, b)
<1>1. /\ stack # <<>> /\ Top.pos = n + 1
      /\ \/ /\ Top.state = Top.oldExit /\ stack' = SetTop(quiet)
            /\ allResults' = allResults
         \/ /\ Top.state # Top.oldExit /\ stack' = SetTop(frame)
            /\ allResults' = AssignIn(allResults, Top.ctx, key, Top.state)
      /\ UNCHANGED <<prog, topFunction>>
  BY DEF FinishBlock, AtBlockEnd, Elements
<1>2. /\ FrameOK(prog, f, manager, Top) /\ FrameSolved(prog, f, allResults, Top)
      /\ IsGraph(prog[g])
  BY <1>1, TopSolved
<1>3. /\ n \in Nat /\ b \in Blocks(prog, g) /\ Top.pos > 0 /\ Top.pos - 1 = n
      /\ g \in DOMAIN prog /\ prog[g].last \in Nat
  BY <1>1, <1>2 DEF IsGraph, Blocks, FrameOK
<1>4. key = EndKey(prog, g, b) /\ OfBlock(g, b, key)
  BY ExitIsEnd, EndKeyFacts DEF OfBlock
<1>5. /\ CallFree(prog, g, b) => Runs(prog, f, g, b, n, entry, Top.state)
      /\ exit = Top.oldExit \/ exit = Top.state
  BY <1>2, <1>3 DEF FrameSolved, ExitKnown, StateRuns
<1>6. CASE Top.state = Top.oldExit
  <2>1. /\ quiet.fn = g /\ quiet.ctx = ctx /\ quiet.pos = 0
        /\ quiet.work = Top.work /\ quiet.block = b
    BY <1>2 DEF FrameOK
  <2> HIDE DEF quiet, frame
  <2>2. stack' = SetTop(quiet) /\ allResults' = allResults
    BY <1>1, <1>6
  <2>3. \A q : ToldExit(prog, allResults, quiet, q) = ToldExit(prog, allResults, Top, q)
    BY <1>3, <1>5, <1>6, <2>1 DEF ToldExit
  <2>4. \A c : Settled(prog, allResults, Top, c) => Settled(prog, allResults, quiet, c)
    BY <2>1, <2>3, SettledStays
  <2>5. FrameSolved(prog, f, allResults, quiet)
    BY <1>2, <2>1, <2>4 DEF FrameSolved, WorkSettled, ExitKnown, StateRuns
  <2>6. CallFree(prog, g, b) => BlockSolved(prog, f, allResults, ctx, g, b)
    BY <1>5, <1>6 DEF BlockSolved
  <2>7. TopWrites(quiet)
    BY <2>2 DEF TopWrites
  <2>8. QED
    BY <1>1, <2>1, <2>2, <2>5, <2>6, <2>7, TopStepSolved
<1>7. CASE Top.state # Top.oldExit
  <2>1. /\ frame.fn = g /\ frame.ctx = ctx /\ frame.pos = 0
        /\ frame.work = Top.work \o Successors(g, b) /\ frame.block = b
    BY <1>2 DEF FrameOK
  <2> HIDE DEF quiet, frame
  <2>2. /\ stack' = SetTop(frame)
        /\ allResults' = AssignIn(allResults, ctx, key, Top.state)
    BY <1>1, <1>7
  <2>3. /\ ExitOf(prog, allResults', ctx, g, b) = Top.state
        /\ key # BlockKey(g, b) => EntryOf(allResults', ctx, g, b) = entry
        /\ key = BlockKey(g, b) => EntryOf(allResults', ctx, g, b) = Top.state
    BY <1>4, <2>2, StoredAfter DEF EntryOf, ExitOf
  <2>4. EntryOf(allResults', ctx, g, b) = entry
    <3>1. SUFFICES ASSUME key = BlockKey(g, b) PROVE entry = Top.state
      BY <2>3
    <3>2. b \in {prog[g].last, 0}
      BY <1>4, <3>1, KeysDiffer DEF EndKey
    <3>3. prog[g].elems[b] = <<>>
      BY <1>2, <1>3, <3>2 DEF IsGraph, Blocks
    <3>4. n = 0
      BY <3>3
    <3>5. CallFree(prog, g, b)
      BY <3>4 DEF CallFree, Positions
    <3>6. QED
      BY <1>5, <3>4, <3>5 DEF Runs
  <2>5. \A d : d # b =>
          /\ EntryOf(allResults', ctx, g, d) = EntryOf(allResults, ctx, g, d)
          /\ ExitOf(prog, allResults', ctx, g, d) = ExitOf(prog, allResults, ctx, g, d)
    BY <1>4, <2>2, OtherBlocks
  <2>6. \A d : EntryOf(allResults', ctx, g, d) = EntryOf(allResults, ctx, g, d)
    BY <2>4, <2>5
  <2>7. \A q : q # b =>
          ToldExit(prog, allResults', frame, q) = ToldExit(prog, allResults, Top, q)
    BY <2>1, <2>5 DEF ToldExit
  <2>8. Top.work \in Seq(Blocks(prog, g)) /\ Successors(g, b) \in Seq(Blocks(prog, g))
    BY <1>2, <1>3 DEF FrameOK, IsGraph, Successors, Blocks
  <2>9. WorkSettled(prog, allResults', frame)
    <3> SUFFICES ASSUME NEW c \in Blocks(prog, g),
                        ~Settled(prog, allResults', frame, c)
                 PROVE  \E j \in 1 .. Len(frame.work) : frame.work[j] = c
      BY <2>1 DEF WorkSettled
    <3>1. CASE \E j \in 1 .. Len(prog[g].pred[c]) : prog[g].pred[c][j] = b
      <4> DEFINE G    == prog[g]
                 more == Successors(g, b)
                 work == Top.work
                 all  == frame.work
                 told == G.pred[c]
      <4>1. PICK j \in 1 .. Len(told) : told[j] = b
        BY <3>1
      <4>2. IsGraph(G) /\ c \in 0 .. G.last /\ b \in 0 .. G.last /\ more = G.succ[b]
        BY <1>2, <1>3 DEF Blocks, Successors
      <4>3. /\ more \in Seq(Blocks(prog, g)) /\ work \in Seq(Blocks(prog, g))
            /\ all = work \o more
        BY <2>1, <2>8
      <4>4. told = G.pred[c]
        OBVIOUS
      <4> HIDE DEF G, more, work, all, told, b
      <4>5. PICK i \in Nat : i \in 1 .. Len(more) /\ more[i] = c
        BY <4>1, <4>2, <4>4, IsSuccessor
      <4>6. \E k \in 1 .. Len(all) : all[k] = c
        <5> DEFINE B == Blocks(prog, g)
        <5>1. more \in Seq(B) /\ work \in Seq(B)
          BY <4>3
        <5>2. all = work \o more
          BY <4>3
        <5> HIDE DEF B, g
        <5>3. /\ Len(work) \in Nat /\ Len(more) \in Nat
              /\ Len(all) = Len(work) + Len(more)
              /\ \A k \in 1 .. Len(more) : all[Len(work) + k] = more[k]
          BY <5>1, <5>2
        <5> HIDE DEF all, work, more
        <5>4. Len(work) + i \in 1 .. Len(all) /\ all[Len(work) + i] = c
          BY <4>5, <5>3
        <5>5. QED
          BY <5>4
      <4>7. QED
        BY <4>6 DEF all
    <3>2. CASE ~\E j \in 1 .. Len(prog[g].pred[c]) : prog[g].pred[c][j] = b
      <4>1. ~Settled(prog, allResults, Top, c)
        BY <2>1, <2>6, <2>7, <3>2, SettledStays
      <4> DEFINE more == Successors(g, b)
                 work == Top.work
                 all  == frame.work
      <4>2. PICK j \in 1 .. Len(work) : work[j] = c
        BY <1>2, <4>1 DEF FrameSolved, WorkSettled
      <4>3. more \in Seq(Blocks(prog, g)) /\ work \in Seq(Blocks(prog, g))
            /\ all = work \o more /\ j \in Nat
        BY <2>1, <2>8
      <4> HIDE DEF more, work, all
      <4>4. \E k \in 1 .. Len(all) : all[k] = c
        BY <4>2, <4>3, WorkAppended
      <4>5. QED
        BY <4>4 DEF all
    <3>3. QED
      BY <3>1, <3>2
  <2>10. FrameSolved(prog, f, allResults', frame)
    BY <2>1, <2>9 DEF FrameSolved, ExitKnown, StateRuns
  <2>11. CallFree(prog, g, b) => BlockSolved(prog, f, allResults', ctx, g, b)
    BY <1>5, <2>3, <2>4 DEF BlockSolved
  <2>12. TopWrites(frame)
    BY <1>4, <2>1, <2>2 DEF TopWrites
  <2>13. QED
    BY <1>1, <2>1, <2>2, <2>10, <2>11, <2>12, TopStepSolved
<1>8. QED
  BY <1>6, <1>7
-----------------------------------------------------------------------------
(* The steps between statements *)

LEMMA RunsOn ==
  ASSUME NEW p, NEW f, NEW g, NEW b, NEW n \in Nat, NEW x, NEW y,
         Runs(p, f, g, b, n, x, y), NEW z,
         \A m : ReadyOK(p, f, m) /\ ManagerOK(p, f, m) =>
           z = ApplyTransfer(StmtKey(g, b, n + 1), p[g].elems[b][n + 1], y, m).state
  PROVE  Runs(p, f, g, b, n + 1, x, z)
<1>1. PICK h : /\ h[0] = x /\ h[n] = y
               /\ \A i \in 1 .. n : \A m :
                    ReadyOK(p, f, m) /\ ManagerOK(p, f, m) =>
                      h[i] = ApplyTransfer(StmtKey(g, b, i), p[g].elems[b][i],
                                           h[i-1], m).state
  BY DEF Runs
<1> DEFINE next == [k \in 0 .. n + 1 |-> IF k = n + 1 THEN z ELSE h[k]]
<1>2. next[n + 1] = z /\ \A k \in 0 .. n : next[k] = h[k]
  OBVIOUS
<1> HIDE DEF next
<1>3. next[0] = x
  BY <1>1, <1>2
<1>4. ASSUME NEW i \in 1 .. n + 1, NEW m, ReadyOK(p, f, m), ManagerOK(p, f, m)
      PROVE  next[i] = ApplyTransfer(StmtKey(g, b, i), p[g].elems[b][i],
                                     next[i-1], m).state
  <2>1. CASE i = n + 1
    <3>1. next[i] = z /\ next[i - 1] = y
      BY <1>1, <1>2, <2>1
    <3>2. QED
      BY <1>4, <2>1, <3>1
  <2>2. CASE i # n + 1
    <3>1. i \in 1 .. n /\ i - 1 \in 0 .. n /\ i \in 0 .. n
      BY <2>2
    <3>2. next[i] = h[i] /\ next[i - 1] = h[i - 1]
      BY <1>2, <3>1
    <3>3. h[i] = ApplyTransfer(StmtKey(g, b, i), p[g].elems[b][i], h[i-1], m).state
      BY <1>1, <1>4, <3>1
    <3>4. QED
      BY <3>2, <3>3
  <2>3. QED
    BY <2>1, <2>2
<1>5. QED
  BY <1>2, <1>3, <1>4 DEF Runs

\* What was settled stays so while nothing but the exit of the block being
\* analysed changes.
LEMMA WorkStays ==
  ASSUME NEW p, NEW all, NEW new, NEW frame, frame.pos > 0,
         \A b : EntryOf(new, frame.ctx, frame.fn, b) = EntryOf(all, frame.ctx, frame.fn, b),
         \A b : b # frame.block =>
           ExitOf(p, new, frame.ctx, frame.fn, b) = ExitOf(p, all, frame.ctx, frame.fn, b),
         NEW next, next.fn = frame.fn, next.ctx = frame.ctx,
         next.work = frame.work, next.block = frame.block, next.pos > 0,
         next.oldExit = frame.oldExit, WorkSettled(p, all, frame)
  PROVE  WorkSettled(p, new, next)
<1>1. \A q : ToldExit(p, new, next, q) = ToldExit(p, all, frame, q)
  BY DEF ToldExit
<1>2. \A b : Settled(p, all, frame, b) => Settled(p, new, next, b)
  BY <1>1, SettledStays
<1>3. QED
  BY <1>2 DEF WorkSettled

\* A statement is behind an invocation.
LEMMA FrameAdvancedSolved ==
  ASSUME NEW p, NEW f, NEW all, NEW new, NEW frame,
         FrameSolved(p, f, all, frame), IsGraph(p[frame.fn]),
         frame.block \in Blocks(p, frame.fn),
         frame.pos \in Positions(p, frame.fn, frame.block), frame.pos \in Nat \ {0},
         Len(p[frame.fn].elems[frame.block]) \in Nat,
         NEW next, next.fn = frame.fn, next.ctx = frame.ctx,
         next.work = frame.work, next.block = frame.block,
         next.pos = frame.pos + 1, next.oldExit = frame.oldExit,
         \/ new = all
         \/ new = AssignIn(all, frame.ctx,
                           StmtKey(frame.fn, frame.block, frame.pos), next.state),
         CallFree(p, frame.fn, frame.block) =>
           Runs(p, f, frame.fn, frame.block, frame.pos,
                EntryOf(all, frame.ctx, frame.fn, frame.block), next.state)
  PROVE  FrameSolved(p, f, new, next)
<1> DEFINE g     == frame.fn
           b     == frame.block
           ctx   == frame.ctx
           n     == Len(p[g].elems[b])
           state == next.state
           key   == StmtKey(g, b, frame.pos)
           exit  == ExitOf(p, all, ctx, g, b)
<1>1. /\ frame.pos > 0 /\ frame.pos <= n /\ frame.pos # n + 1 /\ next.pos > 0
      /\ next.pos - 1 = frame.pos /\ n # 0
  <2> DEFINE k == frame.pos
             j == next.pos
  <2>1. k \in 1 .. n /\ n \in Nat /\ j = k + 1
    BY DEF Positions
  <2> HIDE DEF k, j, n
  <2>2. k > 0 /\ k <= n /\ k # n + 1 /\ j > 0 /\ j - 1 = k /\ n # 0
    BY <2>1
  <2>3. QED
    BY <2>2 DEF k, j
<1>2. exit = frame.oldExit
  BY <1>1 DEF FrameSolved, ExitKnown
<1>3. EndKey(p, g, b) = StmtKey(g, b, n)
  <2>1. p[g].elems[b] # <<>>
    BY <1>1
  <2>2. b \notin {p[g].last, 0}
    BY <2>1 DEF IsGraph, Blocks
  <2>3. QED
    BY <2>2 DEF EndKey
<1>4. OfBlock(g, b, key) /\ key # BlockKey(g, b)
  BY KeysDiffer DEF OfBlock
<1>5. /\ \A d : EntryOf(new, ctx, g, d) = EntryOf(all, ctx, g, d)
      /\ \A d : d # b => ExitOf(p, new, ctx, g, d) = ExitOf(p, all, ctx, g, d)
      /\ \/ ExitOf(p, new, ctx, g, b) = exit
         \/ ExitOf(p, new, ctx, g, b) = state /\ frame.pos = n
  <2>1. CASE new = all
    BY <2>1
  <2>2. CASE new = AssignIn(all, ctx, key, state)
    <3>1. EndKey(p, g, b) = key => frame.pos = n
      BY <1>3 DEF StmtKey
    <3> HIDE DEF state, key
    <3>2. \A k : StateAt(ResultsOf(new, ctx), k) =
                   IF k = key THEN state ELSE StateAt(ResultsOf(all, ctx), k)
      BY <2>2, StoredAfter
    <3>3. EntryOf(new, ctx, g, b) = EntryOf(all, ctx, g, b)
      BY <1>4, <3>2 DEF EntryOf
    <3>4. \A d : d # b =>
            /\ EntryOf(new, ctx, g, d) = EntryOf(all, ctx, g, d)
            /\ ExitOf(p, new, ctx, g, d) = ExitOf(p, all, ctx, g, d)
      BY <1>4, <2>2, OtherBlocks
    <3>5. \/ ExitOf(p, new, ctx, g, b) = exit
          \/ ExitOf(p, new, ctx, g, b) = state /\ frame.pos = n
      BY <3>1, <3>2 DEF ExitOf
    <3>6. QED
      BY <3>3, <3>4, <3>5
  <2>3. QED
    BY <2>1, <2>2
<1>6. WorkSettled(p, new, next)
  BY <1>1, <1>5, WorkStays DEF FrameSolved
<1>7. ExitKnown(p, new, next)
  BY <1>1, <1>2, <1>5 DEF ExitKnown
<1>8. StateRuns(p, f, new, next)
  BY <1>1, <1>5 DEF StateRuns
<1>9. QED
  BY <1>6, <1>7, <1>8 DEF FrameSolved

\* A statement is behind the innermost invocation.
LEMMA AdvancedSolved ==
  ASSUME Promises, CoverPromises, SolutionPromises, Solved, InStmts,
         NEW frame, stack' = SetTop(frame),
         frame.fn = Top.fn, frame.ctx = Top.ctx, frame.work = Top.work,
         frame.block = Top.block, frame.pos = Top.pos + 1,
         frame.oldExit = Top.oldExit,
         CallFree(prog, Top.fn, Top.block) =>
           Runs(prog, topFunction, Top.fn, Top.block, Top.pos,
                EntryOf(allResults, Top.ctx, Top.fn, Top.block), frame.state),
         UNCHANGED <<prog, topFunction>>,
         \/ allResults' = allResults
         \/ allResults' = AssignIn(allResults, Top.ctx, CurrentKey(Top), frame.state)
  PROVE  IsSolved(prog, topFunction, allResults, stack)'
<1>1. /\ stack # <<>> /\ Top.pos \in Positions(prog, Top.fn, Top.block)
      /\ Top.pos \in Nat \ {0} /\ Len(prog[Top.fn].elems[Top.block]) \in Nat
      /\ Top.block \in Blocks(prog, Top.fn)
  BY StmtFacts DEF Solved
<1>2. FrameSolved(prog, topFunction, allResults, Top) /\ IsGraph(prog[Top.fn])
  BY <1>1, TopSolved
<1>3. FrameSolved(prog, topFunction, allResults', frame)
  BY <1>1, <1>2, FrameAdvancedSolved DEF CurrentKey
<1>4. TopWrites(frame) /\ frame.pos > 0
  BY <1>1 DEF TopWrites, OfBlock, CurrentKey
<1>5. QED
  BY <1>1, <1>3, <1>4, TopStepSolved

LEMMA TransferStmtSolved ==
  ASSUME Promises, CoverPromises, SolutionPromises, Solved, TransferStmt
  PROVE  IsSolved(prog, topFunction, allResults, stack)'
<1> DEFINE f     == topFunction
           key   == CurrentKey(Top)
           s     == CurrentStmt(Top)
           r     == ApplyTransfer(key, s, Top.state, manager)
           frame == [Advance(Top) EXCEPT !.state = r.state]
           entry == EntryOf(allResults, Top.ctx, Top.fn, Top.block)
<1>1. /\ InStmts /\ ~IsAnalyzedCall(s)
      /\ UNCHANGED <<prog, topFunction>> /\ stack' = SetTop(frame)
      /\ \/ allResults' = allResults
         \/ allResults' = AssignIn(allResults, Top.ctx, key, r.state)
  BY DEF TransferStmt
<1>2. /\ InUnit(prog, topFunction, Top.fn) /\ Top.fn \in DOMAIN prog
      /\ Top.block \in Blocks(prog, Top.fn) /\ stack # <<>>
      /\ Top.pos \in Positions(prog, Top.fn, Top.block)
      /\ Top.pos \in Nat \ {0}
      /\ s = prog[Top.fn].elems[Top.block][Top.pos]
      /\ Full(prog, f, Top.state)
      /\ FrameOK(prog, f, manager, Top)
  BY <1>1, StmtFacts DEF Solved
<1>3. \A m : ReadyOK(prog, f, m) /\ ManagerOK(prog, f, m) =>
        r.state = ApplyTransfer(key, s, Top.state, m).state
  <2>1. IsUnitStmt(prog, f, s)
    BY <1>2 DEF IsUnitStmt
  <2>2. key # <<>>
    BY DEF CurrentKey, StmtKey
  <2>3. ReadyOK(prog, f, manager) /\ ManagerOK(prog, f, manager)
    BY DEF Solved, Covered, AnalysisInv, StatesKept
  <2>4. StmtsAgree(prog, f)
    BY DEF SolutionPromises, Solved, Covered, UnitStarted, AnalysisInv, UnitKnown
  <2> DEFINE x == Top.state
  <2>5. Full(prog, f, x) /\ ~IsAnalyzedCall(s)
    BY <1>1, <1>2
  <2> HIDE DEF key, s, x
  <2>6. ASSUME NEW m, ReadyOK(prog, f, m), ManagerOK(prog, f, m)
        PROVE  ApplyTransfer(key, s, x, manager).state =
                 ApplyTransfer(key, s, x, m).state
    BY <2>1, <2>2, <2>3, <2>4, <2>5, <2>6 DEF StmtsAgree
  <2>7. QED
    BY <2>6 DEF x
<1> HIDE DEF r
<1>4. CallFree(prog, Top.fn, Top.block) =>
        Runs(prog, f, Top.fn, Top.block, Top.pos, entry, r.state)
  <2> SUFFICES ASSUME CallFree(prog, Top.fn, Top.block)
               PROVE  Runs(prog, f, Top.fn, Top.block, Top.pos, entry, r.state)
    OBVIOUS
  <2> DEFINE n == Top.pos - 1
             z == r.state
             y == Top.state
             g == Top.fn
             b == Top.block
  <2>1. FrameSolved(prog, f, allResults, Top) /\ n \in Nat /\ n + 1 = Top.pos
    BY <1>2, TopSolved
  <2>2. Runs(prog, f, g, b, n, entry, y)
    BY <1>2, <2>1 DEF FrameSolved, StateRuns
  <2>3. \A m : ReadyOK(prog, f, m) /\ ManagerOK(prog, f, m) =>
          z = ApplyTransfer(StmtKey(g, b, n + 1), prog[g].elems[b][n + 1], y, m).state
    BY <1>2, <1>3, <2>1 DEF CurrentKey
  <2> HIDE DEF n, z, y, entry
  <2>4. Runs(prog, f, g, b, n + 1, entry, z)
    BY <2>1, <2>2, <2>3, RunsOn
  <2>5. QED
    BY <2>1, <2>4 DEF z
<1>5. /\ frame.fn = Top.fn /\ frame.ctx = Top.ctx /\ frame.work = Top.work
      /\ frame.block = Top.block /\ frame.pos = Top.pos + 1
      /\ frame.oldExit = Top.oldExit /\ frame.state = r.state
  BY <1>2 DEF FrameOK, Advance
<1> HIDE DEF frame
<1>6. QED
  BY <1>1, <1>4, <1>5, AdvancedSolved

LEMMA SkipCallSolved ==
  ASSUME Promises, CoverPromises, SolutionPromises, Solved, SkipCall
  PROVE  IsSolved(prog, topFunction, allResults, stack)'
<1> DEFINE frame == Advance(Top)
<1>1. /\ InStmts /\ IsAnalyzedCall(CurrentStmt(Top)) /\ stack' = SetTop(frame)
      /\ UNCHANGED <<prog, topFunction, allResults>>
  BY DEF SkipCall, InCall
<1>2. /\ CurrentStmt(Top) = prog[Top.fn].elems[Top.block][Top.pos]
      /\ Top.pos \in Positions(prog, Top.fn, Top.block)
      /\ FrameOK(prog, topFunction, manager, Top)
  BY <1>1, StmtFacts DEF Solved
<1>3. ~CallFree(prog, Top.fn, Top.block)
  BY <1>1, <1>2 DEF CallFree, IsCallAt
<1>4. /\ frame.fn = Top.fn /\ frame.ctx = Top.ctx /\ frame.work = Top.work
      /\ frame.block = Top.block /\ frame.pos = Top.pos + 1
      /\ frame.oldExit = Top.oldExit
  BY <1>2 DEF FrameOK, Advance
<1> HIDE DEF frame
<1>5. QED
  BY <1>1, <1>3, <1>4, AdvancedSolved
-----------------------------------------------------------------------------
(* Calls and returns *)

\* The caller goes on behind its call.
LEMMA ReturnToCallerSolved ==
  ASSUME Promises, CoverPromises, SolutionPromises, Solved, ReturnToCaller
  PROVE  IsSolved(prog, topFunction, allResults, stack)'
<1> DEFINE f      == topFunction
           depth  == Len(stack) - 1
           base   == Front(stack)
           caller == Last(Front(stack))
           exit   == StateAt(Results(Top), BlockKey(Top.fn, Exit))
           quiet  == Advance(caller)
           loud   == [quiet EXCEPT !.state = exit]
           key    == StmtKey(caller.fn, caller.block, caller.pos)
<1>1. /\ FunctionDone /\ Len(stack) > 1
      /\ UNCHANGED <<prog, topFunction>>
      /\ \/ /\ stack' = [base EXCEPT ![depth] = quiet] /\ allResults' = allResults
         \/ /\ stack' = [base EXCEPT ![depth] = loud]
            /\ allResults' = AssignIn(allResults, caller.ctx, key, exit)
  BY DEF ReturnToCaller, FunctionReturns, CurrentKey
<1>2. /\ Top.pos = 0 /\ Top = stack[Len(stack)] /\ Solved
      /\ IsCovered(prog, f, contextWork, allResults, stack)
  BY <1>1, ReturnFacts, TopFacts DEF Solved
<1>3. /\ stack \in Seq({stack[i] : i \in Calls}) /\ Calls = 1 .. Len(stack)
      /\ Len(stack) \in Nat
  BY StackFacts DEF Solved, Covered, AnalysisInv, EngineInv, StackIsSeq, Calls
<1>4. /\ depth \in Calls /\ base \in Seq({stack[i] : i \in Calls})
      /\ Len(base) = depth /\ \A i \in 1 .. depth : base[i] = stack[i]
  BY <1>1, <1>3 DEF Front
<1>5. caller = stack[depth] /\ caller = base[depth]
  <2>1. depth \in 1 .. depth
    BY <1>3, <1>4
  <2>2. caller = Front(stack)[Len(Front(stack))]
    BY DEF Last
  <2>3. QED
    BY <1>4, <2>1, <2>2
<1>6. /\ FrameOK(prog, f, manager, caller) /\ Waits(prog, f, allResults, caller)
      /\ FrameSolved(prog, f, allResults, caller) /\ IsGraph(prog[caller.fn])
  <2>1. depth \in 1 .. Len(stack) /\ depth \in 1 .. Len(stack) - 1
    BY <1>3, <1>4
  <2>2. FrameOK(prog, f, manager, stack[depth])
    BY <1>4 DEF Solved, Covered, AnalysisInv, StatesKept
  <2>3. IsGraph(prog[stack[depth].fn])
    BY <2>2, CoverPromised DEF FrameOK, Solved
  <2>4. QED
    BY <1>2, <1>5, <2>1, <2>2, <2>3 DEF IsCovered, Solved, IsSolved
<1>7. /\ caller.pos \in Positions(prog, caller.fn, caller.block)
      /\ caller.pos \in Nat \ {0} /\ caller.block \in Blocks(prog, caller.fn)
      /\ Len(prog[caller.fn].elems[caller.block]) \in Nat
      /\ ~CallFree(prog, caller.fn, caller.block)
  <2>1. Len(prog[caller.fn].elems[caller.block]) \in Nat
    BY <1>6 DEF IsGraph, FrameOK, Blocks
  <2>2. QED
    BY <1>6, <2>1 DEF FrameOK, Waits, Positions, CallFree
<1>8. PICK frame :
        /\ stack' = [base EXCEPT ![depth] = frame]
        /\ frame.fn = caller.fn /\ frame.ctx = caller.ctx
        /\ frame.work = caller.work /\ frame.block = caller.block
        /\ frame.pos = caller.pos + 1 /\ frame.oldExit = caller.oldExit
        /\ \/ allResults' = allResults
           \/ allResults' = AssignIn(allResults, caller.ctx, key, frame.state)
  <2> HIDE DEF caller, exit, key
  <2>1. /\ quiet.fn = caller.fn /\ quiet.ctx = caller.ctx
        /\ quiet.work = caller.work /\ quiet.block = caller.block
        /\ quiet.pos = caller.pos + 1 /\ quiet.oldExit = caller.oldExit
        /\ {"fn", "ctx", "work", "block", "pos", "state", "oldExit"}
             \subseteq DOMAIN quiet
    BY <1>6 DEF FrameOK, Advance
  <2> HIDE DEF quiet
  <2>2. /\ loud.fn = caller.fn /\ loud.ctx = caller.ctx
        /\ loud.work = caller.work /\ loud.block = caller.block
        /\ loud.pos = caller.pos + 1 /\ loud.oldExit = caller.oldExit
        /\ loud.state = exit
    BY <2>1
  <2> HIDE DEF loud
  <2>3. CASE stack' = [base EXCEPT ![depth] = quiet] /\ allResults' = allResults
    BY <2>1, <2>3
  <2>4. CASE /\ stack' = [base EXCEPT ![depth] = loud]
             /\ allResults' = AssignIn(allResults, caller.ctx, key, exit)
    BY <2>2, <2>4
  <2>5. QED
    BY <1>1, <2>3, <2>4
<1> HIDE DEF caller, exit, quiet, loud
<1>9. FrameSolved(prog, f, allResults', frame)
  BY <1>6, <1>7, <1>8, FrameAdvancedSolved DEF key
<1>10. /\ depth \in Nat \ {0} /\ Len(stack') = depth
       /\ \A i \in 1 .. depth : stack'[i] = IF i = depth THEN frame ELSE stack[i]
  <2>1. depth \in Nat \ {0}
    BY <1>3, <1>4
  <2> DEFINE old == {stack[i] : i \in Calls}
  <2>2. base \in Seq(old)
    BY <1>4
  <2> HIDE DEF base, old
  <2>3. Len(stack') = depth /\ \A i \in 1 .. depth :
          stack'[i] = IF i = depth THEN frame ELSE base[i]
    <3>1. Len(base) = depth /\ stack' = [base EXCEPT ![depth] = frame]
      BY <1>4, <1>8
    <3> HIDE DEF depth
    <3>2. QED
      BY <2>1, <2>2, <3>1
  <2>4. QED
    BY <1>4, <2>1, <2>3
<1>11. OfBlock(caller.fn, caller.block, key)
  BY DEF OfBlock, key
<1> HIDE DEF key
<1>12. ASSUME NEW i \in 1 .. depth
       PROVE  FrameSolved(prog, f, allResults', stack'[i])
  <2>1. CASE i = depth
    BY <1>9, <1>10, <2>1
  <2>2. CASE i # depth
    <3>1. i \in Calls
      BY <1>3, <1>4
    <3>2. stack[i].ctx # caller.ctx
      BY <1>4, <1>5, <2>2, <3>1, ContextsDistinct DEF Solved, Covered, AnalysisInv
    <3>3. ResultsOf(allResults', stack[i].ctx) = ResultsOf(allResults, stack[i].ctx)
      BY <1>8, <3>2, OthersKept
    <3>4. FrameSolved(prog, f, allResults, stack[i])
      BY <1>3, <3>1 DEF Solved, IsSolved
    <3>5. QED
      BY <1>10, <2>2, <3>3, <3>4, FrameSolvedStays
  <2>3. QED
    BY <2>1, <2>2
<1>13. ASSUME NEW c, NEW h \in DOMAIN prog, NEW d \in Blocks(prog, h),
              Seen(allResults', c, h, d), CallFree(prog, h, d),
              ~BlockSolved(prog, f, allResults', c, h, d)
       PROVE  InProgress(stack', c, h, d)
  <2>1. ~(c = caller.ctx /\ h = caller.fn /\ d = caller.block)
    BY <1>7, <1>13
  <2>2. /\ Seen(allResults, c, h, d)
        /\ EntryOf(allResults', c, h, d) = EntryOf(allResults, c, h, d)
        /\ ExitOf(prog, allResults', c, h, d) = ExitOf(prog, allResults, c, h, d)
    BY <1>8, <1>11, <1>13, <2>1, OtherBlocks
  <2>3. InProgress(stack, c, h, d)
    BY <1>13, <2>2 DEF Solved, IsSolved, BlocksSolved, BlockSolved
  <2>4. PICK i \in 1 .. Len(stack) : /\ stack[i].ctx = c /\ stack[i].fn = h
                                     /\ stack[i].block = d /\ stack[i].pos > 0
    BY <2>3 DEF InProgress
  <2>5. i # Len(stack) /\ i # depth
    <3>1. i # Len(stack)
      BY <1>2, <2>4
    <3>2. i # depth
      BY <1>5, <2>1, <2>4
    <3>3. QED
      BY <3>1, <3>2
  <2>6. i \in 1 .. Len(stack') /\ stack'[i] = stack[i]
    BY <1>3, <1>10, <2>5
  <2>7. QED
    BY <2>4, <2>6 DEF InProgress
<1>14. BlocksSolved(prog, f, allResults', stack')
  BY <1>13 DEF BlocksSolved
<1>15. QED
  BY <1>1, <1>10, <1>12, <1>14 DEF IsSolved

LEMMA ReturnToTopSolved ==
  ASSUME Promises, CoverPromises, SolutionPromises, Solved, ReturnToTop
  PROVE  IsSolved(prog, topFunction, allResults, stack)'
<1>1. /\ FunctionDone /\ Len(stack) = 1 /\ stack' = <<>>
      /\ UNCHANGED <<prog, topFunction, allResults>>
  BY DEF ReturnToTop, FunctionReturns
<1>2. Top = stack[1] /\ Top.pos = 0
  BY <1>1, ReturnFacts, TopFacts DEF Solved
<1>3. \A c, h, d : ~InProgress(stack, c, h, d)
  BY <1>1, <1>2 DEF InProgress
<1>4. BlocksSolved(prog, topFunction, allResults, <<>>)
  BY <1>3 DEF Solved, IsSolved, BlocksSolved
<1>5. QED
  BY <1>1, <1>4 DEF IsSolved

\* A function is invoked in a context of none that waits.
LEMMA InvokeSolved ==
  ASSUME Promises, CoverPromises, SolutionPromises, Solved,
         NEW g \in DOMAIN prog, NEW ctx, NEW all, Invoke(g, ctx, stack, all),
         \A c, h, d : /\ Seen(all, c, h, d) <=> Seen(allResults, c, h, d)
                      /\ EntryOf(all, c, h, d) = EntryOf(allResults, c, h, d)
                      /\ ExitOf(prog, all, c, h, d) = ExitOf(prog, allResults, c, h, d),
         \A i \in Calls : /\ stack[i].ctx # ctx
                          /\ ResultsOf(all, stack[i].ctx) =
                               ResultsOf(allResults, stack[i].ctx),
         UNCHANGED <<prog, topFunction>>
  PROVE  IsSolved(prog, topFunction, allResults, stack)'
<1> DEFINE f     == topFunction
           n     == Len(stack)
           last  == prog[g].last
           key   == BlockKey(g, last)
           state == EntryState(ResultsOf(all, ctx), g)
           frame == Frame(g, ctx, ResultsOf(allResults, ctx))
<1>1. allResults' = AssignIn(all, ctx, key, state) /\ stack' = Append(stack, frame)
  BY DEF Invoke, Entry
<1>2. /\ frame.fn = g /\ frame.ctx = ctx /\ frame.pos = 0
      /\ frame.work = [b \in 1 .. last + 1 |-> b - 1]
  BY DEF Frame, Entry
<1>3. /\ IsGraph(prog[g]) /\ last \in Nat /\ Len(prog[g].elems[last]) = 0
      /\ EndKey(prog, g, last) = key
  <2>1. IsGraph(prog[g])
    BY CoverPromised DEF Solved
  <2>2. last \in Nat /\ prog[g].elems[last] = <<>>
    BY <2>1 DEF IsGraph
  <2>3. QED
    BY <2>1, <2>2 DEF EndKey
<1> HIDE DEF frame, state
<1>4. /\ n \in Nat /\ Calls = 1 .. n /\ Len(stack') = n + 1
      /\ \A i \in 1 .. n : stack'[i] = stack[i]
      /\ stack'[n + 1] = frame
  <2>1. stack \in Seq({stack[i] : i \in Calls} \cup {frame}) /\ n \in Nat
    BY StackFacts DEF Solved, Covered, AnalysisInv, EngineInv, StackIsSeq
  <2>2. QED
    BY <1>1, <2>1 DEF Calls
<1>5. OfBlock(g, last, key)
  BY DEF OfBlock
<1>6. BlockSolved(prog, f, allResults', ctx, g, last)
  <2>1. EntryOf(allResults', ctx, g, last) = state
    BY <1>1, StoredAfter DEF EntryOf
  <2>2. ExitOf(prog, allResults', ctx, g, last) = state
    BY <1>1, <1>3, StoredAfter DEF ExitOf
  <2>3. Runs(prog, f, g, last, 0, state, state)
    BY NoRun
  <2>4. QED
    BY <1>3, <2>1, <2>2, <2>3 DEF BlockSolved
<1> HIDE DEF key, last
<1>7. FrameSolved(prog, f, allResults', frame)
  <2>1. ASSUME NEW b \in Blocks(prog, g)
        PROVE  \E j \in 1 .. Len(frame.work) : frame.work[j] = b
    <3>1. Len(frame.work) = last + 1 /\ b + 1 \in 1 .. last + 1
      BY <1>2, <1>3 DEF Blocks, last
    <3>2. frame.work[b + 1] = b
      BY <1>2, <3>1 DEF Blocks
    <3>3. QED
      BY <3>1, <3>2
  <2>2. WorkSettled(prog, allResults', frame)
    BY <1>2, <2>1 DEF WorkSettled
  <2>3. QED
    BY <1>2, <2>2 DEF FrameSolved, ExitKnown, StateRuns
<1>8. ASSUME NEW i \in 1 .. n + 1
      PROVE  FrameSolved(prog, f, allResults', stack'[i])
  <2>1. CASE i = n + 1
    BY <1>4, <1>7, <2>1
  <2>2. CASE i # n + 1
    <3>1. i \in Calls /\ i \in 1 .. n
      BY <1>4, <2>2
    <3>2. ResultsOf(allResults', stack[i].ctx) = ResultsOf(allResults, stack[i].ctx)
      BY <1>1, <3>1, OthersKept
    <3>3. FrameSolved(prog, f, allResults, stack[i])
      BY <3>1 DEF Solved, IsSolved
    <3>4. QED
      BY <1>4, <3>1, <3>2, <3>3, FrameSolvedStays
  <2>3. QED
    BY <2>1, <2>2
<1>9. ASSUME NEW c, NEW h \in DOMAIN prog, NEW d \in Blocks(prog, h),
             Seen(allResults', c, h, d), CallFree(prog, h, d),
             ~BlockSolved(prog, f, allResults', c, h, d)
      PROVE  InProgress(stack', c, h, d)
  <2>1. ~(c = ctx /\ h = g /\ d = last)
    BY <1>6, <1>9
  <2>2. /\ Seen(all, c, h, d)
        /\ EntryOf(allResults', c, h, d) = EntryOf(all, c, h, d)
        /\ ExitOf(prog, allResults', c, h, d) = ExitOf(prog, all, c, h, d)
    BY <1>1, <1>5, <1>9, <2>1, OtherBlocks
  <2>3. /\ Seen(allResults, c, h, d)
        /\ EntryOf(allResults', c, h, d) = EntryOf(allResults, c, h, d)
        /\ ExitOf(prog, allResults', c, h, d) = ExitOf(prog, allResults, c, h, d)
    BY <2>2
  <2>4. InProgress(stack, c, h, d)
    BY <1>9, <2>3 DEF Solved, IsSolved, BlocksSolved, BlockSolved
  <2>5. PICK i \in 1 .. n : /\ stack[i].ctx = c /\ stack[i].fn = h
                            /\ stack[i].block = d /\ stack[i].pos > 0
    BY <2>4 DEF InProgress
  <2>6. i \in 1 .. Len(stack') /\ stack'[i] = stack[i]
    BY <1>4
  <2>7. QED
    BY <2>5, <2>6 DEF InProgress
<1>10. BlocksSolved(prog, f, allResults', stack')
  BY <1>9 DEF BlocksSolved
<1>11. QED
  BY <1>4, <1>8, <1>10 DEF IsSolved

LEMMA EnterCallSolved ==
  ASSUME Promises, CoverPromises, SolutionPromises, Solved, EnterCall
  PROVE  IsSolved(prog, topFunction, allResults, stack)'
<1> DEFINE ctx == CalleeContext
           all == AssignIn(allResults, ctx, FunctionKey(Callee), Top.state)
<1>1. /\ Callee \in DOMAIN prog /\ Invoke(Callee, ctx, stack, all)
      /\ UNCHANGED <<prog, topFunction>>
  BY DEF EnterCall
<1>2. \A i \in Calls : stack[i].ctx # ctx
  BY CalleeContextIsNew DEF Solved, Covered, AnalysisInv
<1> HIDE DEF ctx
<1>3. \A i \in Calls : ResultsOf(all, stack[i].ctx) = ResultsOf(allResults, stack[i].ctx)
  BY <1>2, OthersKept
<1>4. \A c, k : (\A h : k # FunctionKey(h)) =>
        /\ Stored(all, c, k) <=> Stored(allResults, c, k)
        /\ StateAt(ResultsOf(all, c), k) = StateAt(ResultsOf(allResults, c), k)
  BY StoredAfter
<1> HIDE DEF all
<1>5. \A c, h, d : /\ Seen(all, c, h, d) <=> Seen(allResults, c, h, d)
                   /\ EntryOf(all, c, h, d) = EntryOf(allResults, c, h, d)
                   /\ ExitOf(prog, all, c, h, d) = ExitOf(prog, allResults, c, h, d)
  <2>1. \A h, d, k : BlockKey(h, d) # FunctionKey(k) /\ EndKey(prog, h, d) # FunctionKey(k)
    BY KeysDiffer, EndKeyFacts
  <2>2. QED
    BY <1>4, <2>1 DEF Seen, EntryOf, ExitOf
<1>6. QED
  BY <1>1, <1>2, <1>3, <1>5, InvokeSolved

LEMMA PopContextSolved ==
  ASSUME Promises, CoverPromises, SolutionPromises, Solved, PopContext
  PROVE  IsSolved(prog, topFunction, allResults, stack)'
<1>1. stack = <<>> /\ contextWork = <<<<topFunction, TopContext>>>>
  BY DEF Solved, Covered, AnalysisInv, EngineInv, WorkIsUnit, PopContext
<1>2. /\ Invoke(topFunction, TopContext, stack, allResults)
      /\ UNCHANGED <<prog, topFunction>>
  BY <1>1 DEF PopContext, Last
<1>3. topFunction \in DOMAIN prog
  BY DEF Solved, Covered, AnalysisInv, UnitKnown
<1>4. Calls = {}
  BY <1>1 DEF Calls
<1>5. QED
  BY <1>2, <1>3, <1>4, InvokeSolved

-----------------------------------------------------------------------------
(* The invariant holds *)

LEMMA NothingSolved ==
  ASSUME NEW p, NEW f
  PROVE  IsSolved(p, f, [c \in {} |-> EmptyResults], <<>>)
<1> DEFINE all == [c \in {} |-> EmptyResults]
<1>1. \A c, h, d : ~Seen(all, c, h, d)
  BY DEF Seen, Stored, ResultsOf, EmptyResults
<1> HIDE DEF all
<1>2. BlocksSolved(p, f, all, <<>>)
  BY <1>1 DEF BlocksSolved
<1>3. Len(<<>>) = 0
  OBVIOUS
<1>4. QED
  BY <1>2, <1>3 DEF IsSolved, all

LEMMA SolveInitial == AnalyzerInit => SolveInv
BY DEF AnalyzerInit, SolveInv

LEMMA StepSolved ==
  ASSUME Promises, CoverPromises, SolutionPromises, AnalysisInv, CoverInv,
         SolveInv, InOrder(prog), Step, status' = "running"
  PROVE  IsSolved(prog, topFunction, allResults, stack)'
<1>1. status = "running" /\ UNCHANGED <<prog, topFunction>>
  BY DEF Step, PopContext, DumpResults, SkipBlock, EnterBlock, NextBlock,
         FinishBlock, AtBlockEnd, TransferStmt, CallWithoutBody, SkipCall,
         EnterCall, InCall, ReturnToTop, ReturnToCaller, FunctionReturns,
         FunctionDone, Abort, MergeFails, ComparisonFails, InBlocks, InStmts,
         Running
<1>2. Solved
  BY <1>1 DEF Solved, Covered, CoverInv, CoverKnown, SolveInv
<1>3. ~(Abort \/ CallWithoutBody \/ DumpResults)
  BY DEF Abort, CallWithoutBody, DumpResults
<1>4. QED
  BY <1>2, <1>3, PopContextSolved, SkipBlockSolved, EnterBlockSolved,
     FinishBlockSolved, TransferStmtSolved, SkipCallSolved, EnterCallSolved,
     ReturnToTopSolved, ReturnToCallerSolved DEF Step

LEMMA SolveStep ==
  /\ Promises /\ CoverPromises /\ SolutionPromises
  /\ AnalysisInv /\ CoverInv /\ SolveInv
  /\ [AnalyzerNext]_analyzerVars
  => SolveInv'
<1> SUFFICES ASSUME Promises, CoverPromises, SolutionPromises, AnalysisInv,
                    CoverInv, SolveInv, InOrder(prog)', status' = "running",
                    [AnalyzerNext]_analyzerVars
             PROVE  IsSolved(prog, topFunction, allResults, stack)'
  BY DEF SolveInv
<1>0. InOrder(prog)
  <2>1. prog' = prog
    BY ProgramFixed
  <2>2. QED
    BY <2>1
<1>1. CASE ParseTUD
  BY <1>1 DEF ParseTUD
<1>2. CASE \E f \in unitsLeft : StartUnit(f)
  <2>1. /\ stack' = <<>> /\ allResults' = [c \in {} |-> EmptyResults]
    BY <1>2 DEF StartUnit
  <2>2. QED
    BY <2>1, NothingSolved
<1>3. CASE Step
  BY <1>0, <1>3, StepSolved
<1>4. CASE UNCHANGED analyzerVars
  BY <1>0, <1>4 DEF analyzerVars, vars, SolveInv
<1>5. QED
  BY <1>1, <1>2, <1>3, <1>4 DEF AnalyzerNext, AnalyzerStep

LEMMA Solving ==
  ASSUME Promises, CoverPromises, SolutionPromises
  PROVE  AnalyzerSpec => [](AnalysisInv /\ CoverInv /\ SolveInv)
<1>1. AnalyzerInit => AnalysisInv /\ CoverInv /\ SolveInv
  BY AnalysisInitial, CoverInitial, SolveInitial
<1>2. AnalysisInv /\ CoverInv /\ SolveInv /\ [AnalyzerNext]_analyzerVars =>
        AnalysisInv' /\ CoverInv' /\ SolveInv'
  BY AnalysisStep, CoverStep, SolveStep
<1>3. QED
  BY <1>1, <1>2, PTL DEF AnalyzerSpec
-----------------------------------------------------------------------------
(* What an invocation leaves when it returns *)

\* One more merge into an entry that is settled makes the same of it.
LEMMA MergedAgain ==
  ASSUME NEW z, NEW src, NEW n \in Nat, IsMerge(z, src, n),
         NEW x, x = src[0],
         NEW s, DOMAIN s = 1 .. n, \A i \in 1 .. n : s[i] = src[i], Absorbs(x, s)
  PROVE  Normal(z) = Normal(x)
<1>1. /\ \A v \in DOMAIN z : \E i \in 0 .. n : v \in DOMAIN src[i]
      /\ \A i \in 0 .. n : \A v \in DOMAIN src[i] :
           /\ v \in DOMAIN z
           /\ (\A j \in i + 1 .. n : v \notin DOMAIN src[j]) =>
                NormOf(z[v]) = NormOf(src[i][v])
  BY DEF IsMerge
<1>2. \A i \in 1 .. n : \A v \in DOMAIN s[i] :
        /\ v \in DOMAIN x
        /\ (\A j \in 1 .. n : j > i => v \notin DOMAIN s[j]) =>
             NormOf(x[v]) = NormOf(s[i][v])
  BY DEF Absorbs
<1>3. DOMAIN z \subseteq DOMAIN x
  <2> SUFFICES ASSUME NEW v \in DOMAIN z PROVE v \in DOMAIN x
    OBVIOUS
  <2>1. PICK i \in 0 .. n : v \in DOMAIN src[i]
    BY <1>1
  <2>2. CASE i = 0
    BY <2>1, <2>2
  <2>3. CASE i # 0
    <3>1. i \in 1 .. n /\ v \in DOMAIN s[i]
      BY <2>1, <2>3
    <3>2. QED
      BY <1>2, <3>1
  <2>4. QED
    BY <2>2, <2>3
<1>4. 0 \in 0 .. n
  OBVIOUS
<1>5. DOMAIN x \subseteq DOMAIN z
  BY <1>1, <1>4
<1>6. ASSUME NEW v \in DOMAIN x
      PROVE  NormOf(z[v]) = NormOf(x[v])
  <2> DEFINE Behind == {k \in Nat : k <= n /\ v \in DOMAIN src[n - k]}
  <2>1. n - n = 0 /\ n \in Behind
    OBVIOUS
  <2>2. PICK k \in Behind : \A m \in Behind : k <= m
    <3>1. Behind \in SUBSET Nat /\ Behind # {}
      BY <2>1
    <3> HIDE DEF Behind
    <3>2. QED
      BY <3>1, Smallest
  <2>3. PICK i \in 0 .. n : i = n - k
    OBVIOUS
  <2>4. v \in DOMAIN src[i]
    BY <2>2, <2>3
  <2>5. ASSUME NEW j \in i + 1 .. n PROVE v \notin DOMAIN src[j]
    <3>1. n - j \in Nat /\ n - j <= n /\ ~(k <= n - j) /\ n - (n - j) = j
      BY <2>3
    <3>2. n - j \notin Behind
      BY <2>2, <3>1
    <3>3. QED
      BY <3>1, <3>2
  <2>6. NormOf(z[v]) = NormOf(src[i][v])
    BY <1>1, <2>4, <2>5
  <2>7. CASE i = 0
    BY <2>6, <2>7
  <2>8. CASE i # 0
    <3>1. i \in 1 .. n /\ s[i] = src[i]
      BY <2>8
    <3>2. \A j \in 1 .. n : j > i => j \in i + 1 .. n /\ s[j] = src[j]
      BY <2>3
    <3>3. NormOf(x[v]) = NormOf(s[i][v])
      BY <1>2, <2>4, <2>5, <3>1, <3>2
    <3>4. QED
      BY <2>6, <3>1, <3>3
  <2>9. QED
    BY <2>7, <2>8
<1>7. DOMAIN z = DOMAIN x
  BY <1>3, <1>5
<1>8. \A v \in DOMAIN x : LatMeet(z[v], z[v]) = LatMeet(x[v], x[v])
  BY <1>6 DEF NormOf
<1>9. QED
  BY <1>7, <1>8 DEF Normal

\* The recursive function of Through
ThroughUpTo(f, b, n, state, after) ==
  [i \in 0 .. n |->
     IF i = 0 THEN state
     ELSE ApplyTransfer(StmtKey(f, b, i), Elements(f, b)[i], after[i-1],
                        manager).state]

LEMMA ThroughUnfold ==
  ASSUME NEW f, NEW b, NEW state, NEW n, n = Len(Elements(f, b))
  PROVE  Through(f, b, state) =
           (CHOOSE after : after = ThroughUpTo(f, b, n, state, after))[n]
BY DEF Through, ThroughUpTo

LEMMA RunsThrough ==
  ASSUME NEW g, NEW b, NEW x, NEW y,
         ReadyOK(prog, topFunction, manager), ManagerOK(prog, topFunction, manager),
         NEW n \in Nat, n = Len(prog[g].elems[b]),
         Runs(prog, topFunction, g, b, n, x, y)
  PROVE  y = Through(g, b, x)
<1> DEFINE after == CHOOSE a : a = ThroughUpTo(g, b, n, x, a)
<1>1. PICK h : /\ h[0] = x /\ h[n] = y
               /\ \A i \in 1 .. n :
                    h[i] = ApplyTransfer(StmtKey(g, b, i), prog[g].elems[b][i],
                                         h[i-1], manager).state
  BY DEF Runs
<1> DEFINE run == [i \in 0 .. n |-> h[i]]
<1>2. run = ThroughUpTo(g, b, n, x, run)
  <2>1. ASSUME NEW i \in 0 .. n
        PROVE  run[i] = IF i = 0 THEN x
                        ELSE ApplyTransfer(StmtKey(g, b, i), Elements(g, b)[i],
                                           run[i-1], manager).state
    <3>1. CASE i = 0
      BY <1>1, <3>1
    <3>2. CASE i # 0
      <4>1. i \in 1 .. n /\ i - 1 \in 0 .. n
        BY <3>2
      <4>2. run[i] = h[i] /\ run[i - 1] = h[i - 1]
        BY <4>1
      <4>3. QED
        BY <1>1, <3>2, <4>1, <4>2 DEF Elements
    <3>3. QED
      BY <3>1, <3>2
  <2>2. QED
    BY <2>1 DEF ThroughUpTo
<1> HIDE DEF run
<1>3. after = ThroughUpTo(g, b, n, x, after)
  BY <1>2
<1> HIDE DEF after
<1>4. /\ after[0] = x
      /\ \A i \in 1 .. n :
           after[i] = ApplyTransfer(StmtKey(g, b, i), prog[g].elems[b][i],
                                    after[i-1], manager).state
  <2>1. \A i \in 0 .. n :
          after[i] = IF i = 0 THEN x
                     ELSE ApplyTransfer(StmtKey(g, b, i), Elements(g, b)[i],
                                        after[i-1], manager).state
    BY <1>3 DEF ThroughUpTo
  <2>2. 0 \in 0 .. n /\ \A i \in 1 .. n : i \in 0 .. n /\ i # 0
    OBVIOUS
  <2>3. QED
    BY <2>1, <2>2 DEF Elements
<1> DEFINE Bad == {i \in 0 .. n : after[i] # h[i]}
<1>5. Bad = {}
  <2>1. SUFFICES ASSUME Bad # {} PROVE FALSE
    OBVIOUS
  <2>2. PICK k \in Bad : \A j \in Bad : k <= j
    <3>1. Bad \in SUBSET Nat
      OBVIOUS
    <3> HIDE DEF Bad
    <3>2. QED
      BY <2>1, <3>1, Smallest
  <2>3. k \in 0 .. n /\ after[k] # h[k]
    OBVIOUS
  <2>4. k \in 1 .. n /\ k - 1 \in 0 .. n /\ ~(k <= k - 1)
    BY <1>1, <1>4, <2>3
  <2>5. after[k - 1] = h[k - 1]
    BY <2>2, <2>4
  <2>6. QED
    BY <1>1, <1>4, <2>3, <2>4, <2>5
<1>6. after[n] = y
  BY <1>1, <1>5
<1>7. n = Len(Elements(g, b))
  BY DEF Elements
<1>8. Through(g, b, x) = (CHOOSE a : a = ThroughUpTo(g, b, n, x, a))[n]
  BY <1>7, ThroughUnfold
<1>9. QED
  BY <1>6, <1>8 DEF after

\* The equations, of a block of the innermost invocation
LEMMA EntrySolved ==
  ASSUME Promises, CoverPromises, SolutionPromises, Solved, FunctionDone,
         NEW b \in Blocks(prog, Top.fn)
  PROVE  Normal(MergePrevStates(Results(Top), Top.fn, b)) =
           Normal(StateAt(Results(Top), BlockKey(Top.fn, b)))
<1> DEFINE g       == Top.fn
           f       == topFunction
           results == ResultsOf(allResults, Top.ctx)
           n       == Len(Predecessors(g, b))
           merged  == MergePrevStates(results, g, b)
           src     == Sources(results, g, b)
           exits   == ToldExits(prog, allResults, Top, b)
           entry   == StateAt(results, BlockKey(g, b))
<1>1. stack # <<>> /\ Top.pos = 0 /\ Top.work = <<>>
  BY ReturnFacts DEF Solved
<1>2. n \in Nat
  <2>1. Predecessors(g, b) \in Seq(Blocks(prog, g))
    BY <1>1, TopBlocks DEF Solved, Covered
  <2>2. QED
    BY <2>1
<1>3. /\ SoundStart(prog, f) /\ StatesFull(prog, f, allResults)
      /\ MeetsDecide(prog, f)
  BY <1>1, CoverPromised, TopFacts
     DEF SolutionPromises, Solved, Covered, UnitStarted, AnalysisInv, UnitKnown
<1>4. IsMerge(merged, src, n)
  BY <1>2, <1>3, MergesSources
<1>5. /\ DOMAIN exits = 1 .. n /\ \A i \in 1 .. n : exits[i] = src[i]
      /\ entry = src[0]
  BY <1>1, <1>2, ExitIsEnd DEF ToldExits, ToldExit, Sources, ExitOf, Predecessors
<1>6. Absorbs(entry, exits)
  <2>1. FrameSolved(prog, f, allResults, Top)
    BY <1>1, TopSolved
  <2>2. Len(Top.work) = 0
    BY <1>1
  <2>3. Settled(prog, allResults, Top, b)
    BY <2>1, <2>2 DEF FrameSolved, WorkSettled
  <2>4. QED
    BY <2>3 DEF Settled, EntryOf
<1> HIDE DEF merged, src, exits, n, entry
<1>7. Normal(merged) = Normal(entry)
  BY <1>2, <1>4, <1>5, <1>6, MergedAgain
<1>8. QED
  BY <1>7 DEF merged, entry, Results

LEMMA ExitSolved ==
  ASSUME Promises, CoverPromises, SolutionPromises, Solved, FunctionDone,
         NEW b \in Blocks(prog, Top.fn), ~HasCall(Top.fn, b)
  PROVE  StateAt(Results(Top), ExitKey(Top.fn, b)) =
           Through(Top.fn, b, StateAt(Results(Top), BlockKey(Top.fn, b)))
<1> DEFINE g     == Top.fn
           f     == topFunction
           entry == EntryOf(allResults, Top.ctx, g, b)
           exit  == ExitOf(prog, allResults, Top.ctx, g, b)
           n     == Len(prog[g].elems[b])
<1>1. /\ stack # <<>> /\ Top.pos = 0 /\ AllSeen(prog, allResults, Top.ctx, g)
  BY ReturnFacts DEF Solved
<1>2. /\ Len(stack) \in Calls /\ Top = stack[Len(stack)]
      /\ g \in DOMAIN prog /\ IsGraph(prog[g])
      /\ BlocksSolved(prog, f, allResults, stack)
  BY <1>1, TopSolved DEF Calls
<1>3. ~InProgress(stack, Top.ctx, g, b)
  <2>1. SUFFICES ASSUME NEW i \in Calls, stack[i].ctx = Top.ctx, stack[i].pos > 0
                 PROVE  FALSE
    BY DEF InProgress, Calls
  <2>2. i = Len(stack)
    BY <1>2, <2>1, ContextsDistinct DEF Solved, Covered, AnalysisInv
  <2>3. QED
    BY <1>1, <1>2, <2>1, <2>2
<1>4. CallFree(prog, g, b)
  BY DEF HasCall, Elements, CallFree, Positions, IsCallAt
<1>5. BlockSolved(prog, f, allResults, Top.ctx, g, b)
  BY <1>1, <1>2, <1>3, <1>4 DEF BlocksSolved, AllSeen
<1>6. Runs(prog, f, g, b, n, entry, exit)
  BY <1>5 DEF BlockSolved
<1>7. n \in Nat
  <2>1. b \in 0 .. prog[g].last
    BY DEF Blocks
  <2> HIDE DEF g
  <2>2. prog[g].elems \in [0 .. prog[g].last -> Seq(Statement)]
    BY <1>2 DEF IsGraph
  <2>3. prog[g].elems[b] \in Seq(Statement)
    BY <2>1, <2>2
  <2>4. QED
    BY <2>3
<1>8. ReadyOK(prog, f, manager) /\ ManagerOK(prog, f, manager)
  BY DEF Solved, Covered, AnalysisInv, StatesKept
<1> DEFINE x == entry
           y == exit
<1> HIDE DEF n, x, y
<1>9. y = Through(g, b, x)
  BY <1>6, <1>7, <1>8, RunsThrough DEF n, x, y
<1>10. QED
  BY <1>9, ExitIsEnd DEF x, y, EntryOf, ExitOf, Results

(***************************************************************************)
(* When computeDataflow returns, one more merge of a block's predecessors  *)
(* changes the state the block was last entered with in no value, and what *)
(* is stored at its end is what its statements make of that state.         *)
(***************************************************************************)
THEOREM Solution ==
  ASSUME Promises, CoverPromises, SolutionPromises
  PROVE  AnalyzerSpec => [](InOrder(prog) => IsSolution)
<1>1. AnalysisInv /\ CoverInv /\ SolveInv => (InOrder(prog) => IsSolution)
  <2> SUFFICES ASSUME AnalysisInv, CoverInv, SolveInv, InOrder(prog), FunctionDone
               PROVE  IsSolution
    BY DEF IsSolution
  <2>1. status = "running"
    BY DEF FunctionDone, InBlocks, Running
  <2>2. Solved
    BY <2>1 DEF Solved, Covered, CoverInv, CoverKnown, SolveInv
  <2>3. 0 .. Entry(Top.fn) = Blocks(prog, Top.fn)
    BY DEF Entry, Blocks
  <2>4. ASSUME NEW b \in Blocks(prog, Top.fn)
        PROVE  /\ Normal(MergePrevStates(Results(Top), Top.fn, b)) =
                    Normal(StateAt(Results(Top), BlockKey(Top.fn, b)))
               /\ ~HasCall(Top.fn, b) =>
                    StateAt(Results(Top), ExitKey(Top.fn, b)) =
                      Through(Top.fn, b, StateAt(Results(Top), BlockKey(Top.fn, b)))
    BY <2>2, EntrySolved, ExitSolved
  <2>5. QED
    BY <2>3, <2>4 DEF IsSolution
<1>2. QED
  BY <1>1, Solving, PTL
=============================================================================
