-------------------------- MODULE PtrxTransitions --------------------------
(***************************************************************************)
(* The pointer checker on clang's symbolic execution (lib/ptrxchecker):    *)
(* the callbacks of PtrChecker.cpp with state_machine/Transitions.h.  It   *)
(* reports a pointer stored in an annotated member before what it points   *)
(* to has been flushed.                                                    *)
(*                                                                         *)
(* A node is a ProgramState as the checker sees it: the PtrSet, which      *)
(* holds the symbols whose memory is dirty.  Its other part,               *)
(* DerivedSymPtr, stays empty: no callback passes a structure by value.    *)
(* A callback turns a node into its successors and the symbols it          *)
(* reports; a path without a successor is not explored any further.        *)
(***************************************************************************)
EXTENDS Naturals

CONSTANTS Symbol,   \* the symbols of the regions pointers point to
          NoSymbol  \* a region that is not symbolic, or no region at all

StartNode == {}

Step(reports, nodes) == [reports |-> reports, nodes |-> nodes]

(***************************************************************************)
(* addNewState adds a transition only for a state that has changed.  An    *)
(* error node ends the path, but for a transition that comes after it.     *)
(***************************************************************************)
Successors(node, isError, new) ==
  IF isError /\ new = node THEN {} ELSE {new}

-----------------------------------------------------------------------------
(* Transitions.h *)

WritePtr(sym, node) == node \cup ({sym} \ {NoSymbol})

\* A flush that is not noticed
FlushPtrKeep(sym, node) == node

FlushPtr(sym, node) == node \ {sym}

(***************************************************************************)
(* The symbols one leads to: a pointer loaded from memory has the          *)
(* SymbolRegionValue of a region of another symbol, origin[sym].           *)
(***************************************************************************)
Roots(origin, sym) ==
  LET roots[s \in Symbol] ==
        {s} \cup (IF origin[s] = NoSymbol THEN {} ELSE roots[origin[s]])
  IN  roots[sym]

\* A pointer loaded from dirty memory counts as dirty too.
IsPtrWritten(sym, origin, node) ==
  sym # NoSymbol /\ Roots(origin, sym) \cap node # {}

-----------------------------------------------------------------------------
(* PtrChecker.cpp *)

\* A begin that makes no parameter dirty
CheckBeginFunctionClean(isSkipFnc, isTopFnc, params, node) ==
  IF isSkipFnc /\ isTopFnc THEN {} ELSE {node}

(***************************************************************************)
(* The parameters of a top function are made dirty one by one, each in the *)
(* state the function began with: the path splits, and no node of it knows *)
(* of two of them.                                                         *)
(***************************************************************************)
CheckBeginFunction(isSkipFnc, isTopFnc, params, node) ==
  LET dirtied == {WritePtr(p, node) : p \in params} \ {node}
  IN  IF isTopFnc /\ isSkipFnc THEN {}
      ELSE IF isTopFnc /\ dirtied # {} THEN dirtied ELSE {node}

(***************************************************************************)
(* loc and val are the top base regions of what is written and of the      *)
(* value.  A statement that allocates makes the value's memory dirty, and  *)
(* not the memory it writes.                                               *)
(***************************************************************************)
CheckBind(isUsedVar, loc, val, isAlloc, origin, node) ==
  LET isError == isUsedVar /\ IsPtrWritten(val, origin, node)
  IN  Step(IF isError THEN {val} ELSE {},
           Successors(node, isError,
                      WritePtr(IF isAlloc THEN val ELSE loc, node)))

\* The arguments a function that flushes and fences may be called with
MaxFlushArgs == 3

(***************************************************************************)
(* Only functions that flush and fence are known.  A call of one with more *)
(* arguments is fatal: no path is explored any further.                    *)
(***************************************************************************)
HandleFlushFenceFnc(loc, numArgs, node) ==
  Step({}, IF numArgs > MaxFlushArgs THEN {}
           ELSE Successors(node, FALSE, FlushPtr(loc, node)))

(***************************************************************************)
(* A condition that mentions use_nvm is assumed to hold: a path on which   *)
(* it does not is not explored.                                            *)
(***************************************************************************)
CheckBranchCondition(usesNvm, holds, node) ==
  Step({}, IF usesNvm /\ ~holds THEN {} ELSE {node})
=============================================================================
