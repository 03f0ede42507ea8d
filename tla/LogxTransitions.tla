-------------------------- MODULE LogxTransitions --------------------------
(***************************************************************************)
(* The earlier log checker, on clang's symbolic execution                  *)
(* (lib/logxchecker): the callbacks of LogChecker.cpp with the state       *)
(* machines of state_machine/*.h.                                          *)
(*                                                                         *)
(* A node is a ProgramState as the checker sees it, the LogMap and the     *)
(* TxCounter.  A callback turns the node of a path into its successors and *)
(* the bugs it reports; a path without a successor is not explored any     *)
(* further.                                                                *)
(***************************************************************************)
EXTENDS Integers

CONSTANT Width  \* the bits of an unsigned int

\* LogMap: the members mapped to Logged; nothing maps one to Init or Written.
LogMap(members) == [x \in members |-> "Logged"]

StartNode == [log |-> LogMap({}), tx |-> 0]

Step(reports, nodes) == [reports |-> reports, nodes |-> nodes]

(***************************************************************************)
(* StateInfo::report makes an error node, which ends the path, and reports *)
(* only if the node is new: the second report of one statement is dropped. *)
(***************************************************************************)
Report(found) ==
  IF "OutsideTx" \in found THEN {"OutsideTx"} ELSE found

IsMapped(x, node) == x \in DOMAIN node.log

-----------------------------------------------------------------------------
(* LogTransitions.h, TxTransitions.h *)

CheckTx(node) == IF node.tx < 1 THEN {"OutsideTx"} ELSE {}

WriteData(x, node) == IF IsMapped(x, node) THEN {} ELSE {"NotLogged"}

LogData(x, node) == IF IsMapped(x, node) THEN {"DoubleLog"} ELSE {}

SetLogged(x, node) ==
  [node EXCEPT !.log = LogMap(DOMAIN @ \cup {x})]

BegTx(node) == [node EXCEPT !.tx = (@ + 1) % 2^Width]

\* An end that stops at zero
EndTxFloor(node) == [node EXCEPT !.tx = IF @ = 0 THEN 0 ELSE @ - 1]

\* txCount is unsigned: below zero it wraps.
EndTx(node) == [node EXCEPT !.tx = (@ - 1) % 2^Width]

-----------------------------------------------------------------------------
(* LogChecker.cpp *)

\* useTxMode: transactions are checked if both functions are declared.
UseTxMode(txBegDeclared, txEndDeclared) == txBegDeclared /\ txEndDeclared

\* A top function that is not annotated LogCode is not explored.
CheckBeginFunction(isAnnotated, isTopFnc, node) ==
  Step({}, IF ~isAnnotated /\ isTopFnc THEN {} ELSE {node})

\* A bind that goes on after its report
CheckBindOn(x, useTx, node) ==
  Step(Report((IF useTx THEN CheckTx(node) ELSE {}) \cup WriteData(x, node)),
       {node})

\* An assignment to a member annotated log
CheckBind(x, useTx, node) ==
  LET found == (IF useTx THEN CheckTx(node) ELSE {}) \cup WriteData(x, node)
  IN  Step(Report(found), IF found = {} THEN {node} ELSE {})

\* The arguments a log function may be called with
MaxLogArgs == 2

(***************************************************************************)
(* A call with more arguments is fatal: nothing is reported or explored    *)
(* any further.  logData adds a transition for a member that is not logged *)
(* yet, from the node whose error node checkTx has just made: the path     *)
(* goes on after the report of a log outside of a transaction.             *)
(***************************************************************************)
HandleLog(x, numArgs, useTx, node) ==
  LET found == (IF useTx THEN CheckTx(node) ELSE {}) \cup LogData(x, node)
  IN  IF numArgs > MaxLogArgs THEN Step({}, {})
      ELSE Step(Report(found),
                IF IsMapped(x, node) THEN {} ELSE {SetLogged(x, node)})

HandleTxBeg(node) == Step({}, {BegTx(node)})

HandleTxEnd(node) == Step({}, {EndTx(node)})
=============================================================================
