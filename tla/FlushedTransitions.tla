------------------------- MODULE FlushedTransitions -------------------------
(***************************************************************************)
(* The flushed checker: its lattice, its transfer functions and its bug    *)
(* reporter (lib/flushedchecker/analyzer/*.h).  It reports a pointer that  *)
(* is stored in an annotated member before what it points to has been      *)
(* committed.                                                              *)
(*                                                                         *)
(*   state    the AbstractState, a map from pointers to lattice values;    *)
(*   manager  the active unit's variables and the bug reporter's tables.   *)
(***************************************************************************)
EXTENDS Naturals

CONSTANTS Field,    \* the members annotated FlushedPtr
          Pointer   \* the tracked variables: those some statement of the
                    \* program assigns to such a member

\* A member is a FieldDecl; a tracked variable is named by a DeclRefExpr.
ASSUME DeclAssumption == Field \cap Pointer = {}

-----------------------------------------------------------------------------
(* FlushedLattice.h: enum Dcl, ordered; the default constructor's is Unseen *)

Write  == 0
Flush  == 1
Pfence == 2
Unseen == 3

FlushedLattice == Write .. Unseen

GetInit == Unseen

\* meet is static here too: the value it is called on does not take part.
Meet(self, value) ==
  LET newValue == GetInit
  IN  IF value < newValue THEN value ELSE newValue

\* map[key], default constructed when it is missing
ValueOf(state, var) == IF var \in DOMAIN state THEN state[var] ELSE GetInit

Put(map, key, val) ==
  [k \in DOMAIN map \cup {key} |-> IF k = key THEN val ELSE map[k]]

-----------------------------------------------------------------------------
(* FlushedBugReporter.h *)

NullStmt == <<>>

\* initUnit starts from empty tables; the list of bugs is kept between units.
InitUnit(unitVars, bugs) ==
  [unitVars     |-> unitVars,
   lastLocation |-> [v \in {} |-> NullStmt],
   bugged       |-> {},
   bugs         |-> bugs]

UpdateLastLocation(manager, vars, S) ==
  [manager EXCEPT !.lastLocation =
     [v \in DOMAIN @ \cup vars |-> IF v \in vars THEN S ELSE @[v]]]

GetLastLocation(manager, var) ==
  IF var \in DOMAIN manager.lastLocation THEN manager.lastLocation[var]
                                         ELSE NullStmt

AddAsBug(manager, fieldStmt, trackedStmt, fieldVar, trackedVar) ==
  [manager EXCEPT !.bugs = @ \cup
     {[fieldStmt  |-> fieldStmt, trackedStmt |-> trackedStmt,
       fieldVar   |-> fieldVar,  trackedVar  |-> trackedVar]}]

\* A check that is content with a pointer that was flushed and not fenced.
CheckBugOfFlush(fieldVar, trackedVar, fieldStmt, state, manager) ==
  IF \/ fieldVar \in manager.bugged
     \/ ValueOf(state, trackedVar) \in {Flush, Pfence}
  THEN manager
  ELSE AddAsBug(manager, fieldStmt, GetLastLocation(manager, trackedVar),
                fieldVar, trackedVar)

\* A check that reports a member once.
CheckBugOnce(fieldVar, trackedVar, fieldStmt, state, manager) ==
  IF \/ fieldVar \in manager.bugged
     \/ ValueOf(state, trackedVar) = Pfence
  THEN manager
  ELSE [AddAsBug(manager, fieldStmt, GetLastLocation(manager, trackedVar),
                 fieldVar, trackedVar)
          EXCEPT !.bugged = @ \cup {fieldVar}]

\* Nothing inserts into bugged: every store of an uncommitted pointer counts.
CheckBug(fieldVar, trackedVar, fieldStmt, state, manager) ==
  IF \/ fieldVar \in manager.bugged
     \/ ValueOf(state, trackedVar) = Pfence
  THEN manager
  ELSE AddAsBug(manager, fieldStmt, GetLastLocation(manager, trackedVar),
                fieldVar, trackedVar)

-----------------------------------------------------------------------------
(* FlushedTransitions.h, FlushedStmtParser.h *)

Result(state, changed, manager) ==
  [state |-> state, changed |-> changed, manager |-> manager]

\* getFieldFTI takes the member and the pointer, and keeps the pointer twice.
GetFieldFTI(fieldVariable, trackedVariable) ==
  [fieldVariable |-> trackedVariable, trackedVariable |-> trackedVariable]

\* field = var: handleWrite reads the pointer for both.
HandleFieldWrite(S, TI, state, manager) ==
  LET fieldvar   == TI.trackedVariable
      trackedvar == TI.trackedVariable
  IN  Result(Put(state, trackedvar, ValueOf(state, trackedvar)), TRUE,
             CheckBug(fieldvar, trackedvar, S, state, manager))

\* An assignment to a committed pointer that leaves it committed
HandlePointerWriteKeep(S, var, state, manager) ==
  Result(Put(state, var,
             IF ValueOf(state, var) = Pfence THEN Pfence ELSE Write),
         TRUE, UpdateLastLocation(manager, {var}, S))

\* var = ...
HandlePointerWrite(S, var, state, manager) ==
  Result(Put(state, var, Write), TRUE, UpdateLastLocation(manager, {var}, S))

\* A fence that becomes the last location of every pointer
HandleFenceEverywhere(S, state, manager) ==
  Result([v \in DOMAIN state |-> IF state[v] = Flush THEN Pfence ELSE state[v]],
         TRUE, UpdateLastLocation(manager, DOMAIN state, S))

HandleFence(S, state, manager) ==
  LET flushed == {v \in DOMAIN state : state[v] = Flush}
  IN  Result([v \in DOMAIN state |->
                IF v \in flushed THEN Pfence ELSE state[v]],
             flushed # {}, UpdateLastLocation(manager, flushed, S))

\* A flush that never counts as fenced
HandleFlushUnfenced(S, isPfence, var, state, manager) ==
  Result(Put(state, var, Flush), TRUE, UpdateLastLocation(manager, {var}, S))

\* A flush of any kind is taken at its word, whatever the value was.
HandleFlush(S, isPfence, var, state, manager) ==
  Result(Put(state, var, IF isPfence THEN Pfence ELSE Flush), TRUE,
         UpdateLastLocation(manager, {var}, S))

(***************************************************************************)
(* A statement is a record with an op: the store of a variable in a        *)
(* member, an assignment to a variable, a call of one of the named         *)
(* functions, a call of an analysed function, or anything else.            *)
(***************************************************************************)
IsFieldWrite(s) == s.op = "store" /\ s.field \in Field /\ s.var \in Pointer
IsTracked(s) == s.op \in {"assign", "flush", "flushFence"} /\ s.var \in Pointer

HandleStmt(S, s, state, manager) ==
  CASE IsFieldWrite(s) ->
         HandleFieldWrite(S, GetFieldFTI(s.field, s.var), state, manager)
    [] IsTracked(s) /\ s.op = "assign" ->
         HandlePointerWrite(S, s.var, state, manager)
    [] IsTracked(s) /\ s.op # "assign" ->
         HandleFlush(S, s.op = "flushFence", s.var, state, manager)
    [] s.op = "pfence" -> HandleFence(S, state, manager)
    [] OTHER -> Result(state, FALSE, manager)

\* A unit that starts without values
InitLatticeValuesEmpty(manager) == [v \in {} |-> GetInit]

InitLatticeValues(manager) == [v \in manager.unitVars |-> GetInit]
=============================================================================
