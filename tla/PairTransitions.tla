-------------------------- MODULE PairTransitions --------------------------
(***************************************************************************)
(* The transfer functions of the pair checker and its bug reporter, as     *)
(* operators on the two things a statement changes:                        *)
(*                                                                         *)
(*   state    the AbstractState, a map from variables to lattice values;   *)
(*   manager  the active unit's variables and the bug reporter's tables.   *)
(*                                                                         *)
(* lib/pairchecker/analyzer/{PairTransitions,PairStmtParser,               *)
(* PairBugReporter}.h                                                      *)
(***************************************************************************)
EXTENDS PairLattice, PairGlobals

Put(map, key, val) ==
  [k \in DOMAIN map \cup {key} |-> IF k = key THEN val ELSE map[k]]

\* map[key], default constructed when it is missing
ValueOf(state, var) == IF var \in DOMAIN state THEN state[var] ELSE DefaultValue

-----------------------------------------------------------------------------
(* The bug reporter *)

NullStmt == <<>>

\* initUnit starts from empty tables; the list of bugs is kept between units.
InitUnit(unitVars, bugs) ==
  [unitVars     |-> unitVars,
   lastLocation |-> [v \in {} |-> NullStmt],
   bugged       |-> {},
   bugs         |-> bugs]

GetPairSet(manager, var) ==
  {GetPairND(PI, var) : PI \in GetPairInfoSet(var)} \cap manager.unitVars

LastLocation(manager, var) ==
  IF var \in DOMAIN manager.lastLocation THEN manager.lastLocation[var]
                                         ELSE NullStmt

UpdateLastLocation(manager, vars, S) ==
  [manager EXCEPT !.lastLocation =
     [v \in DOMAIN @ \cup vars |-> IF v \in vars THEN S ELSE @[v]]]

\* A reporter that marks only the partner as bugged.
AddAsBugsPartnersOnly(manager, currentVar, S, hits) ==
  [unitVars     |-> manager.unitVars,
   lastLocation |-> manager.lastLocation,
   bugged       |-> manager.bugged \cup hits,
   bugs         |-> manager.bugs \cup
                      {[bugStmt    |-> S,
                        pairStmt   |-> LastLocation(manager, p),
                        currentVar |-> currentVar,
                        pairVar    |-> p] : p \in hits}]

\* addAsBug for every partner in hits; the first one marks both as bugged.
AddAsBugs(manager, currentVar, S, hits) ==
  [unitVars     |-> manager.unitVars,
   lastLocation |-> manager.lastLocation,
   bugged       |-> IF hits = {} THEN manager.bugged
                    ELSE manager.bugged \cup {currentVar} \cup hits,
   bugs         |-> manager.bugs \cup
                      {[bugStmt    |-> S,
                        pairStmt   |-> LastLocation(manager, p),
                        currentVar |-> currentVar,
                        pairVar    |-> p] : p \in hits}]

\* The partners' values checkBug reads with operator[].
Touch(state, vars) == [v \in DOMAIN state \cup vars |-> ValueOf(state, v)]
CheckedVars(manager, currentVar) ==
  IF currentVar \in manager.bugged THEN {} ELSE GetPairSet(manager, currentVar)

\* A check that stops at a partner that is bugged already ...
CheckBugUnlessKnown(manager, currentVar, S, state) ==
  IF manager.bugged
       \cap ({currentVar} \cup GetPairSet(manager, currentVar)) # {}
  THEN manager
  ELSE AddAsBugs(manager, currentVar, S,
                 {p \in GetPairSet(manager, currentVar) :
                    IsWriteFlush(ValueOf(state, p))})

\* ... and one that looks at the variable written instead of its partners.
CheckBugOfSelf(manager, currentVar, S, state) ==
  IF currentVar \in manager.bugged
  THEN manager
  ELSE AddAsBugs(manager, currentVar, S,
                 {p \in GetPairSet(manager, currentVar) :
                    IsWriteFlush(ValueOf(state, currentVar))})

CheckBug(manager, currentVar, S, state) ==
  IF currentVar \in manager.bugged
  THEN manager
  ELSE AddAsBugs(manager, currentVar, S,
                 {p \in GetPairSet(manager, currentVar) :
                    IsWriteFlush(ValueOf(state, p))})

-----------------------------------------------------------------------------
(* The transfer functions: the new state, whether the handler reports a    *)
(* change, and the new manager.                                            *)

Result(state, changed, manager) ==
  [state |-> state, changed |-> changed, manager |-> manager]

\* A write that forgets its location.
HandleWriteUnlocated(S, var, state, manager) ==
  LET newState == Put(state, var, GetWrite(ValueOf(state, var)))
  IN  Result(Touch(newState, CheckedVars(manager, var)), TRUE,
             CheckBug(manager, var, S, newState))

HandleWrite(S, var, state, manager) ==
  LET newState == Put(state, var, GetWrite(ValueOf(state, var)))
  IN  Result(Touch(newState, CheckedVars(manager, var)), TRUE,
             CheckBug(UpdateLastLocation(manager, {var}, S), var, S, newState))

\* One variable at a fence: first the dcl part, then the scl part of the
\* value the first one left.
PfenceApplies(isPfence, lv) == isPfence /\ HasDcl(lv) /\ IsFlush(lv)
PfenceValue(isPfence, lv) ==
  IF PfenceApplies(isPfence, lv) THEN GetPfence(lv) ELSE lv
VfenceApplies(lv) == HasScl(lv) /\ IsWrite(lv)
FenceValue(isPfence, lv) ==
  LET lv1 == PfenceValue(isPfence, lv)
  IN  IF VfenceApplies(lv1) THEN GetVfence(lv1) ELSE lv1

\* A fence that becomes the last location of every variable.
HandleFenceEverywhere(S, isPfence, state, manager) ==
  Result([v \in DOMAIN state |-> FenceValue(isPfence, state[v])],
         TRUE, UpdateLastLocation(manager, DOMAIN state, S))

HandleFence(S, isPfence, state, manager) ==
  LET fenced == {v \in DOMAIN state :
                   \/ PfenceApplies(isPfence, state[v])
                   \/ VfenceApplies(PfenceValue(isPfence, state[v]))}
  IN  Result([v \in DOMAIN state |-> FenceValue(isPfence, state[v])],
             fenced # {},
             UpdateLastLocation(manager, fenced, S))

\* A flush of a variable that is durable already counts as a new one.
FlushValueAlways(isPfence, lv) ==
  IF isPfence /\ HasDcl(lv) /\ IsWriteFlushDcl(lv) THEN GetPfence(lv)
  ELSE IF HasDcl(lv) THEN GetFlush(lv)
  ELSE lv

\* The first two branches of handleFlush, exclusive of each other ...
FlushValue(isPfence, lv) ==
  IF isPfence /\ HasDcl(lv) /\ IsWriteFlushDcl(lv) THEN GetPfence(lv)
  ELSE IF HasDcl(lv) /\ IsWriteDcl(lv) THEN GetFlush(lv)
  ELSE lv

\* ... and the last one, which does not ask for the type.
FlushFenceValue(isPfence, lv) ==
  LET lv1 == FlushValue(isPfence, lv)
  IN  IF isPfence THEN GetVfence(lv1) ELSE lv1

HandleFlush(S, isPfence, var, state, manager) ==
  LET lv      == ValueOf(state, var)
      changed == isPfence \/ (HasDcl(lv) /\ IsWriteDcl(lv))
  IN  Result(Put(state, var, FlushFenceValue(isPfence, lv)),
             changed,
             IF changed THEN UpdateLastLocation(manager, {var}, S) ELSE manager)

(***************************************************************************)
(* A statement is a record with an op: an assignment to a member, a call   *)
(* of one of the named functions, a call of an analysed function, or       *)
(* anything else.  Assignments and flushes name a variable, which counts   *)
(* only if it belongs to a pair.                                           *)
(***************************************************************************)
VarOps   == {"assign", "flush", "flushFence"}
FenceOps == {"pfence", "vfence"}

IsPfence(s) == s.op \in {"flushFence", "pfence"}

IsUsedStmt(s) == s.op \in FenceOps \/ (s.op \in VarOps /\ s.var \in UsedVars)

HandleStmt(S, s, state, manager) ==
  CASE IsUsedStmt(s) /\ s.op = "assign" ->
         HandleWrite(S, s.var, state, manager)
    [] IsUsedStmt(s) /\ s.op \in {"flush", "flushFence"} ->
         HandleFlush(S, IsPfence(s), s.var, state, manager)
    [] IsUsedStmt(s) /\ s.op \in FenceOps ->
         HandleFence(S, IsPfence(s), state, manager)
    [] OTHER -> Result(state, FALSE, manager)

\* A unit that starts from an empty state.
InitLatticeValuesEmpty(manager) == [v \in {} |-> DefaultValue]

\* Every variable of the unit starts as Unseen.
InitLatticeValues(manager) ==
  [v \in manager.unitVars |->
     GetInit(GetDsclInfo(v).isDcl, GetDsclInfo(v).isScl)]
=============================================================================
