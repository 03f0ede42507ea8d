------------------------- MODULE PairCheckerProofs -------------------------
(***************************************************************************)
(* The pair checker on a whole translation unit, calls, merges and loops   *)
(* included: a partner found unordered has a last location, the plugin     *)
(* dies for four reasons and from each of them, and the results solve the  *)
(* dataflow equations.  For all programs, variables and pairs.             *)
(***************************************************************************)
EXTENDS PairReports, GlobalParserProofs

-----------------------------------------------------------------------------
(* What every state and every Manager is *)

\* The values that are met, those of failed assertions included
Values == [type : LatticeType \cup {"None", "AssertFailed"},
           dcl : Dcl, scl : Scl]

\* A value that checkBug would report has a last location.
StateLocated(p, f, m, state) ==
  \A v \in DOMAIN state :
    /\ state[v] \in Values
    /\ IsWriteFlush(state[v]) => LastLocation(m, v) # NullStmt

ReportsLocated(p, f, m) ==
  /\ DOMAIN m = {"unitVars", "lastLocation", "bugged", "bugs"}
  /\ \A bug \in m.bugs : bug.pairStmt # NullStmt

(***************************************************************************)
(* A state of unit f holds all of the unit's variables or none.  They have *)
(* a type and no other variable has one; only a flush brings one in.       *)
(***************************************************************************)

\* A flush of a variable that the unit does not track
IsForeign(p, f, s) == /\ s.op \in {"flush", "flushFence"}
                      /\ s.var \in UsedVars \ UnitVariables(p, f)

HasForeign(p, f) ==
  \E g \in ReachFrom(p, {f}) : \E s \in Stmts(p, g) : IsForeign(p, f, s)

StateTyped(p, f, state) ==
  /\ DOMAIN state = {} \/ UnitVariables(p, f) \subseteq DOMAIN state
  /\ \A v \in DOMAIN state :
       /\ state[v] \in PairLattice
       /\ state[v].type = "None" <=> v \notin UnitVariables(p, f)
  /\ ~HasForeign(p, f) => DOMAIN state \subseteq UnitVariables(p, f)

ReportsOfUnit(p, f, m) == m.unitVars = UnitVariables(p, f)

TrackingUnits(p) == {f \in AnalyzedFunctions(p) : UnitVariables(p, f) # {}}

\* A value a merge in unit f may come to: typed, or one that aborts.
UnitValue(p, f, v, o) ==
  IF v \in UnitVariables(p, f) THEN o \in PairLattice /\ o.type # "None"
  ELSE o = AssertFailed \/ (o \in PairLattice /\ o.type = "None")

-----------------------------------------------------------------------------
(* The lattice and the bug reporter *)

LEMMA MeetFacts ==
  ASSUME NEW x \in Values, NEW y \in Values
  PROVE  /\ Meet(x, y) \in Values
         /\ IsWriteFlush(Meet(x, y)) => IsWriteFlush(y)
BY DEF Meet, MeetValue, OfType, AssertFailed, Values, LatticeType, Dcl, Scl,
       Lower, IsWriteFlush, WriteDcl, Flush, Pfence, UnseenDcl, WriteScl,
       Vfence, UnseenScl

LEMMA StartFacts ==
  ASSUME NEW type
  PROVE  /\ OfType(type) \in Values /\ ~IsWriteFlush(OfType(type))
         /\ DefaultValue \in Values /\ ~IsWriteFlush(DefaultValue)
BY DEF OfType, DefaultValue, AssertFailed, Values, LatticeType, Dcl, Scl,
       IsWriteFlush, WriteDcl, Flush, Pfence, UnseenDcl, WriteScl, Vfence,
       UnseenScl

LEMMA WriteFacts ==
  ASSUME NEW x \in Values
  PROVE  GetWrite(x) \in Values
BY DEF GetWrite, Values, Dcl, Scl, WriteDcl, UnseenDcl, WriteScl, UnseenScl

\* A fence that leaves a variable alone leaves it as it was.
LEMMA FenceFacts ==
  ASSUME NEW x \in Values, NEW isPfence \in BOOLEAN
  PROVE  /\ FenceValue(isPfence, x) \in Values
         /\ \/ PfenceApplies(isPfence, x)
            \/ VfenceApplies(PfenceValue(isPfence, x))
            \/ FenceValue(isPfence, x) = x
BY DEF FenceValue, PfenceApplies, PfenceValue, VfenceApplies, GetPfence,
       GetVfence, Values, Dcl, Scl, Pfence, UnseenDcl, WriteDcl, Vfence,
       UnseenScl, WriteScl

LEMMA FlushFacts ==
  ASSUME NEW x \in Values, NEW isPfence \in BOOLEAN
  PROVE  /\ FlushFenceValue(isPfence, x) \in Values
         /\ isPfence \/ (HasDcl(x) /\ IsWriteDcl(x))
              \/ FlushFenceValue(isPfence, x) = x
BY DEF FlushFenceValue, FlushValue, HasDcl, IsWriteDcl, IsWriteFlushDcl,
       GetPfence, GetVfence, GetFlush, Values, Dcl, Scl, Pfence, Flush,
       UnseenDcl, WriteDcl, Vfence, UnseenScl, WriteScl

\* No location is lost, and the variables updated have one.
LEMMA UpdateFacts ==
  ASSUME NEW m, DOMAIN m = {"unitVars", "lastLocation", "bugged", "bugs"},
         NEW vars, NEW S, S # NullStmt
  PROVE  LET new == UpdateLastLocation(m, vars, S)
         IN  /\ DOMAIN new = DOMAIN m /\ new.bugs = m.bugs
             /\ \A v : LastLocation(new, v) =
                         IF v \in vars THEN S ELSE LastLocation(m, v)
BY DEF UpdateLastLocation, LastLocation

LEMMA ValueLocated ==
  ASSUME NEW p, NEW f, NEW m, NEW state, StateLocated(p, f, m, state), NEW v
  PROVE  /\ ValueOf(state, v) \in Values
         /\ IsWriteFlush(ValueOf(state, v)) => LastLocation(m, v) # NullStmt
BY StartFacts DEF StateLocated, ValueOf

\* A state is located in a Manager that knows more locations.
LEMMA StaysLocated ==
  ASSUME NEW p, NEW f, NEW m, NEW new,
         \A v : LastLocation(m, v) # NullStmt => LastLocation(new, v) # NullStmt,
         NEW state, StateLocated(p, f, m, state)
  PROVE  StateLocated(p, f, new, state)
BY DEF StateLocated

\* checkBug reports partners that have a last location.
LEMMA CheckBugFacts ==
  ASSUME NEW p, NEW f, NEW m, ReportsLocated(p, f, m),
         NEW state, StateLocated(p, f, m, state), NEW var, NEW S
  PROVE  LET new == CheckBug(m, var, S, state)
         IN  /\ ReportsLocated(p, f, new)
             /\ \A v : LastLocation(new, v) = LastLocation(m, v)
<1> DEFINE new  == CheckBug(m, var, S, state)
           hits == {q \in GetPairSet(m, var) : IsWriteFlush(ValueOf(state, q))}
<1>1. CASE var \in m.bugged
  BY <1>1 DEF CheckBug
<1>2. CASE var \notin m.bugged
  <2>1. new = AddAsBugs(m, var, S, hits)
    BY <1>2 DEF CheckBug
  <2>2. \A q \in hits : LastLocation(m, q) # NullStmt
    BY ValueLocated
  <2> HIDE DEF hits, new
  <2>3. /\ DOMAIN new = {"unitVars", "lastLocation", "bugged", "bugs"}
        /\ new.lastLocation = m.lastLocation
        /\ new.bugs = m.bugs \cup
             {[bugStmt    |-> S,
               pairStmt   |-> LastLocation(m, q),
               currentVar |-> var,
               pairVar    |-> q] : q \in hits}
    BY <2>1 DEF AddAsBugs
  <2>4. \A bug \in new.bugs : bug.pairStmt # NullStmt
    BY <2>2, <2>3 DEF ReportsLocated
  <2>5. \A v : LastLocation(new, v) = LastLocation(m, v)
    BY <2>3 DEF LastLocation
  <2>6. QED
    BY <2>3, <2>4, <2>5 DEF ReportsLocated, new
<1>3. QED
  BY <1>1, <1>2

-----------------------------------------------------------------------------
(* The transfer functions *)

\* What a transfer function keeps, for the state it is given and all others
Keeps(p, f, m, r) ==
  /\ ReportsLocated(p, f, r.manager) /\ StateLocated(p, f, r.manager, r.state)
  /\ \A v : LastLocation(m, v) # NullStmt => LastLocation(r.manager, v) # NullStmt

\* Reading with operator[] adds values that are not unordered.
LEMMA TouchLocated ==
  ASSUME NEW p, NEW f, NEW m, NEW state, StateLocated(p, f, m, state), NEW vars
  PROVE  StateLocated(p, f, m, Touch(state, vars))
BY ValueLocated DEF StateLocated, Touch

LEMMA HandleWriteKeeps ==
  ASSUME NEW p, NEW f, NEW m, ReportsLocated(p, f, m),
         NEW state, StateLocated(p, f, m, state), NEW S, S # NullStmt, NEW var
  PROVE  Keeps(p, f, m, HandleWrite(S, var, state, m))
<1> DEFINE new     == Put(state, var, GetWrite(ValueOf(state, var)))
           updated == UpdateLastLocation(m, {var}, S)
           checked == CheckBug(updated, var, S, new)
<1>1. /\ ReportsLocated(p, f, updated)
      /\ \A v : LastLocation(updated, v) =
                  IF v \in {var} THEN S ELSE LastLocation(m, v)
  BY UpdateFacts DEF ReportsLocated
<1>2. GetWrite(ValueOf(state, var)) \in Values
  BY ValueLocated, WriteFacts
<1> HIDE DEF updated
<1>3. StateLocated(p, f, updated, new)
  BY <1>1, <1>2 DEF StateLocated, Put
<1> HIDE DEF new
<1>4. /\ ReportsLocated(p, f, checked)
      /\ \A v : LastLocation(checked, v) = LastLocation(updated, v)
  BY <1>1, <1>3, CheckBugFacts
<1> HIDE DEF checked
<1>5. StateLocated(p, f, checked, Touch(new, CheckedVars(m, var)))
  BY <1>3, <1>4, StaysLocated, TouchLocated
<1>6. HandleWrite(S, var, state, m) =
        Result(Touch(new, CheckedVars(m, var)), TRUE, checked)
  BY DEF HandleWrite, new, updated, checked
<1>7. QED
  BY <1>1, <1>4, <1>5, <1>6 DEF Keeps, Result

LEMMA HandleFenceKeeps ==
  ASSUME NEW p, NEW f, NEW m, ReportsLocated(p, f, m),
         NEW state, StateLocated(p, f, m, state), NEW S, S # NullStmt,
         NEW isPfence \in BOOLEAN
  PROVE  Keeps(p, f, m, HandleFence(S, isPfence, state, m))
<1> DEFINE fenced  == {v \in DOMAIN state :
                         \/ PfenceApplies(isPfence, state[v])
                         \/ VfenceApplies(PfenceValue(isPfence, state[v]))}
           new     == [v \in DOMAIN state |-> FenceValue(isPfence, state[v])]
           updated == UpdateLastLocation(m, fenced, S)
<1>1. HandleFence(S, isPfence, state, m) = Result(new, fenced # {}, updated)
  BY DEF HandleFence
<1>2. \A v \in DOMAIN new :
        /\ new[v] \in Values
        /\ v \notin fenced => v \in DOMAIN state /\ new[v] = state[v]
  BY FenceFacts DEF StateLocated
<1> HIDE DEF fenced, new
<1>3. /\ ReportsLocated(p, f, updated)
      /\ \A v : LastLocation(updated, v) =
                  IF v \in fenced THEN S ELSE LastLocation(m, v)
  BY UpdateFacts DEF ReportsLocated
<1> HIDE DEF updated
<1>4. StateLocated(p, f, updated, new)
  BY <1>2, <1>3 DEF StateLocated
<1>5. QED
  BY <1>1, <1>3, <1>4 DEF Keeps, Result

LEMMA HandleFlushKeeps ==
  ASSUME NEW p, NEW f, NEW m, ReportsLocated(p, f, m),
         NEW state, StateLocated(p, f, m, state), NEW S, S # NullStmt,
         NEW isPfence \in BOOLEAN, NEW var
  PROVE  Keeps(p, f, m, HandleFlush(S, isPfence, var, state, m))
<1> DEFINE lv      == ValueOf(state, var)
           changed == isPfence \/ (HasDcl(lv) /\ IsWriteDcl(lv))
           new     == Put(state, var, FlushFenceValue(isPfence, lv))
           updated == IF changed THEN UpdateLastLocation(m, {var}, S) ELSE m
<1>1. HandleFlush(S, isPfence, var, state, m) = Result(new, changed, updated)
  BY DEF HandleFlush
<1>2. lv \in Values /\ (IsWriteFlush(lv) => LastLocation(m, var) # NullStmt)
  BY ValueLocated
<1>3. /\ FlushFenceValue(isPfence, lv) \in Values
      /\ ~changed => FlushFenceValue(isPfence, lv) = lv
  BY <1>2, FlushFacts
<1> HIDE DEF lv, changed
<1>4. /\ ReportsLocated(p, f, updated)
      /\ \A v : LastLocation(updated, v) =
                  IF changed /\ v \in {var} THEN S ELSE LastLocation(m, v)
  BY UpdateFacts DEF ReportsLocated
<1> HIDE DEF updated
<1>5. StateLocated(p, f, updated, new)
  BY <1>2, <1>3, <1>4 DEF StateLocated, Put
<1>6. QED
  BY <1>1, <1>4, <1>5 DEF Keeps, Result

LEMMA HandleStmtKeeps ==
  ASSUME NEW p, NEW f, NEW m, ReportsLocated(p, f, m),
         NEW state, StateLocated(p, f, m, state), NEW S, S # NullStmt, NEW s
  PROVE  Keeps(p, f, m, HandleStmt(S, s, state, m))
<1>1. IsPfence(s) \in BOOLEAN
  BY DEF IsPfence
<1>2. CASE IsUsedStmt(s) /\ s.op = "assign"
  BY <1>2, HandleWriteKeeps DEF HandleStmt, FenceOps
<1>3. CASE IsUsedStmt(s) /\ s.op \in {"flush", "flushFence"}
  BY <1>1, <1>3, HandleFlushKeeps DEF HandleStmt, FenceOps
<1>4. CASE IsUsedStmt(s) /\ s.op \in FenceOps
  BY <1>1, <1>4, HandleFenceKeeps DEF HandleStmt, FenceOps
<1>5. CASE ~IsUsedStmt(s)
  BY <1>5 DEF HandleStmt, Keeps, Result
<1>6. QED
  BY <1>2, <1>3, <1>4, <1>5 DEF IsUsedStmt, VarOps

\* A unit starts with what nobody has written.
LEMMA InitLocated ==
  ASSUME NEW p, NEW f, NEW m
  PROVE  StateLocated(p, f, m, InitLatticeValues(m))
BY StartFacts DEF StateLocated, InitLatticeValues, GetInit

-----------------------------------------------------------------------------
(* Types *)

\* No transfer function changes the type of a value.
LEMMA WriteTypes ==
  ASSUME NEW x \in PairLattice
  PROVE  GetWrite(x) \in PairLattice /\ GetWrite(x).type = x.type
BY DEF GetWrite, PairLattice, Dcl, Scl, WriteDcl, UnseenDcl, WriteScl, UnseenScl

LEMMA FenceTypes ==
  ASSUME NEW x \in PairLattice, NEW isPfence \in BOOLEAN
  PROVE  /\ FenceValue(isPfence, x) \in PairLattice
         /\ FenceValue(isPfence, x).type = x.type
BY DEF FenceValue, PfenceValue, GetPfence, GetVfence, PairLattice, Dcl, Scl,
       Pfence, UnseenDcl, WriteDcl, Vfence, UnseenScl, WriteScl

LEMMA FlushTypes ==
  ASSUME NEW x \in PairLattice, NEW isPfence \in BOOLEAN
  PROVE  /\ FlushFenceValue(isPfence, x) \in PairLattice
         /\ FlushFenceValue(isPfence, x).type = x.type
BY DEF FlushFenceValue, FlushValue, GetPfence, GetVfence, GetFlush,
       PairLattice, Dcl, Scl, Pfence, Flush, UnseenDcl, WriteDcl, Vfence,
       UnseenScl, WriteScl

\* A meet is of the second value's type, and asserts that it has one.
LEMMA MeetTypes ==
  ASSUME NEW x \in PairLattice, NEW y \in PairLattice
  PROVE  IF y.type = "None" THEN Meet(x, y) = AssertFailed
         ELSE Meet(x, y) \in PairLattice /\ Meet(x, y).type = y.type
BY DEF Meet, MeetValue, OfType, AssertFailed, PairLattice, LatticeType, Dcl,
       Scl, Lower, Pfence, Flush, UnseenDcl, WriteDcl, Vfence, UnseenScl,
       WriteScl

LEMMA FailedFacts ==
  /\ AssertFailed \notin PairLattice
  /\ \A y : Meet(AssertFailed, y) = AssertFailed
BY DEF Meet, AssertFailed, PairLattice, LatticeType

\* What a meet makes of a value it makes of the meet.
LEMMA MeetNormal ==
  ASSUME NEW x \in PairLattice, NEW y \in PairLattice, y.type # "None"
  PROVE  Meet(Meet(x, y), Meet(x, y)) = Meet(y, y)
<1>1. x # AssertFailed /\ y # AssertFailed /\ y.type \in LatticeType
  BY FailedFacts DEF PairLattice
<1>2. OfType(y.type) \in PairLattice
  BY <1>1 DEF OfType, PairLattice, LatticeType, Dcl, Scl, UnseenDcl, UnseenScl,
     WriteDcl, WriteScl
<1>3. \A z \in PairLattice : Meet(z, y) = MeetValue(OfType(y.type), y)
  BY <1>1, <1>2, FailedFacts DEF Meet
<1> DEFINE z == MeetValue(OfType(y.type), y)
<1>4. z \in PairLattice /\ z.type = y.type
  BY <1>3, MeetTypes
<1>5. MeetValue(OfType(y.type), z) = z
  BY <1>1 DEF MeetValue, OfType, PairLattice, LatticeType, Lower, Dcl, Scl,
     UnseenDcl, UnseenScl, WriteDcl, WriteScl
<1> HIDE DEF z
<1>6. Meet(z, z) = MeetValue(OfType(z.type), z)
  <2>1. z # AssertFailed /\ OfType(z.type) # AssertFailed
    BY <1>2, <1>4, FailedFacts
  <2>2. QED
    BY <2>1 DEF Meet
<1>7. QED
  BY <1>3, <1>4, <1>5, <1>6 DEF z

LEMMA MeetOfUnit ==
  ASSUME NEW p, NEW f, NEW v, NEW x, NEW y, UnitValue(p, f, v, x),
         UnitValue(p, f, v, y)
  PROVE  /\ UnitValue(p, f, v, Meet(x, y))
         /\ Meet(Meet(x, y), Meet(x, y)) = Meet(y, y)
<1>1. CASE v \in UnitVariables(p, f)
  <2>1. x \in PairLattice /\ y \in PairLattice /\ y.type # "None"
    BY <1>1 DEF UnitValue
  <2>2. Meet(x, y) \in PairLattice /\ Meet(x, y).type # "None"
    BY <2>1, MeetTypes
  <2>3. QED
    BY <1>1, <2>1, <2>2, MeetNormal DEF UnitValue
<1>2. CASE v \notin UnitVariables(p, f)
  <2>1. \A z : Meet(z, AssertFailed) = AssertFailed
    BY DEF Meet, OfType, AssertFailed, LatticeType
  <2>2. \A z \in PairLattice : \A w \in PairLattice :
          w.type = "None" => Meet(z, w) = AssertFailed
    BY MeetTypes
  <2>3. Meet(x, y) = AssertFailed /\ Meet(y, y) = AssertFailed
    BY <1>2, <2>1, <2>2, FailedFacts DEF UnitValue
  <2>4. QED
    BY <1>2, <2>1, <2>3 DEF UnitValue
<1>3. QED
  BY <1>1, <1>2

\* The variables of pairs have a type.
LEMMA InitTypes ==
  ASSUME NEW v \in UsedVars
  PROVE  LET init == GetInit(GetDsclInfo(v).isDcl, GetDsclInfo(v).isScl)
         IN  init \in PairLattice /\ init.type # "None"
<1> DEFINE isDcl == GetDsclInfo(v).isDcl
           isScl == GetDsclInfo(v).isScl
<1>1. isDcl \/ isScl
  <2>1. \E PI \in Pairs : v \in {PI.data, PI.check}
    BY DEF UsedVars
  <2>2. GetPairInfoSet(v) # {}
    BY <2>1 DEF GetPairInfoSet
  <2>3. QED
    BY <2>2 DEF GetDsclInfo
<1>2. isDcl \in BOOLEAN /\ isScl \in BOOLEAN
  BY DEF GetDsclInfo
<1> HIDE DEF isDcl, isScl
<1>3. \E type \in LatticeType : GetInit(isDcl, isScl) = OfType(type)
  BY <1>1, <1>2 DEF GetInit, LatticeType
<1>4. \A type \in LatticeType :
        OfType(type) \in PairLattice /\ OfType(type).type # "None"
  BY DEF OfType, PairLattice, LatticeType, Dcl, Scl, UnseenDcl, UnseenScl,
         WriteDcl, WriteScl
<1>5. QED
  BY <1>3, <1>4 DEF isDcl, isScl

\* A new state with the types of the old one, and vars in it as well
Retyped(old, new, vars) ==
  /\ DOMAIN new = DOMAIN old \cup vars
  /\ \A v \in DOMAIN new : /\ new[v] \in PairLattice
                           /\ new[v].type = ValueOf(old, v).type

LEMMA RetypedIsTyped ==
  ASSUME NEW p, NEW f, NEW old, StateTyped(p, f, old),
         UnitVariables(p, f) \subseteq DOMAIN old,
         NEW new, NEW vars, Retyped(old, new, vars),
         HasForeign(p, f) \/ vars \subseteq UnitVariables(p, f)
  PROVE  /\ StateTyped(p, f, new)
         /\ UnitVariables(p, f) \subseteq DOMAIN new
         /\ \A v \in DOMAIN old : DumpAsserts(old[v]) =>
              v \in DOMAIN new /\ DumpAsserts(new[v])
         /\ \A v \in vars \ UnitVariables(p, f) :
              v \in DOMAIN new /\ DumpAsserts(new[v])
<1>1. \A v \in DOMAIN new :
        new[v].type = IF v \in DOMAIN old THEN old[v].type ELSE "None"
  BY DEF Retyped, ValueOf, DefaultValue
<1>2. \A v \in DOMAIN new :
        /\ new[v] \in PairLattice
        /\ new[v].type = "None" <=> v \notin UnitVariables(p, f)
  BY <1>1 DEF Retyped, StateTyped
<1>3. DOMAIN new = DOMAIN old \cup vars
  BY DEF Retyped
<1>4. StateTyped(p, f, new)
  BY <1>2, <1>3 DEF StateTyped
<1>5. QED
  BY <1>1, <1>2, <1>3, <1>4 DEF DumpAsserts

LEMMA ValueTyped ==
  ASSUME NEW p, NEW f, NEW state, StateTyped(p, f, state), NEW v
  PROVE  ValueOf(state, v) \in PairLattice
BY DEF StateTyped, ValueOf, DefaultValue, PairLattice, Dcl, Scl, UnseenDcl,
       UnseenScl, WriteDcl, WriteScl

LEMMA PutRetypes ==
  ASSUME NEW p, NEW f, NEW state, StateTyped(p, f, state), NEW var,
         NEW val \in PairLattice, val.type = ValueOf(state, var).type
  PROVE  Retyped(state, Put(state, var, val), {var})
BY ValueTyped DEF Retyped, Put, StateTyped, ValueOf

LEMMA TouchRetypes ==
  ASSUME NEW p, NEW f, NEW state, StateTyped(p, f, state), NEW vars
  PROVE  Retyped(state, Touch(state, vars), vars)
BY ValueTyped DEF Retyped, Touch

-----------------------------------------------------------------------------
(* The transfer functions on states with types *)

LEMMA CheckBugOfUnit ==
  ASSUME NEW m, NEW var, NEW S, NEW state
  PROVE  CheckBug(m, var, S, state).unitVars = m.unitVars
BY DEF CheckBug, AddAsBugs

LEMMA UpdateOfUnit ==
  ASSUME NEW m, DOMAIN m = {"unitVars", "lastLocation", "bugged", "bugs"},
         NEW vars, NEW S
  PROVE  UpdateLastLocation(m, vars, S).unitVars = m.unitVars
BY DEF UpdateLastLocation

\* What a transfer function keeps; marked tells whether it marks the state.
KeepsTypes(p, f, state, r, marked) ==
  /\ ReportsOfUnit(p, f, r.manager)
  /\ StateTyped(p, f, r.state) /\ UnitVariables(p, f) \subseteq DOMAIN r.state
  /\ (\E v \in DOMAIN state : DumpAsserts(state[v])) \/ marked =>
       \E v \in DOMAIN r.state : DumpAsserts(r.state[v])

LEMMA HandleWriteTypes ==
  ASSUME NEW p, NEW f, NEW m, ReportsLocated(p, f, m), ReportsOfUnit(p, f, m),
         NEW state, StateTyped(p, f, state),
         UnitVariables(p, f) \subseteq DOMAIN state,
         NEW S, NEW var \in UnitVariables(p, f)
  PROVE  KeepsTypes(p, f, state, HandleWrite(S, var, state, m), FALSE)
<1> DEFINE new     == Put(state, var, GetWrite(ValueOf(state, var)))
           touched == Touch(new, CheckedVars(m, var))
           checked == CheckBug(UpdateLastLocation(m, {var}, S), var, S, new)
<1>1. HandleWrite(S, var, state, m) = Result(touched, TRUE, checked)
  BY DEF HandleWrite
<1>2. checked.unitVars = m.unitVars
  BY CheckBugOfUnit, UpdateOfUnit DEF ReportsLocated
<1>3. CheckedVars(m, var) \subseteq UnitVariables(p, f)
  BY DEF CheckedVars, GetPairSet, ReportsOfUnit
<1> HIDE DEF checked
<1>4. Retyped(state, new, {var})
  <2> DEFINE val == GetWrite(ValueOf(state, var))
  <2>1. val \in PairLattice /\ val.type = ValueOf(state, var).type
    BY ValueTyped, WriteTypes
  <2> HIDE DEF val
  <2>2. Retyped(state, Put(state, var, val), {var})
    BY <2>1, PutRetypes
  <2>3. QED
    BY <2>2 DEF val
<1> HIDE DEF new
<1>5. /\ StateTyped(p, f, new) /\ UnitVariables(p, f) \subseteq DOMAIN new
      /\ \A v \in DOMAIN state : DumpAsserts(state[v]) =>
           v \in DOMAIN new /\ DumpAsserts(new[v])
  <2>1. {var} \subseteq UnitVariables(p, f)
    OBVIOUS
  <2>2. QED
    BY <1>4, <2>1, RetypedIsTyped
<1>6. Retyped(new, touched, CheckedVars(m, var))
  BY <1>5, TouchRetypes
<1> HIDE DEF touched
<1>7. /\ StateTyped(p, f, touched)
      /\ UnitVariables(p, f) \subseteq DOMAIN touched
      /\ \A v \in DOMAIN new : DumpAsserts(new[v]) =>
           v \in DOMAIN touched /\ DumpAsserts(touched[v])
  BY <1>3, <1>5, <1>6, RetypedIsTyped
<1>8. QED
  BY <1>1, <1>2, <1>5, <1>7 DEF KeepsTypes, Result, ReportsOfUnit

LEMMA HandleFlushTypes ==
  ASSUME NEW p, NEW f, NEW m, ReportsLocated(p, f, m), ReportsOfUnit(p, f, m),
         NEW state, StateTyped(p, f, state),
         UnitVariables(p, f) \subseteq DOMAIN state,
         NEW S, NEW isPfence \in BOOLEAN, NEW var,
         HasForeign(p, f) \/ var \in UnitVariables(p, f)
  PROVE  KeepsTypes(p, f, state, HandleFlush(S, isPfence, var, state, m),
                    var \notin UnitVariables(p, f))
<1> DEFINE lv      == ValueOf(state, var)
           changed == isPfence \/ (HasDcl(lv) /\ IsWriteDcl(lv))
           val     == FlushFenceValue(isPfence, lv)
           new     == Put(state, var, val)
           updated == IF changed THEN UpdateLastLocation(m, {var}, S) ELSE m
<1>1. HandleFlush(S, isPfence, var, state, m) = Result(new, changed, updated)
  BY DEF HandleFlush
<1>2. updated.unitVars = m.unitVars
  BY UpdateOfUnit DEF ReportsLocated
<1>3. val \in PairLattice /\ val.type = ValueOf(state, var).type
  BY ValueTyped, FlushTypes
<1> HIDE DEF changed, val, updated
<1>4. Retyped(state, new, {var})
  BY <1>3, PutRetypes
<1> HIDE DEF new
<1>5. HasForeign(p, f) \/ {var} \subseteq UnitVariables(p, f)
  OBVIOUS
<1>6. /\ StateTyped(p, f, new) /\ UnitVariables(p, f) \subseteq DOMAIN new
      /\ \A v \in DOMAIN state : DumpAsserts(state[v]) =>
           v \in DOMAIN new /\ DumpAsserts(new[v])
      /\ \A v \in {var} \ UnitVariables(p, f) :
           v \in DOMAIN new /\ DumpAsserts(new[v])
  BY <1>4, <1>5, RetypedIsTyped
<1>7. QED
  BY <1>1, <1>2, <1>6 DEF KeepsTypes, Result, ReportsOfUnit

LEMMA HandleFenceTypes ==
  ASSUME NEW p, NEW f, NEW m, ReportsLocated(p, f, m), ReportsOfUnit(p, f, m),
         NEW state, StateTyped(p, f, state),
         UnitVariables(p, f) \subseteq DOMAIN state,
         NEW S, NEW isPfence \in BOOLEAN
  PROVE  KeepsTypes(p, f, state, HandleFence(S, isPfence, state, m), FALSE)
<1> DEFINE fenced  == {v \in DOMAIN state :
                         \/ PfenceApplies(isPfence, state[v])
                         \/ VfenceApplies(PfenceValue(isPfence, state[v]))}
           new     == [v \in DOMAIN state |-> FenceValue(isPfence, state[v])]
           updated == UpdateLastLocation(m, fenced, S)
<1>1. HandleFence(S, isPfence, state, m) = Result(new, fenced # {}, updated)
  BY DEF HandleFence
<1> HIDE DEF fenced
<1>2. updated.unitVars = m.unitVars
  BY UpdateOfUnit DEF ReportsLocated
<1> HIDE DEF updated
<1>3. Retyped(state, new, {})
  <2>1. \A v \in DOMAIN state : state[v] \in PairLattice
    BY DEF StateTyped
  <2>2. QED
    BY <2>1, FenceTypes DEF Retyped, ValueOf
<1> HIDE DEF new
<1>4. /\ StateTyped(p, f, new) /\ UnitVariables(p, f) \subseteq DOMAIN new
      /\ \A v \in DOMAIN state : DumpAsserts(state[v]) =>
           v \in DOMAIN new /\ DumpAsserts(new[v])
  <2>1. {} \subseteq UnitVariables(p, f)
    OBVIOUS
  <2>2. QED
    BY <1>3, <2>1, RetypedIsTyped
<1>5. QED
  BY <1>1, <1>2, <1>4 DEF KeepsTypes, Result, ReportsOfUnit

\* Of a statement that the unit tracks, or flushes only
LEMMA HandleStmtTypes ==
  ASSUME NEW p, NEW f, NEW m, ReportsLocated(p, f, m), ReportsOfUnit(p, f, m),
         NEW state, StateTyped(p, f, state),
         UnitVariables(p, f) \subseteq DOMAIN state, NEW S, NEW s,
         s.op = "assign" /\ s.var \in UsedVars => s.var \in UnitVariables(p, f),
         IsForeign(p, f, s) => HasForeign(p, f)
  PROVE  KeepsTypes(p, f, state, HandleStmt(S, s, state, m), IsForeign(p, f, s))
<1>1. IsPfence(s) \in BOOLEAN
  BY DEF IsPfence
<1>2. CASE IsUsedStmt(s) /\ s.op = "assign"
  <2>1. s.var \in UnitVariables(p, f) /\ ~IsForeign(p, f, s)
    BY <1>2 DEF IsUsedStmt, FenceOps, IsForeign
  <2>2. HandleStmt(S, s, state, m) = HandleWrite(S, s.var, state, m)
    BY <1>2 DEF HandleStmt, FenceOps
  <2>3. KeepsTypes(p, f, state, HandleWrite(S, s.var, state, m), FALSE)
    BY <2>1, HandleWriteTypes
  <2>4. QED
    BY <2>1, <2>2, <2>3 DEF KeepsTypes
<1>3. CASE IsUsedStmt(s) /\ s.op \in {"flush", "flushFence"}
  <2>1. IsForeign(p, f, s) <=> s.var \notin UnitVariables(p, f)
    BY <1>3 DEF IsUsedStmt, FenceOps, IsForeign
  <2>2. HandleStmt(S, s, state, m) =
          HandleFlush(S, IsPfence(s), s.var, state, m)
    BY <1>3 DEF HandleStmt, FenceOps
  <2>3. HasForeign(p, f) \/ s.var \in UnitVariables(p, f)
    BY <2>1
  <2>4. KeepsTypes(p, f, state, HandleFlush(S, IsPfence(s), s.var, state, m),
                   s.var \notin UnitVariables(p, f))
    BY <1>1, <2>3, HandleFlushTypes
  <2>5. QED
    BY <2>1, <2>2, <2>4 DEF KeepsTypes
<1>4. CASE IsUsedStmt(s) /\ s.op \in FenceOps
  <2>1. ~IsForeign(p, f, s)
    BY <1>4 DEF IsForeign, FenceOps
  <2>2. HandleStmt(S, s, state, m) = HandleFence(S, IsPfence(s), state, m)
    BY <1>4 DEF HandleStmt, FenceOps
  <2>3. KeepsTypes(p, f, state, HandleFence(S, IsPfence(s), state, m), FALSE)
    BY <1>1, HandleFenceTypes
  <2>4. QED
    BY <2>1, <2>2, <2>3 DEF KeepsTypes
<1>5. CASE ~IsUsedStmt(s)
  <2>1. ~IsForeign(p, f, s)
    BY <1>5 DEF IsForeign, IsUsedStmt, VarOps
  <2>2. HandleStmt(S, s, state, m) = Result(state, FALSE, m)
    BY <1>5 DEF HandleStmt
  <2>3. QED
    BY <2>1, <2>2 DEF KeepsTypes, Result
<1>6. QED
  BY <1>2, <1>3, <1>4, <1>5 DEF IsUsedStmt, VarOps

-----------------------------------------------------------------------------
(* The engine of AnalyzerProofs with the pair checker's operators *)

Engine ==
  INSTANCE AnalyzerProofs WITH InitTopValues   <- InitLatticeValues,
                               ApplyTransfer   <- HandleStmt,
                               LatMeet         <- Meet,
                               LatAssertFailed <- AssertFailed,
                               LatEqualFails   <- NoEqualFails,
                               DumpFails       <- DumpAsserts,
                               StateOK         <- StateLocated,
                               ManagerOK       <- ReportsLocated,
                               InUnit          <- Reached,
                               FullUnits       <- TrackingUnits,
                               SoundOK         <- StateTyped,
                               ReadyOK         <- ReportsOfUnit,
                               Marks           <- IsForeign,
                               ValueOK         <- UnitValue

(***************************************************************************)
(* It is the one of PairChecker: the two instances define the same.     *)
(***************************************************************************)
USE DEF Analyzer!Running, Engine!Running, Analyzer!Front, Engine!Front,
        Analyzer!Last, Engine!Last, Analyzer!Invoke, Engine!Invoke,
        Analyzer!BlockKey, Engine!BlockKey, Analyzer!Entry, Engine!Entry,
        Analyzer!EntryState, Engine!EntryState,
        Analyzer!ResultsOf, Engine!ResultsOf, Analyzer!Frame, Engine!Frame,
        Analyzer!FunctionKey, Engine!FunctionKey,
        Analyzer!EmptyResults, Engine!EmptyResults,
        Analyzer!Exit, Engine!Exit, Analyzer!EmptyState, Engine!EmptyState,
        Analyzer!NoCall, Engine!NoCall, Analyzer!NextBlock, Engine!NextBlock,
        Analyzer!Aborts, Engine!Aborts, Analyzer!OldEntry, Engine!OldEntry,
        Analyzer!Same, Engine!Same, Analyzer!SetTop, Engine!SetTop,
        Analyzer!InBlocks, Engine!InBlocks, Analyzer!Top, Engine!Top,
        Analyzer!Results, Engine!Results, Analyzer!StateAt, Engine!StateAt,
        Analyzer!ExitKey, Engine!ExitKey,
        Analyzer!IsEntryExit, Engine!IsEntryExit,
        Analyzer!StmtKey, Engine!StmtKey, Analyzer!Elements, Engine!Elements,
        Analyzer!AtBlockEnd, Engine!AtBlockEnd,
        Analyzer!Successors, Engine!Successors,
        Analyzer!InStmts, Engine!InStmts,
        Analyzer!IsAnalyzedCall, Engine!IsAnalyzedCall,
        Analyzer!CurrentStmt, Engine!CurrentStmt,
        Analyzer!CurrentKey, Engine!CurrentKey,
        Analyzer!Advance, Engine!Advance, Analyzer!InCall, Engine!InCall,
        Analyzer!Callee, Engine!Callee,
        Analyzer!CallIsKnown, Engine!CallIsKnown,
        Analyzer!CallIsActive, Engine!CallIsActive,
        Analyzer!CalleeEntry, Engine!CalleeEntry,
        Analyzer!CalleeContext, Engine!CalleeContext,
        Analyzer!PlContext, Engine!PlContext,
        Analyzer!FunctionReturns, Engine!FunctionReturns,
        Analyzer!FunctionContext, Engine!FunctionContext,
        Analyzer!FunctionDone, Engine!FunctionDone,
        Analyzer!CompareResultsFails, Engine!CompareResultsFails,
        Analyzer!MergeFails, Engine!MergeFails,
        Analyzer!ComparisonFails, Engine!ComparisonFails,
        Analyzer!TopContext, Engine!TopContext,
        Analyzer!Finished, Engine!Finished,
        Analyzer!Construct, Engine!Construct,
        Analyzer!Predecessors, Engine!Predecessors,
        Analyzer!MergeInState, Engine!MergeInState,
        Analyzer!IsInjective, Engine!IsInjective,
        Analyzer!Assign, Engine!Assign,
        Analyzer!FunctionChanged, Engine!FunctionChanged,
        Analyzer!Normal, Engine!Normal, Analyzer!HasCall, Engine!HasCall

LEMMA SameSetToSeq ==
  ASSUME NEW S
  PROVE  Analyzer!SetToSeq(S) = Engine!SetToSeq(S)
BY DEF Analyzer!SetToSeq, Engine!SetToSeq, Analyzer!Cardinality,
       Engine!Cardinality

LEMMA SameMerge ==
  ASSUME NEW r, NEW f, NEW b
  PROVE  Analyzer!MergePrevStates(r, f, b) = Engine!MergePrevStates(r, f, b)
BY DEF Analyzer!MergePrevStates, Engine!MergePrevStates

LEMMA SameFailure ==
  ASSUME NEW x, NEW y
  PROVE  Analyzer!CompareMayFail(x, y) = Engine!CompareMayFail(x, y)
BY DEF Analyzer!CompareMayFail, Engine!CompareMayFail, Analyzer!Cardinality,
       Engine!Cardinality

LEMMA SameEnd ==
  ASSUME NEW x, NEW y
  PROVE  Analyzer!CompareMayEnd(x, y) = Engine!CompareMayEnd(x, y)
BY SameFailure DEF Analyzer!CompareMayEnd, Engine!CompareMayEnd

LEMMA SameAssign ==
  ASSUME NEW all, NEW ctx, NEW key, NEW state
  PROVE  Analyzer!AssignIn(all, ctx, key, state) =
           Engine!AssignIn(all, ctx, key, state)
BY DEF Analyzer!AssignIn, Engine!AssignIn

LEMMA SameRequeue ==
  ASSUME Analyzer!RequeueCallers
  PROVE  Engine!RequeueCallers
BY SameSetToSeq DEF Analyzer!RequeueCallers, Engine!RequeueCallers

LEMMA SameStep ==
  ASSUME Analyzer!Step
  PROVE  Engine!Step
<1>1. CASE Analyzer!PopContext
  <2>1. Engine!PopContext
    BY <1>1, SameAssign DEF Analyzer!PopContext, Engine!PopContext
  <2>2. QED
    BY <2>1 DEF Engine!Step
<1>2. CASE Analyzer!SkipBlock
  <2>1. Engine!SkipBlock
    BY <1>2, SameMerge, SameEnd DEF Analyzer!SkipBlock, Engine!SkipBlock
  <2>2. QED
    BY <2>1 DEF Engine!Step
<1>3. CASE Analyzer!EnterBlock
  <2>1. Engine!EnterBlock
    BY <1>3, SameMerge, SameEnd, SameAssign DEF Analyzer!EnterBlock, Engine!EnterBlock
  <2>2. QED
    BY <2>1 DEF Engine!Step
<1>4. CASE Analyzer!FinishBlock
  <2>1. Engine!FinishBlock
    BY <1>4, SameEnd, SameAssign DEF Analyzer!FinishBlock, Engine!FinishBlock
  <2>2. QED
    BY <2>1 DEF Engine!Step
<1>5. CASE Analyzer!TransferStmt
  <2>1. Engine!TransferStmt
    BY <1>5, SameAssign DEF Analyzer!TransferStmt, Engine!TransferStmt
  <2>2. QED
    BY <2>1 DEF Engine!Step
<1>6. CASE Analyzer!CallWithoutBody
  <2>1. Engine!CallWithoutBody
    BY <1>6 DEF Analyzer!CallWithoutBody, Engine!CallWithoutBody
  <2>2. QED
    BY <2>1 DEF Engine!Step
<1>7. CASE Analyzer!SkipCall
  <2>1. Engine!SkipCall
    BY <1>7, SameEnd DEF Analyzer!SkipCall, Engine!SkipCall
  <2>2. QED
    BY <2>1 DEF Engine!Step
<1>8. CASE Analyzer!EnterCall
  <2>1. Engine!EnterCall
    BY <1>8, SameEnd, SameAssign DEF Analyzer!EnterCall, Engine!EnterCall
  <2>2. QED
    BY <2>1 DEF Engine!Step
<1>9. CASE Analyzer!ReturnToTop
  <2>1. Engine!ReturnToTop
    BY <1>9, SameRequeue DEF Analyzer!ReturnToTop, Engine!ReturnToTop
  <2>2. QED
    BY <2>1 DEF Engine!Step
<1>10. CASE Analyzer!ReturnToCaller
  <2>1. Engine!ReturnToCaller
    BY <1>10, SameAssign, SameRequeue DEF Analyzer!ReturnToCaller, Engine!ReturnToCaller
  <2>2. QED
    BY <2>1 DEF Engine!Step
<1>11. CASE Analyzer!Abort
  <2>1. Engine!Abort
    BY <1>11, SameMerge, SameFailure DEF Analyzer!Abort, Engine!Abort
  <2>2. QED
    BY <2>1 DEF Engine!Step
<1>12. CASE Analyzer!DumpResults
  <2>1. Engine!DumpResults
    BY <1>12 DEF Analyzer!DumpResults, Engine!DumpResults
  <2>2. QED
    BY <2>1 DEF Engine!Step
<1>13. QED
  BY <1>1, <1>2, <1>3, <1>4, <1>5, <1>6, <1>7, <1>8, <1>9, <1>10, <1>11, <1>12
  DEF Analyzer!Step

LEMMA SameThrough ==
  ASSUME NEW f, NEW b, NEW state
  PROVE  Analyzer!Through(f, b, state) = Engine!Through(f, b, state)
BY DEF Analyzer!Through, Engine!Through

LEMMA SameSolution ==
  ASSUME Engine!IsSolution
  PROVE  Analyzer!IsSolution
BY SameMerge, SameThrough DEF Analyzer!IsSolution, Engine!IsSolution

LEMMA SameInit == Analyzer!AnalyzerInit => Engine!AnalyzerInit
BY DEF Analyzer!AnalyzerInit, Engine!AnalyzerInit

LEMMA SameNext ==
  [Analyzer!AnalyzerNext]_Analyzer!analyzerVars =>
    [Engine!AnalyzerNext]_Engine!analyzerVars
<1>1. Analyzer!ParseTUD => Engine!ParseTUD
  BY DEF Analyzer!ParseTUD, Engine!ParseTUD
<1>2. \A f : Analyzer!StartUnit(f) => Engine!StartUnit(f)
  BY DEF Analyzer!StartUnit, Engine!StartUnit
<1>3. Analyzer!AnalyzerStep => Engine!AnalyzerStep
  BY <1>1, <1>2, SameStep DEF Analyzer!AnalyzerStep, Engine!AnalyzerStep
<1>4. QED
  BY <1>3 DEF Analyzer!AnalyzerNext, Engine!AnalyzerNext,
     Analyzer!analyzerVars, Engine!analyzerVars, Analyzer!vars, Engine!vars

HIDE DEF Analyzer!Running, Engine!Running, Analyzer!Front, Engine!Front,
         Analyzer!Last, Engine!Last, Analyzer!Invoke, Engine!Invoke,
         Analyzer!BlockKey, Engine!BlockKey, Analyzer!Entry, Engine!Entry,
         Analyzer!EntryState, Engine!EntryState,
         Analyzer!ResultsOf, Engine!ResultsOf, Analyzer!Frame, Engine!Frame,
         Analyzer!FunctionKey, Engine!FunctionKey,
         Analyzer!EmptyResults, Engine!EmptyResults,
         Analyzer!Exit, Engine!Exit, Analyzer!EmptyState, Engine!EmptyState,
         Analyzer!NoCall, Engine!NoCall,
         Analyzer!NextBlock, Engine!NextBlock,
         Analyzer!Aborts, Engine!Aborts, Analyzer!OldEntry, Engine!OldEntry,
         Analyzer!Same, Engine!Same, Analyzer!SetTop, Engine!SetTop,
         Analyzer!InBlocks, Engine!InBlocks, Analyzer!Top, Engine!Top,
         Analyzer!Results, Engine!Results, Analyzer!StateAt, Engine!StateAt,
         Analyzer!ExitKey, Engine!ExitKey,
         Analyzer!IsEntryExit, Engine!IsEntryExit,
         Analyzer!StmtKey, Engine!StmtKey,
         Analyzer!Elements, Engine!Elements,
         Analyzer!AtBlockEnd, Engine!AtBlockEnd,
         Analyzer!Successors, Engine!Successors,
         Analyzer!InStmts, Engine!InStmts,
         Analyzer!IsAnalyzedCall, Engine!IsAnalyzedCall,
         Analyzer!CurrentStmt, Engine!CurrentStmt,
         Analyzer!CurrentKey, Engine!CurrentKey,
         Analyzer!Advance, Engine!Advance, Analyzer!InCall, Engine!InCall,
         Analyzer!Callee, Engine!Callee,
         Analyzer!CallIsKnown, Engine!CallIsKnown,
         Analyzer!CallIsActive, Engine!CallIsActive,
         Analyzer!CalleeEntry, Engine!CalleeEntry,
         Analyzer!CalleeContext, Engine!CalleeContext,
         Analyzer!PlContext, Engine!PlContext,
         Analyzer!FunctionReturns, Engine!FunctionReturns,
         Analyzer!FunctionContext, Engine!FunctionContext,
         Analyzer!FunctionDone, Engine!FunctionDone,
         Analyzer!CompareResultsFails, Engine!CompareResultsFails,
         Analyzer!MergeFails, Engine!MergeFails,
         Analyzer!ComparisonFails, Engine!ComparisonFails,
         Analyzer!TopContext, Engine!TopContext,
         Analyzer!Finished, Engine!Finished,
         Analyzer!Construct, Engine!Construct,
         Analyzer!Predecessors, Engine!Predecessors,
         Analyzer!MergeInState, Engine!MergeInState,
         Analyzer!IsInjective, Engine!IsInjective,
         Analyzer!Assign, Engine!Assign,
         Analyzer!FunctionChanged, Engine!FunctionChanged,
         Analyzer!Normal, Engine!Normal,
         Analyzer!HasCall, Engine!HasCall

LEMMA SpecIsEngineSpec == Spec => Engine!AnalyzerSpec
BY SameInit, SameNext, PTL
DEF Spec, Analyzer!FairAnalyzerSpec, Analyzer!AnalyzerSpec, Engine!AnalyzerSpec

-----------------------------------------------------------------------------
(* The promises of AnalyzerProofs *)

\* What the instance of the engine's proofs assumes of the programs
LEMMA EngineGraphs ==
  \A p \in Programs : \A f \in DOMAIN p : Engine!IsGraph(p[f])
BY PairProgramsAssumption DEF Analyzer!IsGraph, Engine!IsGraph

\* The statements of a function, as the global parser and the engine see them
LEMMA FunctionStmts ==
  ASSUME NEW p \in Programs, NEW g \in DOMAIN p
  PROVE  /\ \A b \in 0 .. p[g].last : \A i \in 1 .. Len(p[g].elems[b]) :
              p[g].elems[b][i] \in Stmts(p, g)
         /\ \A s \in Stmts(p, g) : \E b \in 0 .. p[g].last :
              \E i \in 1 .. Len(p[g].elems[b]) : s = p[g].elems[b][i]
<1>1. HasBlocks(p, g, Statement)
  BY EngineGraphs DEF Engine!IsGraph, HasBlocks
<1>2. /\ \A b \in 0 .. p[g].last : \A i \in Positions(p, g, b) :
           p[g].elems[b][i] \in Stmts(p, g)
      /\ \A s \in Stmts(p, g) : \E b \in 0 .. p[g].last :
           \E i \in Positions(p, g, b) : s = p[g].elems[b][i]
  BY <1>1, StmtsInBlocks
<1>3. QED
  BY <1>2 DEF Positions

LEMMA UnitsClosed ==
  ASSUME NEW p \in Programs, NEW f \in DOMAIN p
  PROVE  Engine!ClosedUnder(p, f)
<1>1. IsFiniteSet(DOMAIN p)
  BY PairProgramsAssumption
<1>2. Reached(p, f, f)
  BY <1>1, UnitFunctions
<1>3. ASSUME NEW g \in DOMAIN p, Reached(p, f, g), NEW b \in 0 .. p[g].last,
             NEW i \in 1 .. Len(p[g].elems[b]),
             p[g].elems[b][i].op = "call", p[g].elems[b][i].callee \in DOMAIN p
      PROVE  Reached(p, f, p[g].elems[b][i].callee)
  <2>1. p[g].elems[b][i] \in Stmts(p, g)
    BY <1>3, FunctionStmts
  <2>2. QED
    BY <1>1, <1>3, <2>1, CallStaysInUnit
<1>4. QED
  BY <1>2, <1>3 DEF Engine!ClosedUnder, Engine!Blocks, Engine!IsAnalyzedCall

LEMMA MergesLocated ==
  ASSUME NEW p, NEW f
  PROVE  Engine!StatesMerge(p, f)
<1> SUFFICES ASSUME NEW m, NEW x, NEW y,
                    StateLocated(p, f, m, x), StateLocated(p, f, m, y)
             PROVE  StateLocated(p, f, m, Engine!MergeInState(x, y))
  BY DEF Engine!StatesMerge
<1> DEFINE z == Engine!MergeInState(x, y)
<1>1. \A v \in DOMAIN x \cap DOMAIN y :
        /\ Meet(x[v], y[v]) \in Values
        /\ IsWriteFlush(Meet(x[v], y[v])) => IsWriteFlush(y[v])
  BY MeetFacts DEF StateLocated
<1>2. /\ DOMAIN z = DOMAIN x \cup DOMAIN y
      /\ \A v \in DOMAIN z : z[v] = IF v \notin DOMAIN y THEN x[v]
                                    ELSE IF v \in DOMAIN x THEN Meet(x[v], y[v])
                                    ELSE y[v]
  BY DEF Engine!MergeInState
<1> HIDE DEF z
<1>3. StateLocated(p, f, m, z)
  BY <1>1, <1>2 DEF StateLocated
<1>4. QED
  BY <1>3 DEF z

LEMMA StatementsLocated ==
  ASSUME NEW p, NEW f
  PROVE  Engine!StatementsKeep(p, f)
<1> SUFFICES ASSUME NEW m, NEW x, NEW key, NEW s,
                    ReportsLocated(p, f, m), StateLocated(p, f, m, x),
                    key # <<>>
             PROVE  LET r == HandleStmt(key, s, x, m)
                    IN  /\ ReportsLocated(p, f, r.manager)
                        /\ StateLocated(p, f, r.manager, r.state)
                        /\ \A y : StateLocated(p, f, m, y) =>
                                    StateLocated(p, f, r.manager, y)
  BY DEF Engine!StatementsKeep
<1> DEFINE r == HandleStmt(key, s, x, m)
<1>1. key # NullStmt
  BY DEF NullStmt
<1>2. Keeps(p, f, m, r)
  BY <1>1, HandleStmtKeeps
<1> HIDE DEF r
<1>3. \A y : StateLocated(p, f, m, y) => StateLocated(p, f, r.manager, y)
  BY <1>2, StaysLocated DEF Keeps
<1>4. QED
  BY <1>2, <1>3 DEF Keeps, r

LEMMA PairPromises == Engine!Promises
<1> SUFFICES ASSUME NEW p \in Programs
             PROVE  /\ \A f \in DOMAIN p : Engine!IsGraph(p[f])
                    /\ AnalyzedFunctions(p) \subseteq DOMAIN p
                    /\ \A f \in DOMAIN p :
                         /\ Engine!ClosedUnder(p, f) /\ Engine!ManagerStarts(p, f)
                         /\ Engine!StatesStart(p, f) /\ Engine!StatesMerge(p, f)
                         /\ Engine!StatementsKeep(p, f)
  BY DEF Engine!Promises
<1>1. AnalyzedFunctions(p) \subseteq DOMAIN p
  BY DEF AnalyzedFunctions
<1>2. ASSUME NEW f \in DOMAIN p
      PROVE  Engine!ManagerStarts(p, f) /\ Engine!StatesStart(p, f)
  <2>1. Engine!ManagerStarts(p, f)
    BY DEF Engine!ManagerStarts, ReportsLocated, InitManager, NextManager,
           InitUnit
  <2>2. \A m : StateLocated(p, f, m, Engine!EmptyState)
    BY DEF StateLocated, Engine!EmptyState
  <2>3. QED
    BY <2>1, <2>2, InitLocated DEF Engine!StatesStart
<1>3. QED
  BY <1>1, <1>2, EngineGraphs, UnitsClosed, MergesLocated, StatementsLocated

-----------------------------------------------------------------------------
(* The promises by which nothing is left out *)

\* The checker's engine and the instance have the same programs in order.
LEMMA SameOrder ==
  ASSUME NEW p
  PROVE  Analyzer!InOrder(p) <=> Engine!InOrder(p)
BY DEF Analyzer!InOrder, Analyzer!IsReached, Engine!InOrder, Engine!IsReached

\* The statements of a unit, as the global parser and the engine see them
LEMMA UnitStmtFacts ==
  ASSUME NEW p \in Programs, NEW f \in DOMAIN p, NEW g, Reached(p, f, g),
         NEW s \in Stmts(p, g)
  PROVE  /\ s.op \in {"assign", "read"} /\ s.var \in UsedVars =>
              s.var \in UnitVariables(p, f)
         /\ IsForeign(p, f, s) => HasForeign(p, f)
<1>1. s \in UnitStmts(p, f)
  BY DEF UnitStmts, Reached
<1>2. QED
  BY <1>1 DEF UnitVariables, HasForeign, Reached

LEMMA UnitsLeast ==
  ASSUME NEW p \in Programs, NEW f \in DOMAIN p
  PROVE  Engine!LeastUnit(p, f)
<1> SUFFICES ASSUME NEW X \in SUBSET DOMAIN p, f \in X,
                    Engine!HoldsCallees(p, X),
                    NEW g \in DOMAIN p, Reached(p, f, g)
             PROVE  g \in X
  BY DEF Engine!LeastUnit
<1>1. ASSUME NEW h \in X, NEW s \in Stmts(p, h), s.op = "call",
             s.callee \in DOMAIN p
      PROVE  s.callee \in X
  <2>1. PICK b \in 0 .. p[h].last : \E i \in 1 .. Len(p[h].elems[b]) :
               s = p[h].elems[b][i]
    BY FunctionStmts
  <2>2. QED
    BY <1>1, <2>1 DEF Engine!HoldsCallees, Engine!Blocks, Engine!Positions,
       Engine!IsAnalyzedCall
<1>2. IsFiniteSet(DOMAIN p)
  BY PairProgramsAssumption
<1>3. QED
  BY <1>1, <1>2, UnitLeast

LEMMA UnitsReady ==
  ASSUME NEW p, NEW f
  PROVE  Engine!UnitReady(p, f)
BY DEF Engine!UnitReady, ReportsOfUnit, NextManager, InitUnit

LEMMA StartTyped ==
  ASSUME NEW p, NEW f
  PROVE  Engine!SoundStart(p, f)
<1>1. StateTyped(p, f, Engine!EmptyState)
  BY DEF StateTyped, Engine!EmptyState
<1>2. ASSUME NEW m, ReportsOfUnit(p, f, m)
      PROVE  Engine!Full(p, f, InitLatticeValues(m))
  <2> DEFINE x == InitLatticeValues(m)
  <2>1. DOMAIN x = UnitVariables(p, f)
    BY <1>2 DEF InitLatticeValues, ReportsOfUnit
  <2>2. UnitVariables(p, f) \subseteq UsedVars
    BY DEF UnitVariables
  <2>3. \A v \in DOMAIN x : x[v] \in PairLattice /\ x[v].type # "None"
    BY <1>2, <2>1, <2>2, InitTypes DEF InitLatticeValues, ReportsOfUnit
  <2> HIDE DEF x
  <2>4. StateTyped(p, f, x)
    BY <2>1, <2>3 DEF StateTyped
  <2>5. f \in TrackingUnits(p) => DOMAIN x # {}
    BY <2>1 DEF TrackingUnits
  <2>6. QED
    BY <2>4, <2>5 DEF Engine!Full, x
<1>3. QED
  BY <1>1, <1>2 DEF Engine!SoundStart

LEMMA MergesTyped ==
  ASSUME NEW p, NEW f
  PROVE  Engine!SoundMerge(p, f)
<1> SUFFICES ASSUME NEW x, NEW y
             PROVE  LET z == Engine!MergeInState(x, y)
                    IN  /\ StateTyped(p, f, x) => ~Engine!Aborts(x)
                        /\ Engine!Aborts(x) => Engine!Aborts(z)
                        /\ StateTyped(p, f, x) /\ StateTyped(p, f, y) =>
                             StateTyped(p, f, z) \/ Engine!Aborts(z)
  BY DEF Engine!SoundMerge
<1> DEFINE z == Engine!MergeInState(x, y)
<1>1. /\ DOMAIN z = DOMAIN x \cup DOMAIN y
      /\ \A v \in DOMAIN z : z[v] = IF v \notin DOMAIN y THEN x[v]
                                    ELSE IF v \in DOMAIN x THEN Meet(x[v], y[v])
                                    ELSE y[v]
  BY DEF Engine!MergeInState
<1> HIDE DEF z
<1>2. StateTyped(p, f, x) => ~Engine!Aborts(x)
  BY FailedFacts DEF StateTyped, Engine!Aborts
<1>3. Engine!Aborts(x) => Engine!Aborts(z)
  BY <1>1, FailedFacts DEF Engine!Aborts
<1>4. ASSUME StateTyped(p, f, x), StateTyped(p, f, y), ~Engine!Aborts(z)
      PROVE  StateTyped(p, f, z)
  <2>1. ASSUME NEW v \in DOMAIN z
        PROVE  /\ z[v] \in PairLattice
               /\ z[v].type = "None" <=> v \notin UnitVariables(p, f)
    <3>1. CASE v \in DOMAIN x /\ v \in DOMAIN y
      <4>1. /\ x[v] \in PairLattice /\ y[v] \in PairLattice
            /\ y[v].type = "None" <=> v \notin UnitVariables(p, f)
        BY <1>4, <3>1 DEF StateTyped
      <4>2. z[v] = Meet(x[v], y[v]) /\ z[v] # AssertFailed
        BY <1>1, <1>4, <2>1, <3>1 DEF Engine!Aborts
      <4>3. QED
        BY <4>1, <4>2, MeetTypes
    <3>2. CASE ~(v \in DOMAIN x /\ v \in DOMAIN y)
      BY <1>1, <1>4, <2>1, <3>2 DEF StateTyped
    <3>3. QED
      BY <3>1, <3>2
  <2>2. /\ DOMAIN z = {} \/ UnitVariables(p, f) \subseteq DOMAIN z
        /\ ~HasForeign(p, f) => DOMAIN z \subseteq UnitVariables(p, f)
    BY <1>1, <1>4 DEF StateTyped
  <2>3. QED
    BY <2>1, <2>2 DEF StateTyped
<1>5. QED
  BY <1>2, <1>3, <1>4 DEF z

LEMMA StatementsTyped ==
  ASSUME NEW p \in Programs, NEW f \in AnalyzedFunctions(p)
  PROVE  Engine!SoundStmts(p, f)
<1> SUFFICES ASSUME NEW m, NEW x, NEW key, NEW s,
                    ReportsOfUnit(p, f, m), ReportsLocated(p, f, m),
                    Engine!Full(p, f, x), Engine!IsUnitStmt(p, f, s)
             PROVE  LET r == HandleStmt(key, s, x, m)
                    IN  /\ ReportsOfUnit(p, f, r.manager)
                        /\ Engine!Full(p, f, r.state)
                        /\ Engine!Marked(x) \/ IsForeign(p, f, s) =>
                             Engine!Marked(r.state)
  BY DEF Engine!SoundStmts
<1> DEFINE r == HandleStmt(key, s, x, m)
<1> HIDE DEF r
<1>1. PICK g \in DOMAIN p :
        /\ Reached(p, f, g)
        /\ \E b \in 0 .. p[g].last : \E i \in 1 .. Len(p[g].elems[b]) :
             s = p[g].elems[b][i]
  BY DEF Engine!IsUnitStmt, Engine!Blocks, Engine!Positions
<1>2. s \in Stmts(p, g) /\ f \in DOMAIN p
  <2>1. \A b \in 0 .. p[g].last : \A i \in 1 .. Len(p[g].elems[b]) :
          p[g].elems[b][i] \in Stmts(p, g)
    BY FunctionStmts
  <2>2. f \in DOMAIN p
    BY DEF AnalyzedFunctions
  <2>3. QED
    BY <1>1, <2>1, <2>2
<1>3. /\ s.op = "assign" /\ s.var \in UsedVars => s.var \in UnitVariables(p, f)
      /\ IsForeign(p, f, s) => HasForeign(p, f)
  BY <1>1, <1>2, UnitStmtFacts
<1>4. StateTyped(p, f, x) /\ UnitVariables(p, f) \subseteq DOMAIN x
  BY DEF Engine!Full, StateTyped, TrackingUnits
<1>5. KeepsTypes(p, f, x, r, IsForeign(p, f, s))
  BY <1>3, <1>4, HandleStmtTypes DEF r
<1>6. Engine!Full(p, f, r.state)
  BY <1>5 DEF KeepsTypes, Engine!Full, TrackingUnits
<1>7. QED
  BY <1>5, <1>6 DEF KeepsTypes, Engine!Marked, r

LEMMA PairCoverPromises == Engine!CoverPromises
<1> SUFFICES ASSUME NEW p \in Programs
             PROVE  \A f \in AnalyzedFunctions(p) :
                      /\ Engine!UnitReady(p, f) /\ Engine!SoundStart(p, f)
                      /\ Engine!SoundMerge(p, f) /\ Engine!SoundStmts(p, f)
                      /\ Engine!LeastUnit(p, f)
  BY DEF Engine!CoverPromises
<1>1. AnalyzedFunctions(p) \subseteq DOMAIN p
  BY DEF AnalyzedFunctions
<1>2. QED
  BY <1>1, UnitsReady, StartTyped, MergesTyped,
     StatementsTyped, UnitsLeast

-----------------------------------------------------------------------------
(* The promises of the solution of the dataflow equations *)

LEMMA ValuesDecide ==
  ASSUME NEW p, NEW f
  PROVE  Engine!MeetsDecide(p, f)
<1>1. \A x : StateTyped(p, f, x) =>
        \A v \in DOMAIN x : UnitValue(p, f, v, x[v])
  BY DEF StateTyped, UnitValue
<1>2. \A v, x, y : UnitValue(p, f, v, x) /\ UnitValue(p, f, v, y) =>
        /\ UnitValue(p, f, v, Meet(x, y))
        /\ Meet(Meet(x, y), Meet(x, y)) = Meet(y, y)
  BY MeetOfUnit
<1>3. QED
  BY <1>1, <1>2 DEF Engine!MeetsDecide, Engine!NormOf

\* What checkBug reads is there: it adds nothing to the state.
LEMMA TouchesNothing ==
  ASSUME NEW state, NEW var, NEW val, NEW vars, vars \subseteq DOMAIN state
  PROVE  Touch(Put(state, var, val), vars) = Put(state, var, val)
<1> DEFINE new == Put(state, var, val)
<1>1. new = [v \in DOMAIN new |-> new[v]] /\ DOMAIN new = DOMAIN state \cup {var}
  BY DEF Put
<1> HIDE DEF new
<1>2. DOMAIN new \cup vars = DOMAIN new
  BY <1>1
<1>3. Touch(new, vars) = [v \in DOMAIN new |-> new[v]]
  BY <1>2 DEF Touch, ValueOf
<1>4. QED
  BY <1>1, <1>3 DEF new

LEMMA ReportsDecideNothing ==
  ASSUME NEW p \in Programs, NEW f \in AnalyzedFunctions(p)
  PROVE  Engine!StmtsAgree(p, f)
<1>1. ASSUME NEW m, NEW n, NEW x, NEW key, NEW s,
             ReportsOfUnit(p, f, m), ReportsOfUnit(p, f, n),
             Engine!Full(p, f, x), Engine!IsUnitStmt(p, f, s)
      PROVE  HandleStmt(key, s, x, m).state = HandleStmt(key, s, x, n).state
  <2>1. UnitVariables(p, f) \subseteq DOMAIN x
    BY <1>1 DEF Engine!Full, StateTyped, TrackingUnits
  <2>2. \A var : /\ CheckedVars(m, var) \subseteq DOMAIN x
                 /\ CheckedVars(n, var) \subseteq DOMAIN x
    BY <1>1, <2>1 DEF CheckedVars, GetPairSet, ReportsOfUnit
  <2>3. \A var : HandleWrite(key, var, x, m).state =
                 HandleWrite(key, var, x, n).state
    BY <2>2, TouchesNothing DEF HandleWrite, Result
  <2>4. \A b, var : HandleFlush(key, b, var, x, m).state =
                    HandleFlush(key, b, var, x, n).state
    BY DEF HandleFlush, Result
  <2>5. \A b : HandleFence(key, b, x, m).state = HandleFence(key, b, x, n).state
    BY DEF HandleFence, Result
  <2>6. QED
    BY <2>3, <2>4, <2>5 DEF HandleStmt, Result
<1>2. QED
  BY <1>1 DEF Engine!StmtsAgree

LEMMA PairSolutionPromises == Engine!SolutionPromises
BY ValuesDecide, ReportsDecideNothing DEF Engine!SolutionPromises

-----------------------------------------------------------------------------
(* The theorems *)

LEMMA PairAnalysisInv == Spec => []Engine!AnalysisInv
BY PairPromises, EngineGraphs, SpecIsEngineSpec, Engine!AnalysisInvariance, PTL

LEMMA LocationsFromStates == Engine!AnalysisInv => LastLocationKnown
<1> SUFFICES ASSUME Engine!AnalysisInv PROVE LastLocationKnown
  OBVIOUS
<1>1. /\ ReportsLocated(prog, topFunction, manager)
      /\ Engine!ResultsOK(prog, topFunction, manager, allResults)
  BY DEF Engine!AnalysisInv, Engine!StatesKept
<1>2. \A bug \in manager.bugs : bug.pairStmt # NullStmt
  BY <1>1 DEF ReportsLocated
<1>3. \A ctx \in DOMAIN allResults : \A key \in DOMAIN allResults[ctx] :
        StateLocated(prog, topFunction, manager, allResults[ctx][key])
  BY <1>1 DEF Engine!ResultsOK
<1>4. QED
  BY <1>2, <1>3 DEF LastLocationKnown, StateLocated

(***************************************************************************)
(* The assertion in checkBug: whatever the order in which blocks, calls    *)
(* and units are analysed, a partner found unordered has a last location.  *)
(***************************************************************************)
THEOREM LastLocationsKnown == Spec => []LastLocationKnown
BY PairAnalysisInv, LocationsFromStates, PTL

LEMMA CrashesFromStates == Engine!AnalysisInv => CrashExplained
<1> SUFFICES ASSUME Engine!AnalysisInv PROVE CrashExplained
  OBVIOUS
<1>1. prog \in Programs /\ topFunction \in DOMAIN prog
  BY DEF Engine!AnalysisInv, Engine!UnitKnown
<1>2. ParseTerminates(prog) <=> ~CannotTrack
  BY DEF ParseTerminates, Tracks, CannotTrack
<1>3. ASSUME Engine!CallsNoBody(prog, topFunction)
      PROVE  CallsWithoutBody(topFunction)
  <2>1. PICK g \in DOMAIN prog :
          /\ Reached(prog, topFunction, g)
          /\ \E b \in 0 .. prog[g].last : \E i \in 1 .. Len(prog[g].elems[b]) :
               /\ prog[g].elems[b][i].op = "call"
               /\ prog[g].elems[b][i].callee \notin DOMAIN prog
    BY <1>3 DEF Engine!CallsNoBody, Engine!Blocks, Engine!IsAnalyzedCall
  <2>2. \E c \in Calls(prog, g) : c \notin DOMAIN prog
    BY <1>1, <2>1, FunctionStmts DEF Calls
  <2>3. QED
    BY <2>1, <2>2 DEF CallsWithoutBody, Reached
<1>4. QED
  BY <1>2, <1>3 DEF Engine!AnalysisInv, Engine!CrashKnown, CrashExplained,
     UnitDone

(***************************************************************************)
(* A segmentation fault has one of three reasons: a recursive function or  *)
(* a call through a pointer below an analysed function, and a call of a    *)
(* function without a body in the unit analysed.  With the first two no    *)
(* unit is ever analysed.                                                  *)
(***************************************************************************)
THEOREM CrashesExplained == Spec => []CrashExplained
BY PairAnalysisInv, CrashesFromStates, PTL

\* Only a variable that the unit does not track has no type.
LEMMA AbortsForeign ==
  ASSUME NEW p, NEW f, Engine!CanAbort(p, f)
  PROVE  HasForeign(p, f)
<1> SUFFICES ASSUME ~HasForeign(p, f) PROVE FALSE
  OBVIOUS
<1>1. \A x : StateTyped(p, f, x) =>
        \A v \in DOMAIN x : x[v] \in PairLattice /\ x[v].type # "None"
  BY DEF StateTyped
<1>2. ASSUME NEW x, NEW y, StateTyped(p, f, x), StateTyped(p, f, y),
             NEW v \in DOMAIN Engine!MergeInState(x, y)
      PROVE  Engine!MergeInState(x, y)[v] # AssertFailed
  BY <1>1, <1>2, MeetTypes, FailedFacts DEF Engine!MergeInState
<1>3. \A x : StateTyped(p, f, x) =>
        \A v \in DOMAIN x : ~NoEqualFails(x[v]) /\ ~DumpAsserts(x[v])
  BY <1>1 DEF NoEqualFails, DumpAsserts
<1>4. QED
  BY <1>2, <1>3 DEF Engine!CanAbort, Engine!Aborts

\* A unit that is done flushes no variable that it does not track, and calls
\* functions with a body only.
LEMMA GoneThroughFacts ==
  ASSUME NEW p \in Programs, NEW f \in AnalyzedFunctions(p),
         Engine!IsGoneThrough(p, f)
  PROVE  ~HasForeign(p, f) /\ \A g : Reached(p, f, g) => Calls(p, g) \subseteq DOMAIN p
<1>1. f \in DOMAIN p /\ IsFiniteSet(DOMAIN p)
  BY PairProgramsAssumption DEF AnalyzedFunctions
<1>2. ASSUME NEW g \in DOMAIN p,
             g = f \/ (f \in TrackingUnits(p) /\ Reached(p, f, g)),
             NEW s \in Stmts(p, g)
      PROVE  /\ s.op = "call" => s.callee \in DOMAIN p
             /\ ~IsForeign(p, f, s)
  <2>1. PICK b \in 0 .. p[g].last : \E i \in 1 .. Len(p[g].elems[b]) :
               s = p[g].elems[b][i]
    BY <1>2, FunctionStmts
  <2>2. IF s.op = "call" THEN s.callee \in DOMAIN p ELSE ~IsForeign(p, f, s)
    BY <1>2, <2>1 DEF Engine!IsGoneThrough, Engine!Blocks, Engine!Positions,
       Engine!IsCallAt, Engine!IsAnalyzedCall
  <2>3. QED
    BY <2>2 DEF IsForeign
<1>3. f \in TrackingUnits(p)
  <2>1. SUFFICES ASSUME UnitVariables(p, f) = {} PROVE FALSE
    BY DEF TrackingUnits
  <2>2. PICK s \in Stmts(p, f) :
          s.op \in VarOps \cup {"read"} /\ s.var \in UsedVars
    BY DEF AnalyzedFunctions
  <2>3. Reached(p, f, f)
    BY <1>1, UnitFunctions
  <2>4. s.op \notin {"assign", "read"}
    BY <1>1, <2>1, <2>2, <2>3, UnitStmtFacts
  <2>5. IsForeign(p, f, s)
    BY <2>1, <2>2, <2>4 DEF IsForeign, VarOps
  <2>6. QED
    BY <1>1, <1>2, <2>5
<1>4. \A g : Reached(p, f, g) => g \in DOMAIN p
  BY <1>1, UnitFunctions
<1>5. ~HasForeign(p, f)
  BY <1>2, <1>3, <1>4 DEF HasForeign, Reached
<1>6. ASSUME NEW g, Reached(p, f, g)
      PROVE  Calls(p, g) \subseteq DOMAIN p
  BY <1>2, <1>3, <1>4, <1>6 DEF Calls
<1>7. QED
  BY <1>5, <1>6

LEMMA PairEnds == Spec => []Engine!EndKnown
BY PairPromises, PairCoverPromises, EngineGraphs, SpecIsEngineSpec, Engine!Ends,
   PTL

LEMMA DeathsFromStates ==
  Engine!AnalysisInv /\ Engine!EndKnown => DeathExplained
<1> SUFFICES ASSUME Engine!AnalysisInv, Engine!EndKnown
             PROVE  DeathExplained
  OBVIOUS
<1>1. prog \in Programs /\ topFunction \in DOMAIN prog
  BY DEF Engine!AnalysisInv, Engine!UnitKnown
<1>2. HasForeign(prog, topFunction) <=> FlushesForeign(topFunction)
  BY DEF HasForeign, IsForeign, FlushesForeign
<1>3. Engine!InOrder(prog) /\ status = "aborted" => FlushesForeign(topFunction)
  BY <1>2, AbortsForeign DEF Engine!EndKnown
<1>4. ASSUME Engine!InOrder(prog), UnitDone
      PROVE  ~CallsWithoutBody(topFunction) /\ ~FlushesForeign(topFunction)
  <2>1. /\ topFunction \in AnalyzedFunctions(prog)
        /\ Engine!IsGoneThrough(prog, topFunction)
    BY <1>4 DEF UnitDone, Engine!EndKnown, Engine!UnitStarted
  <2>2. /\ ~HasForeign(prog, topFunction)
        /\ \A g : Reached(prog, topFunction, g) =>
             Calls(prog, g) \subseteq DOMAIN prog
    BY <1>1, <2>1, GoneThroughFacts
  <2>3. QED
    BY <1>2, <2>2 DEF CallsWithoutBody, Reached
<1>5. QED
  BY <1>3, <1>4, SameOrder, CrashesFromStates DEF DeathExplained

(***************************************************************************)
(* The plugin dies for four reasons and from each of them: beside those of *)
(* a segmentation fault, in a unit that flushes a used variable none of    *)
(* its functions mentions outside of flushes.  Every other program whose   *)
(* blocks the engine meets in order is analysed to the end, with no call   *)
(* or flush of a unit left out.                                            *)
(***************************************************************************)
THEOREM DeathsExplained == Spec => []DeathExplained
BY PairAnalysisInv, PairEnds, DeathsFromStates, PTL

LEMMA EngineSolves ==
  (Engine!InOrder(prog) => Engine!IsSolution) =>
    (Analyzer!InOrder(prog) => Analyzer!IsSolution)
BY SameOrder, SameSolution

(***************************************************************************)
(* The states the pair checker's results are read from solve the dataflow  *)
(* equations of the function they belong to, loops and calls included: the *)
(* merge, which drops the value it is called on, has nothing to change any *)
(* more, and what was reported before has no say in a state.               *)
(***************************************************************************)
THEOREM PairSolution ==
  Spec => [](Analyzer!InOrder(prog) => Analyzer!IsSolution)
<1>1. Engine!AnalyzerSpec => [](Engine!InOrder(prog) => Engine!IsSolution)
  BY PairPromises, PairCoverPromises, PairSolutionPromises, EngineGraphs,
     Engine!Solution
<1>2. QED
  BY <1>1, SpecIsEngineSpec, EngineSolves, PTL
=============================================================================
