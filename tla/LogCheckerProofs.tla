-------------------------- MODULE LogCheckerProofs --------------------------
(***************************************************************************)
(* The log checker on a whole translation unit, calls, merges and loops    *)
(* included: a double log has the location of a first one, the process is  *)
(* aborted for one reason and always from it, and the results solve the    *)
(* dataflow equations.  For all programs and members.                      *)
(***************************************************************************)
EXTENDS LogChecker, GlobalParserProofs

-----------------------------------------------------------------------------
(* What every state and every Manager is *)

\* The values that are met, those of failed assertions included
Values == [type : LatticeType \cup {"None", "AssertFailed"},
           tx : Int, log : {Logged, Unseen}]

\* A member that is logged has a location.
StateLocated(p, f, m, state) ==
  \A v \in DOMAIN state :
    /\ state[v] \in Values
    /\ IsLogged(state[v]) => LastLocation(m, v) # NullStmt

ReportsLocated(p, f, m) ==
  /\ DOMAIN m = {"unitVars", "lastLocation", "bugged", "bugs"}
  /\ \A b \in m.bugs : b.bugType = "DoubleLog" => b.logStmt # NullStmt

(***************************************************************************)
(* A state of unit f holds all that the unit tracks or nothing.  What is   *)
(* tracked has a type and nothing else has one; only a log of a member     *)
(* brings that in.                                                         *)
(***************************************************************************)

Tracked(p, f) == UnitVariables(p, f) \cup {TxBegin}

\* A log of a member that the unit does not track
IsForeign(p, f, s) ==
  s.op = "log" /\ s.var \in LogField \ UnitVariables(p, f)

HasForeign(p, f) == \E s \in UnitStmts(p, f) : IsForeign(p, f, s)

StateTyped(p, f, state) ==
  /\ DOMAIN state = {} \/ Tracked(p, f) \subseteq DOMAIN state
  /\ \A v \in DOMAIN state :
       /\ state[v] \in LogLattice
       /\ state[v].type = "None" <=> v \notin Tracked(p, f)
  /\ ~HasForeign(p, f) => DOMAIN state \subseteq Tracked(p, f)

ReportsOfUnit(p, f, m) == m.unitVars = UnitVariables(p, f)

\* A value a merge in unit f may come to: typed, or one that aborts.
UnitValue(p, f, v, o) ==
  IF v \in Tracked(p, f) THEN o \in LogLattice /\ o.type # "None"
  ELSE o = AssertFailed \/ (o \in LogLattice /\ o.type = "None")

-----------------------------------------------------------------------------
(* The lattice and the bug reporter *)

LEMMA MeetFacts ==
  ASSUME NEW x \in Values, NEW y \in Values
  PROVE  /\ Meet(x, y) \in Values
         /\ IsLogged(Meet(x, y)) => IsLogged(y)
BY DEF Meet, MeetValue, OfType, AssertFailed, Values, LatticeType, Lower,
       IsLogged, Logged, Unseen

LEMMA ValueFacts ==
  /\ DefaultValue \in Values /\ ~IsLogged(DefaultValue)
  /\ GetInitTx \in Values /\ ~IsLogged(GetInitTx)
  /\ GetInitVar \in Values /\ ~IsLogged(GetInitVar)
  /\ \A x \in Values :
       /\ GetLogged(x) \in Values
       /\ GetBeginTx(x) \in Values /\ GetBeginTx(x).log = x.log
       /\ GetEndTx(x) \in Values /\ GetEndTx(x).log = x.log
BY DEF DefaultValue, GetInitTx, GetInitVar, OfType, AssertFailed, Values,
       LatticeType, IsLogged, Logged, Unseen, GetLogged, GetBeginTx, GetEndTx

LEMMA ValueLocated ==
  ASSUME NEW p, NEW f, NEW m, NEW state, StateLocated(p, f, m, state), NEW v
  PROVE  /\ ValueOf(state, v) \in Values
         /\ IsLogged(ValueOf(state, v)) => LastLocation(m, v) # NullStmt
BY ValueFacts DEF StateLocated, ValueOf

\* A state is located in a Manager that knows more locations.
LEMMA StaysLocated ==
  ASSUME NEW p, NEW f, NEW m, NEW new,
         \A v : LastLocation(m, v) # NullStmt => LastLocation(new, v) # NullStmt,
         NEW state, StateLocated(p, f, m, state)
  PROVE  StateLocated(p, f, new, state)
BY DEF StateLocated

\* Bugs that are no double logs, or have a location, may be added.
LEMMA AddBugsFacts ==
  ASSUME NEW p, NEW f, NEW m, ReportsLocated(p, f, m), NEW var, NEW found,
         \A b \in found : b.bugType = "DoubleLog" => b.logStmt # NullStmt
  PROVE  LET new == AddBugs(m, var, found)
         IN  /\ ReportsLocated(p, f, new)
             /\ new.lastLocation = m.lastLocation
BY DEF AddBugs, ReportsLocated

LEMMA OutsideTxFacts ==
  ASSUME NEW var, NEW S, NEW state
  PROVE  \A b \in CheckOutsideTxBug(var, S, state) : b.bugType = "OutsideTx"
BY DEF CheckOutsideTxBug, BugData

LEMMA CheckFacts ==
  ASSUME NEW p, NEW f, NEW m, ReportsLocated(p, f, m),
         NEW state, StateLocated(p, f, m, state), NEW var, NEW S, NEW new,
         new \in {CheckNotLoggedBug(var, S, state, m),
                  CheckDoubleLogBug(var, S, state, m)}
  PROVE  /\ ReportsLocated(p, f, new)
         /\ new.lastLocation = m.lastLocation
<1> DEFINE outside == CheckOutsideTxBug(var, S, state)
           missing == IF IsLogged(ValueOf(state, var))
                      THEN {} ELSE {BugData(S, NullStmt, var, "NotLogged")}
           double  == IF IsLogged(ValueOf(state, var))
                      THEN {BugData(S, LastLocation(m, var), var, "DoubleLog")}
                      ELSE {}
<1>1. \A b \in outside : b.bugType = "OutsideTx"
  BY OutsideTxFacts
<1>2. \A b \in missing : b.bugType = "NotLogged"
  BY DEF BugData
<1>3. \A b \in double : b.logStmt # NullStmt
  BY ValueLocated DEF BugData
<1>4. \/ new = m
      \/ new = AddBugs(m, var, outside \cup missing)
      \/ new = AddBugs(m, var, outside \cup double)
  BY DEF CheckNotLoggedBug, CheckDoubleLogBug
<1> HIDE DEF outside, missing, double
<1>5. CASE new = m
  BY <1>5
<1>6. CASE new = AddBugs(m, var, outside \cup missing)
  BY <1>1, <1>2, <1>6, AddBugsFacts
<1>7. CASE new = AddBugs(m, var, outside \cup double)
  BY <1>1, <1>3, <1>7, AddBugsFacts
<1>8. QED
  BY <1>4, <1>5, <1>6, <1>7

-----------------------------------------------------------------------------
(* The transfer functions *)

\* What a transfer function keeps, for the state it is given and all others
Keeps(p, f, m, r) ==
  /\ ReportsLocated(p, f, r.manager) /\ StateLocated(p, f, r.manager, r.state)
  /\ \A v : LastLocation(m, v) # NullStmt => LastLocation(r.manager, v) # NullStmt

\* What the checks add to a state is not logged.
LEMMA CheckedLocated ==
  ASSUME NEW p, NEW f, NEW m, NEW state, StateLocated(p, f, m, state), NEW var
  PROVE  StateLocated(p, f, m, Checked(var, state, m))
BY ValueLocated DEF StateLocated, Checked

LEMMA HandleWriteKeeps ==
  ASSUME NEW p, NEW f, NEW m, ReportsLocated(p, f, m),
         NEW state, StateLocated(p, f, m, state), NEW S, NEW var
  PROVE  Keeps(p, f, m, HandleWrite(S, var, state, m))
<1> DEFINE new == CheckNotLoggedBug(var, S, state, m)
<1>1. ReportsLocated(p, f, new) /\ new.lastLocation = m.lastLocation
  BY CheckFacts
<1> HIDE DEF new
<1>2. \A v : LastLocation(new, v) = LastLocation(m, v)
  BY <1>1 DEF LastLocation
<1>3. StateLocated(p, f, new, Checked(var, state, m))
  BY <1>2, CheckedLocated, StaysLocated
<1>4. HandleWrite(S, var, state, m) =
        Result(Checked(var, state, m), FALSE, new)
  BY DEF HandleWrite, new
<1>5. QED
  BY <1>1, <1>2, <1>3, <1>4 DEF Keeps, Result

LEMMA HandleLogKeeps ==
  ASSUME NEW p, NEW f, NEW m, ReportsLocated(p, f, m),
         NEW state, StateLocated(p, f, m, state), NEW S, S # NullStmt, NEW var
  PROVE  Keeps(p, f, m, HandleLog(S, var, state, m))
<1> DEFINE checked == CheckDoubleLogBug(var, S, state, m)
           updated == UpdateLastLocation(checked, var, S)
           read    == Checked(var, state, m)
           new     == Put(read, var, GetLogged(ValueOf(state, var)))
<1>1. ReportsLocated(p, f, checked) /\ checked.lastLocation = m.lastLocation
  BY CheckFacts
<1> HIDE DEF checked
<1>2. /\ ReportsLocated(p, f, updated)
      /\ \A v : LastLocation(updated, v) =
                  IF v = var THEN S ELSE LastLocation(m, v)
  BY <1>1 DEF ReportsLocated, UpdateLastLocation, Put, LastLocation
<1> HIDE DEF updated
<1>3. GetLogged(ValueOf(state, var)) \in Values
  BY ValueLocated, ValueFacts
<1>4. StateLocated(p, f, updated, read)
  BY <1>2, CheckedLocated, StaysLocated
<1> HIDE DEF read
<1>5. StateLocated(p, f, updated, new)
  BY <1>2, <1>3, <1>4 DEF StateLocated, Put
<1>6. HandleLog(S, var, state, m) = Result(new, TRUE, updated)
  BY DEF HandleLog, new, read, updated, checked
<1>7. QED
  BY <1>2, <1>5, <1>6 DEF Keeps, Result

\* A statement that changes the transaction only
LEMMA TxKeeps ==
  ASSUME NEW p, NEW f, NEW m, ReportsLocated(p, f, m),
         NEW state, StateLocated(p, f, m, state), NEW val \in Values,
         val.log = ValueOf(state, TxBegin).log
  PROVE  Keeps(p, f, m, Result(Put(state, TxBegin, val), TRUE, m))
<1>1. IsLogged(val) => LastLocation(m, TxBegin) # NullStmt
  BY ValueLocated DEF IsLogged
<1>2. StateLocated(p, f, m, Put(state, TxBegin, val))
  BY <1>1 DEF StateLocated, Put
<1>3. QED
  BY <1>2 DEF Keeps, Result

LEMMA HandleStmtKeeps ==
  ASSUME NEW p, NEW f, NEW m, ReportsLocated(p, f, m),
         NEW state, StateLocated(p, f, m, state), NEW S, S # NullStmt, NEW s
  PROVE  Keeps(p, f, m, HandleStmt(S, s, state, m))
<1>1. CASE IsUsed(s) /\ s.op = "assign"
  BY <1>1, HandleWriteKeeps DEF HandleStmt
<1>2. CASE IsUsed(s) /\ s.op = "log"
  BY <1>2, HandleLogKeeps DEF HandleStmt
<1>3. CASE s.op = "tx_begin"
  <2>1. Keeps(p, f, m, HandleTxBegin(state, m))
    BY TxKeeps, ValueLocated, ValueFacts DEF HandleTxBegin
  <2>2. QED
    BY <1>3, <2>1 DEF HandleStmt, IsUsed
<1>4. CASE s.op = "tx_end"
  <2>1. Keeps(p, f, m, HandleTxEnd(state, m))
    BY TxKeeps, ValueLocated, ValueFacts DEF HandleTxEnd
  <2>2. QED
    BY <1>4, <2>1 DEF HandleStmt, IsUsed
<1>5. CASE ~IsUsed(s) /\ s.op # "tx_begin" /\ s.op # "tx_end"
  BY <1>5 DEF HandleStmt, Keeps, Result
<1>6. QED
  BY <1>1, <1>2, <1>3, <1>4, <1>5 DEF IsUsed

\* A unit starts with nothing logged.
LEMMA InitLocated ==
  ASSUME NEW p, NEW f, NEW m
  PROVE  StateLocated(p, f, m, InitLatticeValues(m))
BY ValueFacts DEF StateLocated, InitLatticeValues

-----------------------------------------------------------------------------
(* Types *)

\* A meet is of the second value's type, and asserts that it has one.
LEMMA MeetTypes ==
  ASSUME NEW x \in LogLattice, NEW y \in LogLattice
  PROVE  IF y.type = "None" THEN Meet(x, y) = AssertFailed
         ELSE Meet(x, y) \in LogLattice /\ Meet(x, y).type = y.type
BY DEF Meet, MeetValue, OfType, AssertFailed, LogLattice, LatticeType, Lower,
       Logged, Unseen

LEMMA FailedFacts ==
  /\ AssertFailed \notin LogLattice
  /\ \A y : Meet(AssertFailed, y) = AssertFailed
BY DEF Meet, AssertFailed, LogLattice, LatticeType

\* What a meet makes of a value it makes of the meet.
LEMMA MeetNormal ==
  ASSUME NEW x \in LogLattice, NEW y \in LogLattice, y.type # "None"
  PROVE  Meet(Meet(x, y), Meet(x, y)) = Meet(y, y)
<1>1. x # AssertFailed /\ y # AssertFailed /\ y.type \in LatticeType
  BY FailedFacts DEF LogLattice
<1>2. OfType(y.type) \in LogLattice
  BY <1>1 DEF OfType, LogLattice, LatticeType
<1>3. \A z \in LogLattice : Meet(z, y) = MeetValue(OfType(y.type), y)
  BY <1>1, <1>2, FailedFacts DEF Meet
<1> DEFINE z == MeetValue(OfType(y.type), y)
<1>4. z \in LogLattice /\ z.type = y.type
  BY <1>3, MeetTypes
<1>5. MeetValue(OfType(y.type), z) = z
  BY <1>1 DEF MeetValue, OfType, LogLattice, LatticeType, Lower, Logged, Unseen
<1> HIDE DEF z
<1>6. Meet(z, z) = MeetValue(OfType(z.type), z)
  <2>1. z # AssertFailed /\ OfType(z.type) # AssertFailed
    BY <1>2, <1>4, FailedFacts
  <2>2. QED
    BY <2>1 DEF Meet
<1>7. QED
  BY <1>3, <1>4, <1>5, <1>6 DEF z

LEMMA MeetOfUnit ==
  ASSUME NEW p, NEW f, NEW v, NEW x, NEW y, UnitValue(p, f, v, x),
         UnitValue(p, f, v, y)
  PROVE  /\ UnitValue(p, f, v, Meet(x, y))
         /\ Meet(Meet(x, y), Meet(x, y)) = Meet(y, y)
<1>1. CASE v \in Tracked(p, f)
  <2>1. x \in LogLattice /\ y \in LogLattice /\ y.type # "None"
    BY <1>1 DEF UnitValue
  <2>2. Meet(x, y) \in LogLattice /\ Meet(x, y).type # "None"
    BY <2>1, MeetTypes
  <2>3. QED
    BY <1>1, <2>1, <2>2, MeetNormal DEF UnitValue
<1>2. CASE v \notin Tracked(p, f)
  <2>1. \A z : Meet(z, AssertFailed) = AssertFailed
    BY DEF Meet, OfType, AssertFailed, LatticeType
  <2>2. \A z \in LogLattice : \A w \in LogLattice :
          w.type = "None" => Meet(z, w) = AssertFailed
    BY MeetTypes
  <2>3. Meet(x, y) = AssertFailed /\ Meet(y, y) = AssertFailed
    BY <1>2, <2>1, <2>2, FailedFacts DEF UnitValue
  <2>4. QED
    BY <1>2, <2>1, <2>3 DEF UnitValue
<1>3. QED
  BY <1>1, <1>2

\* No transfer function changes the type of a value.
LEMMA ValueTypes ==
  /\ DefaultValue \in LogLattice
  /\ GetInitTx \in LogLattice /\ GetInitTx.type # "None"
  /\ GetInitVar \in LogLattice /\ GetInitVar.type # "None"
  /\ \A x \in LogLattice :
       /\ GetLogged(x) \in LogLattice /\ GetLogged(x).type = x.type
       /\ GetBeginTx(x) \in LogLattice /\ GetBeginTx(x).type = x.type
       /\ GetEndTx(x) \in LogLattice /\ GetEndTx(x).type = x.type
BY DEF DefaultValue, GetInitTx, GetInitVar, OfType, AssertFailed, LogLattice,
       LatticeType, Logged, Unseen, GetLogged, GetBeginTx, GetEndTx

\* A new state with the types of the old one, and vars in it as well
Retyped(old, new, vars) ==
  /\ DOMAIN new = DOMAIN old \cup vars
  /\ \A v \in DOMAIN new : /\ new[v] \in LogLattice
                           /\ new[v].type = ValueOf(old, v).type

LEMMA RetypedIsTyped ==
  ASSUME NEW p, NEW f, NEW old, StateTyped(p, f, old),
         Tracked(p, f) \subseteq DOMAIN old,
         NEW new, NEW vars, Retyped(old, new, vars),
         HasForeign(p, f) \/ vars \subseteq Tracked(p, f)
  PROVE  /\ StateTyped(p, f, new)
         /\ Tracked(p, f) \subseteq DOMAIN new
         /\ \A v \in DOMAIN old : DumpAsserts(old[v]) =>
              v \in DOMAIN new /\ DumpAsserts(new[v])
         /\ \A v \in vars \ Tracked(p, f) :
              v \in DOMAIN new /\ DumpAsserts(new[v])
<1>1. \A v \in DOMAIN new :
        new[v].type = IF v \in DOMAIN old THEN old[v].type ELSE "None"
  BY DEF Retyped, ValueOf, DefaultValue
<1>2. \A v \in DOMAIN new :
        /\ new[v] \in LogLattice
        /\ new[v].type = "None" <=> v \notin Tracked(p, f)
  BY <1>1 DEF Retyped, StateTyped
<1>3. DOMAIN new = DOMAIN old \cup vars
  BY DEF Retyped
<1>4. StateTyped(p, f, new)
  BY <1>2, <1>3 DEF StateTyped
<1>5. QED
  BY <1>1, <1>2, <1>3, <1>4 DEF DumpAsserts

LEMMA ValueTyped ==
  ASSUME NEW p, NEW f, NEW state, StateTyped(p, f, state), NEW v
  PROVE  ValueOf(state, v) \in LogLattice
BY ValueTypes DEF StateTyped, ValueOf

LEMMA PutRetypes ==
  ASSUME NEW p, NEW f, NEW state, StateTyped(p, f, state), NEW var,
         NEW val \in LogLattice, val.type = ValueOf(state, var).type
  PROVE  Retyped(state, Put(state, var, val), {var})
BY ValueTyped DEF Retyped, Put, StateTyped, ValueOf

LEMMA CheckedRetypes ==
  ASSUME NEW p, NEW f, NEW m, NEW state, StateTyped(p, f, state), NEW var
  PROVE  Retyped(state, Checked(var, state, m),
                 IF var \in m.bugged THEN {} ELSE {var, TxBegin})
BY ValueTyped DEF Retyped, Checked

-----------------------------------------------------------------------------
(* The transfer functions on states with types *)

LEMMA CheckOfUnit ==
  ASSUME NEW p, NEW f, NEW m, ReportsLocated(p, f, m), NEW var, NEW S,
         NEW state, NEW new,
         new \in {CheckNotLoggedBug(var, S, state, m),
                  CheckDoubleLogBug(var, S, state, m)}
  PROVE  /\ DOMAIN new = {"unitVars", "lastLocation", "bugged", "bugs"}
         /\ new.unitVars = m.unitVars
<1>1. \A found : /\ DOMAIN AddBugs(m, var, found) = DOMAIN m
                 /\ AddBugs(m, var, found).unitVars = m.unitVars
  BY DEF AddBugs, ReportsLocated
<1>2. new = m \/ \E found : new = AddBugs(m, var, found)
  BY DEF CheckNotLoggedBug, CheckDoubleLogBug
<1>3. QED
  BY <1>1, <1>2 DEF ReportsLocated

\* What a transfer function keeps; marked tells whether it marks the state.
KeepsTypes(p, f, state, r, marked) ==
  /\ ReportsOfUnit(p, f, r.manager)
  /\ StateTyped(p, f, r.state) /\ Tracked(p, f) \subseteq DOMAIN r.state
  /\ (\E v \in DOMAIN state : DumpAsserts(state[v])) \/ marked =>
       \E v \in DOMAIN r.state : DumpAsserts(r.state[v])

LEMMA HandleWriteTypes ==
  ASSUME NEW p, NEW f, NEW m, ReportsLocated(p, f, m), ReportsOfUnit(p, f, m),
         NEW state, StateTyped(p, f, state),
         Tracked(p, f) \subseteq DOMAIN state,
         NEW S, NEW var \in Tracked(p, f)
  PROVE  KeepsTypes(p, f, state, HandleWrite(S, var, state, m), FALSE)
<1> DEFINE new     == Checked(var, state, m)
           checked == CheckNotLoggedBug(var, S, state, m)
           read    == IF var \in m.bugged THEN {} ELSE {var, TxBegin}
<1>1. HandleWrite(S, var, state, m) = Result(new, FALSE, checked)
  BY DEF HandleWrite
<1>2. checked.unitVars = m.unitVars
  BY CheckOfUnit
<1> HIDE DEF checked
<1>3. Retyped(state, new, read)
  BY CheckedRetypes
<1>4. read \subseteq Tracked(p, f)
  BY DEF Tracked
<1> HIDE DEF new, read
<1>5. /\ StateTyped(p, f, new) /\ Tracked(p, f) \subseteq DOMAIN new
      /\ \A v \in DOMAIN state : DumpAsserts(state[v]) =>
           v \in DOMAIN new /\ DumpAsserts(new[v])
  BY <1>3, <1>4, RetypedIsTyped
<1>6. QED
  BY <1>1, <1>2, <1>5 DEF KeepsTypes, Result, ReportsOfUnit

LEMMA HandleLogTypes ==
  ASSUME NEW p, NEW f, NEW m, ReportsLocated(p, f, m), ReportsOfUnit(p, f, m),
         NEW state, StateTyped(p, f, state),
         Tracked(p, f) \subseteq DOMAIN state, NEW S, NEW var,
         HasForeign(p, f) \/ var \in Tracked(p, f)
  PROVE  KeepsTypes(p, f, state, HandleLog(S, var, state, m),
                    var \notin Tracked(p, f))
<1> DEFINE checked == CheckDoubleLogBug(var, S, state, m)
           updated == UpdateLastLocation(checked, var, S)
           read    == IF var \in m.bugged THEN {} ELSE {var, TxBegin}
           after   == Checked(var, state, m)
           val     == GetLogged(ValueOf(state, var))
           new     == Put(after, var, val)
<1>1. HandleLog(S, var, state, m) = Result(new, TRUE, updated)
  BY DEF HandleLog
<1>2. updated.unitVars = m.unitVars
  <2>1. /\ DOMAIN checked = {"unitVars", "lastLocation", "bugged", "bugs"}
        /\ checked.unitVars = m.unitVars
    BY CheckOfUnit
  <2> HIDE DEF checked
  <2>2. QED
    BY <2>1 DEF UpdateLastLocation
<1>3. Retyped(state, after, read)
  BY CheckedRetypes
<1>4. HasForeign(p, f) \/ read \subseteq Tracked(p, f)
  BY DEF Tracked
<1>5. val \in LogLattice /\ val.type = ValueOf(state, var).type
  BY ValueTyped, ValueTypes
<1> HIDE DEF updated, read, val
<1>6. ValueOf(after, var).type = ValueOf(state, var).type
  BY <1>5 DEF Checked, ValueOf
<1> HIDE DEF after
<1>7. /\ StateTyped(p, f, after) /\ Tracked(p, f) \subseteq DOMAIN after
      /\ \A v \in DOMAIN state : DumpAsserts(state[v]) =>
           v \in DOMAIN after /\ DumpAsserts(after[v])
  BY <1>3, <1>4, RetypedIsTyped
<1>8. Retyped(after, new, {var})
  BY <1>5, <1>6, <1>7, PutRetypes
<1> HIDE DEF new
<1>9. HasForeign(p, f) \/ {var} \subseteq Tracked(p, f)
  OBVIOUS
<1>10. /\ StateTyped(p, f, new) /\ Tracked(p, f) \subseteq DOMAIN new
       /\ \A v \in DOMAIN after : DumpAsserts(after[v]) =>
            v \in DOMAIN new /\ DumpAsserts(new[v])
       /\ \A v \in {var} \ Tracked(p, f) :
            v \in DOMAIN new /\ DumpAsserts(new[v])
  BY <1>7, <1>8, <1>9, RetypedIsTyped
<1>11. QED
  BY <1>1, <1>2, <1>7, <1>10 DEF KeepsTypes, Result, ReportsOfUnit

LEMMA TxTypes ==
  ASSUME NEW p, NEW f, NEW m, ReportsOfUnit(p, f, m),
         NEW state, StateTyped(p, f, state),
         Tracked(p, f) \subseteq DOMAIN state, NEW val \in LogLattice,
         val.type = ValueOf(state, TxBegin).type
  PROVE  KeepsTypes(p, f, state, Result(Put(state, TxBegin, val), TRUE, m),
                    FALSE)
<1> DEFINE new == Put(state, TxBegin, val)
<1>1. Retyped(state, new, {TxBegin})
  BY PutRetypes
<1>2. {TxBegin} \subseteq Tracked(p, f)
  BY DEF Tracked
<1> HIDE DEF new
<1>3. /\ StateTyped(p, f, new) /\ Tracked(p, f) \subseteq DOMAIN new
      /\ \A v \in DOMAIN state : DumpAsserts(state[v]) =>
           v \in DOMAIN new /\ DumpAsserts(new[v])
  BY <1>1, <1>2, RetypedIsTyped
<1>4. QED
  BY <1>3 DEF KeepsTypes, Result, new

\* Of a statement that the unit tracks, or logs only
LEMMA HandleStmtTypes ==
  ASSUME NEW p, NEW f, NEW m, ReportsLocated(p, f, m), ReportsOfUnit(p, f, m),
         NEW state, StateTyped(p, f, state),
         Tracked(p, f) \subseteq DOMAIN state, NEW S, NEW s,
         s.op = "assign" /\ s.var \in LogField => s.var \in Tracked(p, f),
         IsForeign(p, f, s) => HasForeign(p, f)
  PROVE  KeepsTypes(p, f, state, HandleStmt(S, s, state, m), IsForeign(p, f, s))
<1>1. CASE IsUsed(s) /\ s.op = "assign"
  <2>1. s.var \in Tracked(p, f) /\ ~IsForeign(p, f, s)
    BY <1>1 DEF IsUsed, IsForeign
  <2>2. HandleStmt(S, s, state, m) = HandleWrite(S, s.var, state, m)
    BY <1>1 DEF HandleStmt
  <2>3. KeepsTypes(p, f, state, HandleWrite(S, s.var, state, m), FALSE)
    BY <2>1, HandleWriteTypes
  <2>4. QED
    BY <2>1, <2>2, <2>3 DEF KeepsTypes
<1>2. CASE IsUsed(s) /\ s.op = "log"
  <2>1. IsForeign(p, f, s) <=> s.var \notin Tracked(p, f)
    BY <1>2, TxAssumption DEF IsUsed, IsForeign, Tracked
  <2>2. HandleStmt(S, s, state, m) = HandleLog(S, s.var, state, m)
    BY <1>2 DEF HandleStmt
  <2>3. HasForeign(p, f) \/ s.var \in Tracked(p, f)
    BY <2>1
  <2>4. KeepsTypes(p, f, state, HandleLog(S, s.var, state, m),
                   s.var \notin Tracked(p, f))
    BY <2>3, HandleLogTypes
  <2>5. QED
    BY <2>1, <2>2, <2>4 DEF KeepsTypes
<1>3. CASE ~IsUsed(s)
  <2>1. ~IsForeign(p, f, s)
    BY <1>3 DEF IsForeign, IsUsed
  <2>2. ValueOf(state, TxBegin) \in LogLattice
    BY ValueTyped
  <2>3. CASE s.op = "tx_begin"
    <3>1. KeepsTypes(p, f, state, HandleTxBegin(state, m), FALSE)
      BY <2>2, TxTypes, ValueTypes DEF HandleTxBegin
    <3>2. QED
      BY <1>3, <2>1, <2>3, <3>1 DEF HandleStmt, KeepsTypes
  <2>4. CASE s.op = "tx_end"
    <3>1. KeepsTypes(p, f, state, HandleTxEnd(state, m), FALSE)
      BY <2>2, TxTypes, ValueTypes DEF HandleTxEnd
    <3>2. QED
      BY <1>3, <2>1, <2>4, <3>1 DEF HandleStmt, KeepsTypes
  <2>5. CASE s.op # "tx_begin" /\ s.op # "tx_end"
    <3>1. HandleStmt(S, s, state, m) = Result(state, FALSE, m)
      BY <1>3, <2>5 DEF HandleStmt
    <3>2. QED
      BY <2>1, <3>1 DEF KeepsTypes, Result
  <2>6. QED
    BY <2>3, <2>4, <2>5
<1>4. QED
  BY <1>1, <1>2, <1>3 DEF IsUsed

-----------------------------------------------------------------------------
(* The engine of AnalyzerProofs with the log checker's operators *)

Engine ==
  INSTANCE AnalyzerProofs WITH InitTopValues   <- InitLatticeValues,
                               ApplyTransfer   <- HandleStmt,
                               LatMeet         <- Meet,
                               LatAssertFailed <- AssertFailed,
                               LatEqualFails   <- EqualFails,
                               DumpFails       <- DumpAsserts,
                               StateOK         <- StateLocated,
                               ManagerOK       <- ReportsLocated,
                               InUnit          <- Reached,
                               FullUnits       <- AnalyzedFunctions,
                               SoundOK         <- StateTyped,
                               ReadyOK         <- ReportsOfUnit,
                               Marks           <- IsForeign,
                               ValueOK         <- UnitValue

(***************************************************************************)
(* It is the one of LogChecker: the two instances define the same.         *)
(***************************************************************************)
USE DEF Analyzer!Running, Engine!Running, Analyzer!Front, Engine!Front,
        Analyzer!Last, Engine!Last, Analyzer!Invoke, Engine!Invoke,
        Analyzer!BlockKey, Engine!BlockKey, Analyzer!Entry, Engine!Entry,
        Analyzer!EntryState, Engine!EntryState,
        Analyzer!ResultsOf, Engine!ResultsOf, Analyzer!Frame, Engine!Frame,
        Analyzer!FunctionKey, Engine!FunctionKey,
        Analyzer!EmptyResults, Engine!EmptyResults,
        Analyzer!Exit, Engine!Exit, Analyzer!EmptyState, Engine!EmptyState,
        Analyzer!NoCall, Engine!NoCall, Analyzer!NextBlock, Engine!NextBlock,
        Analyzer!Aborts, Engine!Aborts, Analyzer!OldEntry, Engine!OldEntry,
        Analyzer!Same, Engine!Same, Analyzer!SetTop, Engine!SetTop,
        Analyzer!InBlocks, Engine!InBlocks, Analyzer!Top, Engine!Top,
        Analyzer!Results, Engine!Results, Analyzer!StateAt, Engine!StateAt,
        Analyzer!ExitKey, Engine!ExitKey,
        Analyzer!IsEntryExit, Engine!IsEntryExit,
        Analyzer!StmtKey, Engine!StmtKey, Analyzer!Elements, Engine!Elements,
        Analyzer!AtBlockEnd, Engine!AtBlockEnd,
        Analyzer!Successors, Engine!Successors,
        Analyzer!InStmts, Engine!InStmts,
        Analyzer!IsAnalyzedCall, Engine!IsAnalyzedCall,
        Analyzer!CurrentStmt, Engine!CurrentStmt,
        Analyzer!CurrentKey, Engine!CurrentKey,
        Analyzer!Advance, Engine!Advance, Analyzer!InCall, Engine!InCall,
        Analyzer!Callee, Engine!Callee,
        Analyzer!CallIsKnown, Engine!CallIsKnown,
        Analyzer!CallIsActive, Engine!CallIsActive,
        Analyzer!CalleeEntry, Engine!CalleeEntry,
        Analyzer!CalleeContext, Engine!CalleeContext,
        Analyzer!PlContext, Engine!PlContext,
        Analyzer!FunctionReturns, Engine!FunctionReturns,
        Analyzer!FunctionContext, Engine!FunctionContext,
        Analyzer!FunctionDone, Engine!FunctionDone,
        Analyzer!CompareResultsFails, Engine!CompareResultsFails,
        Analyzer!MergeFails, Engine!MergeFails,
        Analyzer!ComparisonFails, Engine!ComparisonFails,
        Analyzer!TopContext, Engine!TopContext,
        Analyzer!Finished, Engine!Finished,
        Analyzer!Construct, Engine!Construct,
        Analyzer!Predecessors, Engine!Predecessors,
        Analyzer!MergeInState, Engine!MergeInState,
        Analyzer!IsInjective, Engine!IsInjective,
        Analyzer!Assign, Engine!Assign,
        Analyzer!FunctionChanged, Engine!FunctionChanged,
        Analyzer!Normal, Engine!Normal, Analyzer!HasCall, Engine!HasCall

LEMMA SameSetToSeq ==
  ASSUME NEW S
  PROVE  Analyzer!SetToSeq(S) = Engine!SetToSeq(S)
BY DEF Analyzer!SetToSeq, Engine!SetToSeq, Analyzer!Cardinality,
       Engine!Cardinality

LEMMA SameMerge ==
  ASSUME NEW r, NEW f, NEW b
  PROVE  Analyzer!MergePrevStates(r, f, b) = Engine!MergePrevStates(r, f, b)
BY DEF Analyzer!MergePrevStates, Engine!MergePrevStates

LEMMA SameFailure ==
  ASSUME NEW x, NEW y
  PROVE  Analyzer!CompareMayFail(x, y) = Engine!CompareMayFail(x, y)
BY DEF Analyzer!CompareMayFail, Engine!CompareMayFail, Analyzer!Cardinality,
       Engine!Cardinality

LEMMA SameEnd ==
  ASSUME NEW x, NEW y
  PROVE  Analyzer!CompareMayEnd(x, y) = Engine!CompareMayEnd(x, y)
BY SameFailure DEF Analyzer!CompareMayEnd, Engine!CompareMayEnd

LEMMA SameAssign ==
  ASSUME NEW all, NEW ctx, NEW key, NEW state
  PROVE  Analyzer!AssignIn(all, ctx, key, state) =
           Engine!AssignIn(all, ctx, key, state)
BY DEF Analyzer!AssignIn, Engine!AssignIn

LEMMA SameRequeue ==
  ASSUME Analyzer!RequeueCallers
  PROVE  Engine!RequeueCallers
BY SameSetToSeq DEF Analyzer!RequeueCallers, Engine!RequeueCallers

LEMMA SameStep ==
  ASSUME Analyzer!Step
  PROVE  Engine!Step
<1>1. CASE Analyzer!PopContext
  <2>1. Engine!PopContext
    BY <1>1, SameAssign DEF Analyzer!PopContext, Engine!PopContext
  <2>2. QED
    BY <2>1 DEF Engine!Step
<1>2. CASE Analyzer!SkipBlock
  <2>1. Engine!SkipBlock
    BY <1>2, SameMerge, SameEnd DEF Analyzer!SkipBlock, Engine!SkipBlock
  <2>2. QED
    BY <2>1 DEF Engine!Step
<1>3. CASE Analyzer!EnterBlock
  <2>1. Engine!EnterBlock
    BY <1>3, SameMerge, SameEnd, SameAssign DEF Analyzer!EnterBlock, Engine!EnterBlock
  <2>2. QED
    BY <2>1 DEF Engine!Step
<1>4. CASE Analyzer!FinishBlock
  <2>1. Engine!FinishBlock
    BY <1>4, SameEnd, SameAssign DEF Analyzer!FinishBlock, Engine!FinishBlock
  <2>2. QED
    BY <2>1 DEF Engine!Step
<1>5. CASE Analyzer!TransferStmt
  <2>1. Engine!TransferStmt
    BY <1>5, SameAssign DEF Analyzer!TransferStmt, Engine!TransferStmt
  <2>2. QED
    BY <2>1 DEF Engine!Step
<1>6. CASE Analyzer!CallWithoutBody
  <2>1. Engine!CallWithoutBody
    BY <1>6 DEF Analyzer!CallWithoutBody, Engine!CallWithoutBody
  <2>2. QED
    BY <2>1 DEF Engine!Step
<1>7. CASE Analyzer!SkipCall
  <2>1. Engine!SkipCall
    BY <1>7, SameEnd DEF Analyzer!SkipCall, Engine!SkipCall
  <2>2. QED
    BY <2>1 DEF Engine!Step
<1>8. CASE Analyzer!EnterCall
  <2>1. Engine!EnterCall
    BY <1>8, SameEnd, SameAssign DEF Analyzer!EnterCall, Engine!EnterCall
  <2>2. QED
    BY <2>1 DEF Engine!Step
<1>9. CASE Analyzer!ReturnToTop
  <2>1. Engine!ReturnToTop
    BY <1>9, SameRequeue DEF Analyzer!ReturnToTop, Engine!ReturnToTop
  <2>2. QED
    BY <2>1 DEF Engine!Step
<1>10. CASE Analyzer!ReturnToCaller
  <2>1. Engine!ReturnToCaller
    BY <1>10, SameAssign, SameRequeue DEF Analyzer!ReturnToCaller, Engine!ReturnToCaller
  <2>2. QED
    BY <2>1 DEF Engine!Step
<1>11. CASE Analyzer!Abort
  <2>1. Engine!Abort
    BY <1>11, SameMerge, SameFailure DEF Analyzer!Abort, Engine!Abort
  <2>2. QED
    BY <2>1 DEF Engine!Step
<1>12. CASE Analyzer!DumpResults
  <2>1. Engine!DumpResults
    BY <1>12 DEF Analyzer!DumpResults, Engine!DumpResults
  <2>2. QED
    BY <2>1 DEF Engine!Step
<1>13. QED
  BY <1>1, <1>2, <1>3, <1>4, <1>5, <1>6, <1>7, <1>8, <1>9, <1>10, <1>11, <1>12
  DEF Analyzer!Step

LEMMA SameThrough ==
  ASSUME NEW f, NEW b, NEW state
  PROVE  Analyzer!Through(f, b, state) = Engine!Through(f, b, state)
BY DEF Analyzer!Through, Engine!Through

LEMMA SameSolution ==
  ASSUME Engine!IsSolution
  PROVE  Analyzer!IsSolution
BY SameMerge, SameThrough DEF Analyzer!IsSolution, Engine!IsSolution

LEMMA SameInit == Analyzer!AnalyzerInit => Engine!AnalyzerInit
BY DEF Analyzer!AnalyzerInit, Engine!AnalyzerInit

LEMMA SameNext ==
  [Analyzer!AnalyzerNext]_Analyzer!analyzerVars =>
    [Engine!AnalyzerNext]_Engine!analyzerVars
<1>1. Analyzer!ParseTUD => Engine!ParseTUD
  BY DEF Analyzer!ParseTUD, Engine!ParseTUD
<1>2. \A f : Analyzer!StartUnit(f) => Engine!StartUnit(f)
  BY DEF Analyzer!StartUnit, Engine!StartUnit
<1>3. Analyzer!AnalyzerStep => Engine!AnalyzerStep
  BY <1>1, <1>2, SameStep DEF Analyzer!AnalyzerStep, Engine!AnalyzerStep
<1>4. QED
  BY <1>3 DEF Analyzer!AnalyzerNext, Engine!AnalyzerNext,
     Analyzer!analyzerVars, Engine!analyzerVars, Analyzer!vars, Engine!vars

HIDE DEF Analyzer!Running, Engine!Running, Analyzer!Front, Engine!Front,
         Analyzer!Last, Engine!Last, Analyzer!Invoke, Engine!Invoke,
         Analyzer!BlockKey, Engine!BlockKey, Analyzer!Entry, Engine!Entry,
         Analyzer!EntryState, Engine!EntryState,
         Analyzer!ResultsOf, Engine!ResultsOf, Analyzer!Frame, Engine!Frame,
         Analyzer!FunctionKey, Engine!FunctionKey,
         Analyzer!EmptyResults, Engine!EmptyResults,
         Analyzer!Exit, Engine!Exit, Analyzer!EmptyState, Engine!EmptyState,
         Analyzer!NoCall, Engine!NoCall,
         Analyzer!NextBlock, Engine!NextBlock,
         Analyzer!Aborts, Engine!Aborts, Analyzer!OldEntry, Engine!OldEntry,
         Analyzer!Same, Engine!Same, Analyzer!SetTop, Engine!SetTop,
         Analyzer!InBlocks, Engine!InBlocks, Analyzer!Top, Engine!Top,
         Analyzer!Results, Engine!Results, Analyzer!StateAt, Engine!StateAt,
         Analyzer!ExitKey, Engine!ExitKey,
         Analyzer!IsEntryExit, Engine!IsEntryExit,
         Analyzer!StmtKey, Engine!StmtKey,
         Analyzer!Elements, Engine!Elements,
         Analyzer!AtBlockEnd, Engine!AtBlockEnd,
         Analyzer!Successors, Engine!Successors,
         Analyzer!InStmts, Engine!InStmts,
         Analyzer!IsAnalyzedCall, Engine!IsAnalyzedCall,
         Analyzer!CurrentStmt, Engine!CurrentStmt,
         Analyzer!CurrentKey, Engine!CurrentKey,
         Analyzer!Advance, Engine!Advance, Analyzer!InCall, Engine!InCall,
         Analyzer!Callee, Engine!Callee,
         Analyzer!CallIsKnown, Engine!CallIsKnown,
         Analyzer!CallIsActive, Engine!CallIsActive,
         Analyzer!CalleeEntry, Engine!CalleeEntry,
         Analyzer!CalleeContext, Engine!CalleeContext,
         Analyzer!PlContext, Engine!PlContext,
         Analyzer!FunctionReturns, Engine!FunctionReturns,
         Analyzer!FunctionContext, Engine!FunctionContext,
         Analyzer!FunctionDone, Engine!FunctionDone,
         Analyzer!CompareResultsFails, Engine!CompareResultsFails,
         Analyzer!MergeFails, Engine!MergeFails,
         Analyzer!ComparisonFails, Engine!ComparisonFails,
         Analyzer!TopContext, Engine!TopContext,
         Analyzer!Finished, Engine!Finished,
         Analyzer!Construct, Engine!Construct,
         Analyzer!Predecessors, Engine!Predecessors,
         Analyzer!MergeInState, Engine!MergeInState,
         Analyzer!IsInjective, Engine!IsInjective,
         Analyzer!Assign, Engine!Assign,
         Analyzer!FunctionChanged, Engine!FunctionChanged,
         Analyzer!Normal, Engine!Normal, Analyzer!HasCall, Engine!HasCall

LEMMA SpecIsEngineSpec == Spec => Engine!AnalyzerSpec
BY SameInit, SameNext, PTL
DEF Spec, Analyzer!FairAnalyzerSpec, Analyzer!AnalyzerSpec, Engine!AnalyzerSpec

-----------------------------------------------------------------------------
(* The promises of AnalyzerProofs *)

\* What the instance of the engine's proofs assumes of the programs
LEMMA EngineGraphs ==
  \A p \in Programs : \A f \in DOMAIN p : Engine!IsGraph(p[f])
BY LogProgramsAssumption DEF Analyzer!IsGraph, Engine!IsGraph

\* The statements of a function, as the global parser and the engine see them
LEMMA FunctionStmts ==
  ASSUME NEW p \in Programs, NEW g \in DOMAIN p
  PROVE  /\ \A b \in 0 .. p[g].last : \A i \in 1 .. Len(p[g].elems[b]) :
              p[g].elems[b][i] \in Stmts(p, g)
         /\ \A s \in Stmts(p, g) : \E b \in 0 .. p[g].last :
              \E i \in 1 .. Len(p[g].elems[b]) : s = p[g].elems[b][i]
<1>1. HasBlocks(p, g, Statement)
  BY EngineGraphs DEF Engine!IsGraph, HasBlocks
<1>2. /\ \A b \in 0 .. p[g].last : \A i \in Positions(p, g, b) :
           p[g].elems[b][i] \in Stmts(p, g)
      /\ \A s \in Stmts(p, g) : \E b \in 0 .. p[g].last :
           \E i \in Positions(p, g, b) : s = p[g].elems[b][i]
  BY <1>1, StmtsInBlocks
<1>3. QED
  BY <1>2 DEF Positions

LEMMA UnitsClosed ==
  ASSUME NEW p \in Programs, NEW f \in DOMAIN p
  PROVE  Engine!ClosedUnder(p, f)
<1>1. IsFiniteSet(DOMAIN p)
  BY LogProgramsAssumption
<1>2. Reached(p, f, f)
  BY <1>1, UnitFunctions
<1>3. ASSUME NEW g \in DOMAIN p, Reached(p, f, g), NEW b \in 0 .. p[g].last,
             NEW i \in 1 .. Len(p[g].elems[b]),
             p[g].elems[b][i].op = "call", p[g].elems[b][i].callee \in DOMAIN p
      PROVE  Reached(p, f, p[g].elems[b][i].callee)
  <2>1. p[g].elems[b][i] \in Stmts(p, g)
    BY <1>3, FunctionStmts
  <2>2. QED
    BY <1>1, <1>3, <2>1, CallStaysInUnit
<1>4. QED
  BY <1>2, <1>3 DEF Engine!ClosedUnder, Engine!Blocks, Engine!IsAnalyzedCall

LEMMA MergesLocated ==
  ASSUME NEW p, NEW f
  PROVE  Engine!StatesMerge(p, f)
<1> SUFFICES ASSUME NEW m, NEW x, NEW y,
                    StateLocated(p, f, m, x), StateLocated(p, f, m, y)
             PROVE  StateLocated(p, f, m, Engine!MergeInState(x, y))
  BY DEF Engine!StatesMerge
<1> DEFINE z == Engine!MergeInState(x, y)
<1>1. \A v \in DOMAIN x \cap DOMAIN y :
        /\ Meet(x[v], y[v]) \in Values
        /\ IsLogged(Meet(x[v], y[v])) => IsLogged(y[v])
  BY MeetFacts DEF StateLocated
<1>2. /\ DOMAIN z = DOMAIN x \cup DOMAIN y
      /\ \A v \in DOMAIN z : z[v] = IF v \notin DOMAIN y THEN x[v]
                                    ELSE IF v \in DOMAIN x THEN Meet(x[v], y[v])
                                    ELSE y[v]
  BY DEF Engine!MergeInState
<1> HIDE DEF z
<1>3. StateLocated(p, f, m, z)
  BY <1>1, <1>2 DEF StateLocated
<1>4. QED
  BY <1>3 DEF z

LEMMA StatementsLocated ==
  ASSUME NEW p, NEW f
  PROVE  Engine!StatementsKeep(p, f)
<1> SUFFICES ASSUME NEW m, NEW x, NEW key, NEW s,
                    ReportsLocated(p, f, m), StateLocated(p, f, m, x),
                    key # <<>>
             PROVE  LET r == HandleStmt(key, s, x, m)
                    IN  /\ ReportsLocated(p, f, r.manager)
                        /\ StateLocated(p, f, r.manager, r.state)
                        /\ \A y : StateLocated(p, f, m, y) =>
                                    StateLocated(p, f, r.manager, y)
  BY DEF Engine!StatementsKeep
<1> DEFINE r == HandleStmt(key, s, x, m)
<1>1. key # NullStmt
  BY DEF NullStmt
<1>2. Keeps(p, f, m, r)
  BY <1>1, HandleStmtKeeps
<1> HIDE DEF r
<1>3. \A y : StateLocated(p, f, m, y) => StateLocated(p, f, r.manager, y)
  BY <1>2, StaysLocated DEF Keeps
<1>4. QED
  BY <1>2, <1>3 DEF Keeps, r

LEMMA LogPromises == Engine!Promises
<1> SUFFICES ASSUME NEW p \in Programs
             PROVE  /\ \A f \in DOMAIN p : Engine!IsGraph(p[f])
                    /\ AnalyzedFunctions(p) \subseteq DOMAIN p
                    /\ \A f \in DOMAIN p :
                         /\ Engine!ClosedUnder(p, f) /\ Engine!ManagerStarts(p, f)
                         /\ Engine!StatesStart(p, f) /\ Engine!StatesMerge(p, f)
                         /\ Engine!StatementsKeep(p, f)
  BY DEF Engine!Promises
<1>1. AnalyzedFunctions(p) \subseteq DOMAIN p
  BY DEF AnalyzedFunctions
<1>2. ASSUME NEW f \in DOMAIN p
      PROVE  /\ Engine!ClosedUnder(p, f) /\ Engine!ManagerStarts(p, f)
             /\ Engine!StatesStart(p, f)
  <2>1. Engine!ManagerStarts(p, f)
    BY DEF Engine!ManagerStarts, ReportsLocated, InitManager, NextManager,
           InitUnit
  <2>2. \A m : StateLocated(p, f, m, Engine!EmptyState)
    BY DEF StateLocated, Engine!EmptyState
  <2>3. Engine!ClosedUnder(p, f)
    BY UnitsClosed
  <2>4. QED
    BY <2>1, <2>2, <2>3, InitLocated DEF Engine!StatesStart
<1>3. QED
  BY <1>1, <1>2, EngineGraphs, MergesLocated, StatementsLocated

-----------------------------------------------------------------------------
(* The promises by which nothing is left out *)

\* The checker's engine and the instance have the same programs in order.
LEMMA SameOrder ==
  ASSUME NEW p
  PROVE  Analyzer!InOrder(p) <=> Engine!InOrder(p)
BY DEF Analyzer!InOrder, Analyzer!IsReached, Engine!InOrder, Engine!IsReached

\* The statements of a unit, as the global parser and the engine see them
LEMMA UnitStmtFacts ==
  ASSUME NEW p \in Programs, NEW f \in DOMAIN p, NEW g, Reached(p, f, g),
         NEW s \in Stmts(p, g)
  PROVE  /\ s.op = "assign" /\ s.var \in LogField => s.var \in Tracked(p, f)
         /\ IsForeign(p, f, s) => HasForeign(p, f)
<1>1. s \in UnitStmts(p, f)
  BY DEF UnitStmts, Reached
<1>2. QED
  BY <1>1 DEF UnitVariables, Tracked, HasForeign

LEMMA UnitsLeast ==
  ASSUME NEW p \in Programs, NEW f \in DOMAIN p
  PROVE  Engine!LeastUnit(p, f)
<1> SUFFICES ASSUME NEW X \in SUBSET DOMAIN p, f \in X,
                    Engine!HoldsCallees(p, X),
                    NEW g \in DOMAIN p, Reached(p, f, g)
             PROVE  g \in X
  BY DEF Engine!LeastUnit
<1>1. ASSUME NEW h \in X, NEW s \in Stmts(p, h), s.op = "call",
             s.callee \in DOMAIN p
      PROVE  s.callee \in X
  <2>1. PICK b \in 0 .. p[h].last : \E i \in 1 .. Len(p[h].elems[b]) :
               s = p[h].elems[b][i]
    BY FunctionStmts
  <2>2. QED
    BY <1>1, <2>1 DEF Engine!HoldsCallees, Engine!Blocks, Engine!Positions,
       Engine!IsAnalyzedCall
<1>2. IsFiniteSet(DOMAIN p)
  BY LogProgramsAssumption
<1>3. QED
  BY <1>1, <1>2, UnitLeast

LEMMA UnitsReady ==
  ASSUME NEW p, NEW f
  PROVE  Engine!UnitReady(p, f)
BY DEF Engine!UnitReady, ReportsOfUnit, NextManager, InitUnit

LEMMA StartTyped ==
  ASSUME NEW p, NEW f
  PROVE  Engine!SoundStart(p, f)
<1>1. StateTyped(p, f, Engine!EmptyState)
  BY DEF StateTyped, Engine!EmptyState
<1>2. ASSUME NEW m, ReportsOfUnit(p, f, m)
      PROVE  Engine!Full(p, f, InitLatticeValues(m))
  <2> DEFINE x == InitLatticeValues(m)
  <2>1. DOMAIN x = Tracked(p, f) /\ DOMAIN x # {}
    BY <1>2 DEF InitLatticeValues, ReportsOfUnit, Tracked
  <2>2. \A v \in DOMAIN x : x[v] \in LogLattice /\ x[v].type # "None"
    BY ValueTypes DEF InitLatticeValues
  <2> HIDE DEF x
  <2>3. StateTyped(p, f, x)
    BY <2>1, <2>2 DEF StateTyped
  <2>4. QED
    BY <2>1, <2>3 DEF Engine!Full, x
<1>3. QED
  BY <1>1, <1>2 DEF Engine!SoundStart

LEMMA MergesTyped ==
  ASSUME NEW p, NEW f
  PROVE  Engine!SoundMerge(p, f)
<1> SUFFICES ASSUME NEW x, NEW y
             PROVE  LET z == Engine!MergeInState(x, y)
                    IN  /\ StateTyped(p, f, x) => ~Engine!Aborts(x)
                        /\ Engine!Aborts(x) => Engine!Aborts(z)
                        /\ StateTyped(p, f, x) /\ StateTyped(p, f, y) =>
                             StateTyped(p, f, z) \/ Engine!Aborts(z)
  BY DEF Engine!SoundMerge
<1> DEFINE z == Engine!MergeInState(x, y)
<1>1. /\ DOMAIN z = DOMAIN x \cup DOMAIN y
      /\ \A v \in DOMAIN z : z[v] = IF v \notin DOMAIN y THEN x[v]
                                    ELSE IF v \in DOMAIN x THEN Meet(x[v], y[v])
                                    ELSE y[v]
  BY DEF Engine!MergeInState
<1> HIDE DEF z
<1>2. StateTyped(p, f, x) => ~Engine!Aborts(x)
  BY FailedFacts DEF StateTyped, Engine!Aborts
<1>3. Engine!Aborts(x) => Engine!Aborts(z)
  BY <1>1, FailedFacts DEF Engine!Aborts
<1>4. ASSUME StateTyped(p, f, x), StateTyped(p, f, y), ~Engine!Aborts(z)
      PROVE  StateTyped(p, f, z)
  <2>1. ASSUME NEW v \in DOMAIN z
        PROVE  /\ z[v] \in LogLattice
               /\ z[v].type = "None" <=> v \notin Tracked(p, f)
    <3>1. CASE v \in DOMAIN x /\ v \in DOMAIN y
      <4>1. /\ x[v] \in LogLattice /\ y[v] \in LogLattice
            /\ y[v].type = "None" <=> v \notin Tracked(p, f)
        BY <1>4, <3>1 DEF StateTyped
      <4>2. z[v] = Meet(x[v], y[v]) /\ z[v] # AssertFailed
        BY <1>1, <1>4, <2>1, <3>1 DEF Engine!Aborts
      <4>3. QED
        BY <4>1, <4>2, MeetTypes
    <3>2. CASE ~(v \in DOMAIN x /\ v \in DOMAIN y)
      BY <1>1, <1>4, <2>1, <3>2 DEF StateTyped
    <3>3. QED
      BY <3>1, <3>2
  <2>2. /\ DOMAIN z = {} \/ Tracked(p, f) \subseteq DOMAIN z
        /\ ~HasForeign(p, f) => DOMAIN z \subseteq Tracked(p, f)
    BY <1>1, <1>4 DEF StateTyped
  <2>3. QED
    BY <2>1, <2>2 DEF StateTyped
<1>5. QED
  BY <1>2, <1>3, <1>4 DEF z

LEMMA StatementsTyped ==
  ASSUME NEW p \in Programs, NEW f \in AnalyzedFunctions(p)
  PROVE  Engine!SoundStmts(p, f)
<1> SUFFICES ASSUME NEW m, NEW x, NEW key, NEW s,
                    ReportsOfUnit(p, f, m), ReportsLocated(p, f, m),
                    Engine!Full(p, f, x), Engine!IsUnitStmt(p, f, s)
             PROVE  LET r == HandleStmt(key, s, x, m)
                    IN  /\ ReportsOfUnit(p, f, r.manager)
                        /\ Engine!Full(p, f, r.state)
                        /\ Engine!Marked(x) \/ IsForeign(p, f, s) =>
                             Engine!Marked(r.state)
  BY DEF Engine!SoundStmts
<1> DEFINE r == HandleStmt(key, s, x, m)
<1> HIDE DEF r
<1>1. PICK g \in DOMAIN p :
        /\ Reached(p, f, g)
        /\ \E b \in 0 .. p[g].last : \E i \in 1 .. Len(p[g].elems[b]) :
             s = p[g].elems[b][i]
  BY DEF Engine!IsUnitStmt, Engine!Blocks, Engine!Positions
<1>2. s \in Stmts(p, g) /\ f \in DOMAIN p
  <2>1. \A b \in 0 .. p[g].last : \A i \in 1 .. Len(p[g].elems[b]) :
          p[g].elems[b][i] \in Stmts(p, g)
    BY FunctionStmts
  <2>2. f \in DOMAIN p
    BY DEF AnalyzedFunctions
  <2>3. QED
    BY <1>1, <2>1, <2>2
<1>3. /\ s.op = "assign" /\ s.var \in LogField => s.var \in Tracked(p, f)
      /\ IsForeign(p, f, s) => HasForeign(p, f)
  BY <1>1, <1>2, UnitStmtFacts
<1>4. StateTyped(p, f, x) /\ Tracked(p, f) \subseteq DOMAIN x
  BY DEF Engine!Full, StateTyped
<1>5. KeepsTypes(p, f, x, r, IsForeign(p, f, s))
  BY <1>3, <1>4, HandleStmtTypes DEF r
<1>6. Engine!Full(p, f, r.state)
  BY <1>5 DEF KeepsTypes, Engine!Full, Tracked
<1>7. QED
  BY <1>5, <1>6 DEF KeepsTypes, Engine!Marked, r

LEMMA LogCoverPromises == Engine!CoverPromises
<1> SUFFICES ASSUME NEW p \in Programs
             PROVE  \A f \in AnalyzedFunctions(p) :
                      /\ Engine!UnitReady(p, f) /\ Engine!SoundStart(p, f)
                      /\ Engine!SoundMerge(p, f) /\ Engine!SoundStmts(p, f)
                      /\ Engine!LeastUnit(p, f)
  BY DEF Engine!CoverPromises
<1>1. AnalyzedFunctions(p) \subseteq DOMAIN p
  BY DEF AnalyzedFunctions
<1>2. QED
  BY <1>1, UnitsReady, StartTyped, MergesTyped,
     StatementsTyped, UnitsLeast

-----------------------------------------------------------------------------
(* The promises of the solution of the dataflow equations *)

LEMMA ValuesDecide ==
  ASSUME NEW p, NEW f
  PROVE  Engine!MeetsDecide(p, f)
<1>1. \A x : StateTyped(p, f, x) =>
        \A v \in DOMAIN x : UnitValue(p, f, v, x[v])
  BY DEF StateTyped, UnitValue
<1>2. \A v, x, y : UnitValue(p, f, v, x) /\ UnitValue(p, f, v, y) =>
        /\ UnitValue(p, f, v, Meet(x, y))
        /\ Meet(Meet(x, y), Meet(x, y)) = Meet(y, y)
  BY MeetOfUnit
<1>3. QED
  BY <1>1, <1>2 DEF Engine!MeetsDecide, Engine!NormOf

\* The values of a state
ValuesOf(state) == [v \in DOMAIN state |-> ValueOf(state, v)]

\* What the checks of a member that is tracked read is there: they add
\* nothing to the state.  A log puts its member there itself.
LEMMA ChecksNothing ==
  ASSUME NEW state, TxBegin \in DOMAIN state, NEW var, NEW m
  PROVE  /\ var \in DOMAIN state => Checked(var, state, m) = ValuesOf(state)
         /\ \A val : Put(Checked(var, state, m), var, val) =
                     Put(ValuesOf(state), var, val)
<1> DEFINE after  == Checked(var, state, m)
           values == ValuesOf(state)
           read   == IF var \in m.bugged THEN {} ELSE {var, TxBegin}
<1>1. after = [v \in DOMAIN state \cup read |-> ValueOf(state, v)]
  BY DEF Checked
<1>2. values = [v \in DOMAIN state |-> ValueOf(state, v)]
  BY DEF ValuesOf
<1>3. /\ DOMAIN state \cup read \cup {var} = DOMAIN state \cup {var}
      /\ var \in DOMAIN state => DOMAIN state \cup read = DOMAIN state
  OBVIOUS
<1> HIDE DEF after, values, read
<1>4. var \in DOMAIN state => after = values
  BY <1>1, <1>2, <1>3
<1>5. ASSUME NEW val PROVE Put(after, var, val) = Put(values, var, val)
  <2>1. /\ DOMAIN after \cup {var} = DOMAIN values \cup {var}
        /\ \A v \in DOMAIN values \cup {var} :
             v # var => after[v] = values[v]
    BY <1>1, <1>2, <1>3
  <2>2. QED
    BY <2>1 DEF Put
<1>6. QED
  BY <1>4, <1>5 DEF after, values

LEMMA ReportsDecideNothing ==
  ASSUME NEW p \in Programs, NEW f \in AnalyzedFunctions(p)
  PROVE  Engine!StmtsAgree(p, f)
<1>1. ASSUME NEW m, NEW n, NEW x, NEW key, NEW s,
             Engine!Full(p, f, x), Engine!IsUnitStmt(p, f, s)
      PROVE  HandleStmt(key, s, x, m).state = HandleStmt(key, s, x, n).state
  <2>1. Tracked(p, f) \subseteq DOMAIN x /\ TxBegin \in DOMAIN x
    BY <1>1 DEF Engine!Full, StateTyped, Tracked
  <2>2. s.op = "assign" /\ s.var \in LogField => s.var \in DOMAIN x
    <3>1. PICK g \in DOMAIN p :
            /\ Reached(p, f, g)
            /\ \E b \in 0 .. p[g].last : \E i \in 1 .. Len(p[g].elems[b]) :
                 s = p[g].elems[b][i]
      BY <1>1 DEF Engine!IsUnitStmt, Engine!Blocks, Engine!Positions
    <3>2. s \in Stmts(p, g)
      <4>1. \A b \in 0 .. p[g].last : \A i \in 1 .. Len(p[g].elems[b]) :
              p[g].elems[b][i] \in Stmts(p, g)
        BY FunctionStmts
      <4>2. QED
        BY <3>1, <4>1
    <3>3. f \in DOMAIN p
      BY DEF AnalyzedFunctions
    <3>4. QED
      BY <2>1, <3>1, <3>2, <3>3, UnitStmtFacts
  <2>3. ASSUME NEW o, NEW var \in DOMAIN x
        PROVE  HandleWrite(key, var, x, o).state = ValuesOf(x)
    <3>1. HandleWrite(key, var, x, o).state = Checked(var, x, o)
      BY DEF HandleWrite, Result
    <3>2. QED
      BY <2>1, <3>1, ChecksNothing
  <2>4. ASSUME NEW o, NEW var
        PROVE  HandleLog(key, var, x, o).state =
                 Put(ValuesOf(x), var, GetLogged(ValueOf(x, var)))
    <3> DEFINE val == GetLogged(ValueOf(x, var))
    <3>1. HandleLog(key, var, x, o).state = Put(Checked(var, x, o), var, val)
      BY DEF HandleLog, Result
    <3> HIDE DEF val
    <3>2. Put(Checked(var, x, o), var, val) = Put(ValuesOf(x), var, val)
      BY <2>1, ChecksNothing
    <3>3. QED
      BY <3>1, <3>2 DEF val
  <2>5. CASE IsUsed(s) /\ s.op = "assign"
    <3>1. \A o : HandleStmt(key, s, x, o) = HandleWrite(key, s.var, x, o)
      BY <2>5 DEF HandleStmt
    <3>2. s.var \in DOMAIN x
      BY <2>2, <2>5 DEF IsUsed
    <3>3. QED
      BY <2>3, <3>1, <3>2
  <2>6. CASE IsUsed(s) /\ s.op = "log"
    <3>1. \A o : HandleStmt(key, s, x, o) = HandleLog(key, s.var, x, o)
      BY <2>6 DEF HandleStmt
    <3>2. QED
      BY <2>4, <3>1
  <2>7. CASE ~IsUsed(s)
    BY <2>7 DEF HandleStmt, HandleTxBegin, HandleTxEnd, Result
  <2>8. QED
    BY <2>5, <2>6, <2>7 DEF IsUsed
<1>2. QED
  BY <1>1 DEF Engine!StmtsAgree

LEMMA LogSolutionPromises == Engine!SolutionPromises
BY ValuesDecide, ReportsDecideNothing DEF Engine!SolutionPromises

-----------------------------------------------------------------------------
(* The theorems *)

LEMMA LogAnalysisInv == Spec => []Engine!AnalysisInv
BY LogPromises, EngineGraphs, SpecIsEngineSpec, Engine!AnalysisInvariance, PTL

LEMMA LocationsFromStates == Engine!AnalysisInv => LogStmtKnown
BY DEF Engine!AnalysisInv, Engine!StatesKept, ReportsLocated, LogStmtKnown

(***************************************************************************)
(* reportBugs dereferences the first log of a double log: whatever the     *)
(* order in which blocks, calls and units are analysed, there is one.      *)
(***************************************************************************)
THEOREM LogStmtsKnown == Spec => []LogStmtKnown
BY LogAnalysisInv, LocationsFromStates, PTL

\* Only a member that the unit does not track has no type.
LEMMA AbortsForeign ==
  ASSUME NEW p, NEW f, Engine!CanAbort(p, f)
  PROVE  HasForeign(p, f)
<1> SUFFICES ASSUME ~HasForeign(p, f) PROVE FALSE
  OBVIOUS
<1>1. \A x : StateTyped(p, f, x) =>
        \A v \in DOMAIN x : x[v] \in LogLattice /\ x[v].type # "None"
  BY DEF StateTyped
<1>2. ASSUME NEW x, NEW y, StateTyped(p, f, x), StateTyped(p, f, y),
             NEW v \in DOMAIN Engine!MergeInState(x, y)
      PROVE  Engine!MergeInState(x, y)[v] # AssertFailed
  BY <1>1, <1>2, MeetTypes, FailedFacts DEF Engine!MergeInState
<1>3. \A x : StateTyped(p, f, x) =>
        \A v \in DOMAIN x : ~EqualFails(x[v]) /\ ~DumpAsserts(x[v])
  BY <1>1 DEF EqualFails, DumpAsserts, LogLattice
<1>4. QED
  BY <1>2, <1>3 DEF Engine!CanAbort, Engine!Aborts

\* A unit that is done logs no member that it does not track.
LEMMA GoneThroughFacts ==
  ASSUME NEW p \in Programs, NEW f \in AnalyzedFunctions(p),
         Engine!IsGoneThrough(p, f)
  PROVE  ~HasForeign(p, f)
<1> SUFFICES ASSUME NEW s \in UnitStmts(p, f), IsForeign(p, f, s) PROVE FALSE
  BY DEF HasForeign
<1>1. PICK g \in ReachFrom(p, {f}) : s \in Stmts(p, g)
  BY DEF UnitStmts
<1>2. g \in DOMAIN p /\ Reached(p, f, g)
  <2>1. f \in DOMAIN p /\ IsFiniteSet(DOMAIN p)
    BY LogProgramsAssumption DEF AnalyzedFunctions
  <2>2. Reached(p, f, g)
    BY DEF Reached
  <2>3. QED
    BY <2>1, <2>2, UnitFunctions
<1>3. PICK b \in 0 .. p[g].last : \E i \in 1 .. Len(p[g].elems[b]) :
             s = p[g].elems[b][i]
  BY <1>1, <1>2, FunctionStmts
<1>4. s.op # "call"
  BY DEF IsForeign
<1>5. QED
  BY <1>2, <1>3, <1>4 DEF Engine!IsGoneThrough, Engine!Blocks,
     Engine!Positions, Engine!IsCallAt, Engine!IsAnalyzedCall

LEMMA LogEnds == Spec => []Engine!EndKnown
BY LogPromises, LogCoverPromises, EngineGraphs, SpecIsEngineSpec, Engine!Ends,
   PTL

LEMMA DeathsFromStates ==
  Engine!AnalysisInv /\ Engine!EndKnown => LogDeathExplained
<1> SUFFICES ASSUME Engine!AnalysisInv, Engine!EndKnown
             PROVE  LogDeathExplained
  OBVIOUS
<1>1. prog \in Programs
  BY DEF Engine!AnalysisInv, Engine!UnitKnown
<1>2. HasForeign(prog, topFunction) <=> LogsForeign(topFunction)
  BY DEF HasForeign, IsForeign, LogsForeign
<1>3. Engine!InOrder(prog) /\ status = "aborted" => LogsForeign(topFunction)
  BY <1>2, AbortsForeign DEF Engine!EndKnown
<1>4. ASSUME Engine!InOrder(prog), UnitDone PROVE ~LogsForeign(topFunction)
  <2>1. /\ topFunction \in AnalyzedFunctions(prog)
        /\ Engine!IsGoneThrough(prog, topFunction)
    BY <1>4 DEF UnitDone, Engine!EndKnown, Engine!UnitStarted
  <2>2. QED
    BY <1>1, <1>2, <2>1, GoneThroughFacts
<1>5. QED
  BY <1>3, <1>4, SameOrder DEF LogDeathExplained

(***************************************************************************)
(* The process is ended in a merge, a comparison or the dump when, and     *)
(* only when, the unit logs a member it does not mention elsewhere, if the *)
(* engine meets the blocks of the program in order.                        *)
(***************************************************************************)
THEOREM LogDeathsExplained == Spec => []LogDeathExplained
BY LogEnds, LogAnalysisInv, DeathsFromStates, PTL

LEMMA EngineSolves ==
  (Engine!InOrder(prog) => Engine!IsSolution) =>
    (Analyzer!InOrder(prog) => Analyzer!IsSolution)
BY SameOrder, SameSolution

(***************************************************************************)
(* The states the log checker's results are read from solve the dataflow   *)
(* equations of the function they belong to, loops and calls included, as  *)
(* long as the analysis comes to the end of the function: the number of    *)
(* open transactions may keep it from that, never lead it to other states. *)
(***************************************************************************)
THEOREM LogSolution ==
  Spec => [](Analyzer!InOrder(prog) => Analyzer!IsSolution)
<1>1. Engine!AnalyzerSpec => [](Engine!InOrder(prog) => Engine!IsSolution)
  BY LogPromises, LogCoverPromises, LogSolutionPromises, EngineGraphs,
     Engine!Solution
<1>2. QED
  BY <1>1, SpecIsEngineSpec, EngineSolves, PTL
=============================================================================
