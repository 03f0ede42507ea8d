--------------------------- MODULE LogTransitions ---------------------------
(***************************************************************************)
(* The log checker: its lattice, its transfer functions and its bug        *)
(* reporter (lib/logchecker/analyzer/*.h).  It reports an annotated member *)
(* that is written without being logged, logged twice, or touched outside  *)
(* of a transaction.                                                       *)
(*                                                                         *)
(*   state    the AbstractState, a map from members, and from the tx_begin *)
(*            function for the transaction itself, to lattice values;      *)
(*   manager  the active unit's variables and the bug reporter's tables.   *)
(***************************************************************************)
EXTENDS Integers

CONSTANTS LogField,  \* the members annotated LogField
          TxBegin    \* getTxFunction(): the one function called tx_begin

ASSUME TxAssumption == TxBegin \notin LogField

-----------------------------------------------------------------------------
(* LogLattice.h *)

\* enum Log, ordered
Logged == 0
Unseen == 1

LatticeType == {"TxValueType", "LogValueType"}

LogLattice ==
  [type : LatticeType \cup {"None"}, tx : Int, log : {Logged, Unseen}]

\* LogLattice(): what std::map::operator[] inserts for a missing variable.
DefaultValue == [type |-> "None", tx |-> 0, log |-> Unseen]

\* The outcome of an assert(type < None) that fails: the process aborts.
AssertFailed == [type |-> "AssertFailed", tx |-> 0, log |-> Unseen]

\* LogLattice(LatticeType)
OfType(type) ==
  IF type \in LatticeType
  THEN [type |-> type, tx |-> 0, log |-> Unseen]
  ELSE AssertFailed

\* The assertion at the start of dump()
DumpAsserts(val) == val.type = "None"

\* operator== of a value without a type: report_fatal_error
EqualFails(val) == val.type \notin LatticeType

GetInitTx  == OfType("TxValueType")
GetInitVar == OfType("LogValueType")

GetBeginTx(val) == [val EXCEPT !.tx = @ + 1]
GetEndTx(val)   == [val EXCEPT !.tx = @ - 1]
GetLogged(val)  == [val EXCEPT !.log = Logged]

Lower(a, b) == IF a < b THEN a ELSE b

MeetValue(self, val) ==
  [type |-> self.type,
   tx   |-> IF val.type = "TxValueType"  THEN Lower(self.tx, val.tx)
                                         ELSE self.tx,
   log  |-> IF val.type = "LogValueType" THEN Lower(self.log, val.log)
                                         ELSE self.log]

(***************************************************************************)
(* meet is static: the value it is called on does not take part.  A new    *)
(* value starts from 0 open transactions, so the meet never has more.      *)
(***************************************************************************)
Meet(self, value) ==
  LET newValue == OfType(value.type)
  IN  IF AssertFailed \in {self, newValue}
      THEN AssertFailed
      ELSE MeetValue(newValue, value)

IsLogged(val) == val.log = Logged

\* A comparison that is off by one.
IsInTxOrNone(val) == val.tx >= 0

IsInTx(val) == val.tx > 0

ValueOf(state, var) == IF var \in DOMAIN state THEN state[var] ELSE DefaultValue

Put(map, key, val) ==
  [k \in DOMAIN map \cup {key} |-> IF k = key THEN val ELSE map[k]]

-----------------------------------------------------------------------------
(* LogBugReporter.h *)

NullStmt == <<>>

\* initUnit starts from empty tables; the list of bugs is kept between units.
InitUnit(unitVars, bugs) ==
  [unitVars     |-> unitVars,
   lastLocation |-> [v \in {} |-> NullStmt],
   bugged       |-> {},
   bugs         |-> bugs]

UpdateLastLocation(manager, var, S) ==
  [manager EXCEPT !.lastLocation = Put(@, var, S)]

LastLocation(manager, var) ==
  IF var \in DOMAIN manager.lastLocation THEN manager.lastLocation[var]
                                         ELSE NullStmt

BugData(bugStmt, logStmt, currentVar, bugType) ==
  [bugStmt |-> bugStmt, logStmt |-> logStmt, currentVar |-> currentVar,
   bugType |-> bugType]

\* Report the bugs in found, all of them of var.
AddBugs(manager, var, found) ==
  [manager EXCEPT !.bugged = IF found = {} THEN @ ELSE @ \cup {var},
                  !.bugs   = @ \cup found]

CheckOutsideTxBug(var, S, state) ==
  IF IsInTx(ValueOf(state, TxBegin))
  THEN {}
  ELSE {BugData(S, NullStmt, var, "OutsideTx")}

\* A check that reports a double log only inside of a transaction.
CheckDoubleLogBugInTx(var, S, state, manager) ==
  IF var \in manager.bugged THEN manager
  ELSE AddBugs(manager, var,
         IF CheckOutsideTxBug(var, S, state) # {}
         THEN CheckOutsideTxBug(var, S, state)
         ELSE IF IsLogged(ValueOf(state, var))
              THEN {BugData(S, LastLocation(manager, var), var, "DoubleLog")}
              ELSE {})

CheckDoubleLogBug(var, S, state, manager) ==
  IF var \in manager.bugged THEN manager
  ELSE AddBugs(manager, var,
         CheckOutsideTxBug(var, S, state) \cup
         IF IsLogged(ValueOf(state, var))
         THEN {BugData(S, LastLocation(manager, var), var, "DoubleLog")}
         ELSE {})

CheckNotLoggedBug(var, S, state, manager) ==
  IF var \in manager.bugged THEN manager
  ELSE AddBugs(manager, var,
         CheckOutsideTxBug(var, S, state) \cup
         IF IsLogged(ValueOf(state, var))
         THEN {}
         ELSE {BugData(S, NullStmt, var, "NotLogged")})

-----------------------------------------------------------------------------
(* LogTransitions.h *)

Result(state, changed, manager) ==
  [state |-> state, changed |-> changed, manager |-> manager]

\* What the checks read with operator[] is in the state afterwards.
Checked(var, state, manager) ==
  [v \in DOMAIN state
         \cup (IF var \in manager.bugged THEN {} ELSE {var, TxBegin})
     |-> ValueOf(state, v)]

HandleWrite(S, var, state, manager) ==
  Result(Checked(var, state, manager), FALSE,
         CheckNotLoggedBug(var, S, state, manager))

\* A log whose location is recorded before it is checked
HandleLogEarly(S, var, state, manager) ==
  Result(Put(Checked(var, state, manager), var, GetLogged(ValueOf(state, var))),
         TRUE,
         CheckDoubleLogBug(var, S, state, UpdateLastLocation(manager, var, S)))

\* A log that leaves no location
HandleLogUnlocated(S, var, state, manager) ==
  Result(Put(Checked(var, state, manager), var, GetLogged(ValueOf(state, var))),
         TRUE, CheckDoubleLogBug(var, S, state, manager))

HandleLog(S, var, state, manager) ==
  Result(Put(Checked(var, state, manager), var, GetLogged(ValueOf(state, var))),
         TRUE,
         UpdateLastLocation(CheckDoubleLogBug(var, S, state, manager), var, S))

HandleTxBegin(state, manager) ==
  Result(Put(state, TxBegin, GetBeginTx(ValueOf(state, TxBegin))),
         TRUE, manager)

\* An end that ends all open transactions
HandleTxEndAll(state, manager) ==
  Result(Put(state, TxBegin, GetInitTx), TRUE, manager)

\* The members stay logged when a transaction ends.
HandleTxEnd(state, manager) ==
  Result(Put(state, TxBegin, GetEndTx(ValueOf(state, TxBegin))),
         TRUE, manager)

(***************************************************************************)
(* A statement is a record with an op: an assignment to a member, a call   *)
(* of log, tx_begin or tx_end, a call of an analysed function, or anything *)
(* else.                                                                   *)
(***************************************************************************)
IsUsed(s) == s.op \in {"assign", "log"} /\ s.var \in LogField

HandleStmt(S, s, state, manager) ==
  CASE IsUsed(s) /\ s.op = "assign" -> HandleWrite(S, s.var, state, manager)
    [] IsUsed(s) /\ s.op = "log"    -> HandleLog(S, s.var, state, manager)
    [] s.op = "tx_begin"            -> HandleTxBegin(state, manager)
    [] s.op = "tx_end"              -> HandleTxEnd(state, manager)
    [] OTHER                        -> Result(state, FALSE, manager)

\* A unit that does not track the transaction
InitLatticeValuesNoTx(manager) == [v \in manager.unitVars |-> GetInitVar]

\* fillTrackMap puts TxBegin among the unit's variables as well.
InitLatticeValues(manager) ==
  [v \in manager.unitVars \cup {TxBegin} |->
     IF v = TxBegin THEN GetInitTx ELSE GetInitVar]
=============================================================================
