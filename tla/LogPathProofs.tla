--------------------------- MODULE LogPathProofs ----------------------------
(***************************************************************************)
(* Along every execution path the log checker's values count transactions  *)
(* and logs, and its reports are the first misuse of each member.  Beside  *)
(* it the symbolic checker's node follows the path until a misuse ends it, *)
(* whatever the width of its count, and both accuse the same members.  For *)
(* all sets of members, places and bounds.                                 *)
(***************************************************************************)
EXTENDS LogPaths, TLAPS

-----------------------------------------------------------------------------
(* Operators *)

\* A statement is a location, and never the null one.
LEMMA LogIsLocation ==
  ASSUME NEW x, NEW i
  PROVE  LogStmt(x, i) # NullStmt
<1>1. DOMAIN NullStmt = {} /\ "op" \in DOMAIN LogStmt(x, i)
  BY DEF NullStmt, LogStmt
<1>2. QED
  BY <1>1

\* The reports of kinds about member x
Found(S, x, kinds, log) ==
  {BugData(S, IF k = "DoubleLog" THEN log ELSE NullStmt, x, k) : k \in kinds}

\* What a check that found something about x leaves of manager m
AfterCheck(m, x, found) == IF x \in m.bugged THEN m ELSE AddBugs(m, x, found)

\* What the values say is wrong with a write and with a log of x
NotInTx(st)        == IF IsInTx(ValueOf(st, TxBegin)) THEN {} ELSE {"OutsideTx"}
WriteFaults(st, x) == NotInTx(st) \cup
                        (IF IsLogged(ValueOf(st, x)) THEN {} ELSE {"NotLogged"})
LogFaults(st, x)   == NotInTx(st) \cup
                        (IF IsLogged(ValueOf(st, x)) THEN {"DoubleLog"} ELSE {})

\* The two checks
LEMMA CheckResult ==
  ASSUME NEW S, NEW x, NEW st, NEW m
  PROVE  /\ CheckNotLoggedBug(x, S, st, m) =
              AfterCheck(m, x, Found(S, x, WriteFaults(st, x), NullStmt))
         /\ CheckDoubleLogBug(x, S, st, m) =
              AfterCheck(m, x, Found(S, x, LogFaults(st, x), LastLocation(m, x)))
<1> DEFINE outside == CheckOutsideTxBug(x, S, st)
<1>1. Found(S, x, WriteFaults(st, x), NullStmt) =
        outside \cup IF IsLogged(ValueOf(st, x)) THEN {}
                     ELSE {BugData(S, NullStmt, x, "NotLogged")}
  BY DEF Found, WriteFaults, NotInTx, CheckOutsideTxBug
<1>2. Found(S, x, LogFaults(st, x), LastLocation(m, x)) =
        outside \cup IF IsLogged(ValueOf(st, x))
                     THEN {BugData(S, LastLocation(m, x), x, "DoubleLog")}
                     ELSE {}
  BY DEF Found, LogFaults, NotInTx, CheckOutsideTxBug
<1> HIDE DEF outside
<1>3. QED
  BY <1>1, <1>2 DEF CheckNotLoggedBug, CheckDoubleLogBug, AfterCheck, outside

\* The transfer function of a write
LEMMA WriteResult ==
  ASSUME NEW x \in LogField, NEW st, NEW m
  PROVE  LET s == AssignStmt(x)
             r == HandleStmt(s, s, st, m)
         IN  /\ r.state = Checked(x, st, m)
             /\ r.manager = AfterCheck(m, x, Found(s, x, WriteFaults(st, x), NullStmt))
<1> DEFINE s == AssignStmt(x)
<1>1. s.op = "assign" /\ s.var = x
  BY DEF AssignStmt
<1> HIDE DEF s
<1>2. HandleStmt(s, s, st, m) = HandleWrite(s, x, st, m)
  BY <1>1 DEF HandleStmt, IsUsed
<1>3. QED
  BY <1>2, CheckResult DEF HandleWrite, Result, s

\* The transfer function of a log
LEMMA LogResult ==
  ASSUME NEW x \in LogField, NEW i, NEW st, NEW m
  PROVE  LET s == LogStmt(x, i)
             r == HandleStmt(s, s, st, m)
         IN  /\ r.state = Put(Checked(x, st, m), x, GetLogged(ValueOf(st, x)))
             /\ r.manager =
                  UpdateLastLocation(
                    AfterCheck(m, x, Found(s, x, LogFaults(st, x), LastLocation(m, x))),
                    x, s)
<1> DEFINE s == LogStmt(x, i)
<1>1. s.op = "log" /\ s.var = x
  BY DEF LogStmt
<1> HIDE DEF s
<1>2. HandleStmt(s, s, st, m) = HandleLog(s, x, st, m)
  BY <1>1 DEF HandleStmt, IsUsed
<1>3. QED
  BY <1>2, CheckResult DEF HandleLog, Result, s

\* The transfer functions of begin and end
LEMMA TxResult ==
  ASSUME NEW st, NEW m
  PROVE  /\ HandleStmt(TxBeginStmt, TxBeginStmt, st, m).state =
              Put(st, TxBegin, GetBeginTx(ValueOf(st, TxBegin)))
         /\ HandleStmt(TxBeginStmt, TxBeginStmt, st, m).manager = m
         /\ HandleStmt(TxEndStmt, TxEndStmt, st, m).state =
              Put(st, TxBegin, GetEndTx(ValueOf(st, TxBegin)))
         /\ HandleStmt(TxEndStmt, TxEndStmt, st, m).manager = m
<1>1. TxBeginStmt.op = "tx_begin" /\ TxEndStmt.op = "tx_end"
  BY DEF TxBeginStmt, TxEndStmt
<1>2. /\ HandleStmt(TxBeginStmt, TxBeginStmt, st, m) = HandleTxBegin(st, m)
      /\ HandleStmt(TxEndStmt, TxEndStmt, st, m) = HandleTxEnd(st, m)
  BY <1>1 DEF HandleStmt, IsUsed
<1>3. QED
  BY <1>2 DEF HandleTxBegin, HandleTxEnd, Result
-----------------------------------------------------------------------------
(* The inductive invariant *)

\* The manager has the four fields of Init's.
ManagerShape ==
  manager = [unitVars     |-> manager.unitVars,
             lastLocation |-> manager.lastLocation,
             bugged       |-> manager.bugged,
             bugs         |-> manager.bugs]

\* A member is logged if it has a first log, which is its last one as well
\* until it is logged twice.
FirstLogsKept ==
  \A x \in LogField :
    /\ x \in logged <=> firstLog[x] # NullStmt
    /\ x \in logged \ manager.bugged => LastLocation(manager, x) = firstLog[x]

\* In the first outermost transaction whoever is logged was logged in it, or
\* outside of it and reported for that.
FirstRound ==
  /\ rounds = 0 => open <= 0 /\ fresh = {}
  /\ rounds <= 1 => logged \subseteq fresh \cup manager.bugged

IInv ==
  /\ TypeOK
  /\ ManagerShape
  /\ ValuesExact
  /\ FirstMisuseReported
  /\ FirstLogsKept
  /\ NoteIsFirstLog
  /\ FirstRound
  /\ UnprotectedReported

\* A unit starts outside of any transaction, with nothing logged or reported.
LEMMA InitEstablishesIInv == Init => IInv
<1> SUFFICES ASSUME Init PROVE IInv
  OBVIOUS
<1>1. PICK unitVars \in SUBSET LogField : manager = InitUnit(unitVars, {})
  BY DEF Init
<1>2. /\ manager.unitVars = unitVars /\ manager.bugged = {} /\ manager.bugs = {}
      /\ ManagerShape
  BY <1>1 DEF InitUnit, ManagerShape
<1>3. /\ DOMAIN state = unitVars \cup {TxBegin}
      /\ state[TxBegin] = GetInitTx
      /\ \A x \in unitVars : state[x] = GetInitVar
  BY <1>1, <1>2, TxAssumption DEF Init, InitLatticeValues
<1>4. /\ GetInitTx = [type |-> "TxValueType", tx |-> 0, log |-> Unseen]
      /\ GetInitVar = [type |-> "LogValueType", tx |-> 0, log |-> Unseen]
  BY DEF GetInitTx, GetInitVar, OfType, LatticeType
<1>5. GetInitTx \in LogLattice /\ GetInitVar \in LogLattice
  BY <1>4 DEF LogLattice, LatticeType, Unseen
<1>6. TypeOK
  BY <1>2, <1>3, <1>5 DEF Init, TypeOK
<1>7. ValuesExact
  <2>1. \A x \in LogField : ~IsLogged(ValueOf(state, x))
    BY <1>3, <1>4, TxAssumption DEF ValueOf, IsLogged, DefaultValue, Unseen, Logged
  <2>2. QED
    BY <1>3, <1>4, <2>1 DEF Init, ValuesExact
<1>8. FirstMisuseReported
  BY <1>2 DEF Init, FirstMisuseReported, Reported
<1>9. FirstLogsKept /\ FirstRound /\ NoteIsFirstLog /\ UnprotectedReported
  BY <1>2 DEF Init, FirstLogsKept, FirstRound, NoteIsFirstLog, UnprotectedReported
<1>10. QED
  BY <1>2, <1>6, <1>7, <1>8, <1>9 DEF IInv

-----------------------------------------------------------------------------
(* Values *)

\* What the values say about x is what the path has done.
LEMMA FaultsExact ==
  ASSUME IInv, NEW x \in LogField
  PROVE  /\ WriteFaults(state, x) =
              OutsideTx \cup (IF x \in logged THEN {} ELSE {"NotLogged"})
         /\ LogFaults(state, x) =
              OutsideTx \cup (IF x \in logged THEN {"DoubleLog"} ELSE {})
<1>1. IsInTx(ValueOf(state, TxBegin)) <=> open > 0
  BY DEF IInv, TypeOK, ValuesExact, ValueOf, IsInTx
<1>2. NotInTx(state) = OutsideTx
  BY <1>1 DEF NotInTx, OutsideTx, IInv, TypeOK
<1>3. IsLogged(ValueOf(state, x)) <=> x \in logged
  BY DEF IInv, ValuesExact
<1>4. QED
  BY <1>2, <1>3 DEF WriteFaults, LogFaults

\* A check changes no value.
LEMMA CheckedValues ==
  ASSUME IInv, NEW x \in LogField
  PROVE  LET st == Checked(x, state, manager)
         IN  /\ DOMAIN state \subseteq DOMAIN st
             /\ DOMAIN st \subseteq LogField \cup {TxBegin}
             /\ \A y : ValueOf(st, y) = ValueOf(state, y)
             /\ \A y \in DOMAIN st : st[y] = ValueOf(state, y)
BY DEF Checked, ValueOf, IInv, TypeOK

LEMMA ValueInLattice ==
  ASSUME IInv, NEW x
  PROVE  ValueOf(state, x) \in LogLattice
BY DEF ValueOf, DefaultValue, LogLattice, LatticeType, Logged, Unseen, IInv, TypeOK

-----------------------------------------------------------------------------
(* Reports *)

\* A check that finds kinds about x, while the history notes the same, keeps
\* the reports those of each member's first misuse.
LEMMA CheckStep ==
  ASSUME IInv, NEW S, NEW x \in LogField, NEW kinds \in SUBSET BugType, NEW log,
         Misuse(x, kinds),
         manager'.bugged = AfterCheck(manager, x, Found(S, x, kinds, log)).bugged,
         manager'.bugs = AfterCheck(manager, x, Found(S, x, kinds, log)).bugs
  PROVE  /\ FirstMisuseReported'
         /\ manager'.bugged \subseteq LogField
         /\ manager.bugged \subseteq manager'.bugged
         /\ manager'.bugged \subseteq manager.bugged \cup {x}
         /\ kinds # {} => x \in manager'.bugged
         /\ \A b \in manager'.bugs :
              \/ b \in manager.bugs
              \/ /\ x \notin manager.bugged
                 /\ b.currentVar = x /\ b.bugType \in kinds
                 /\ b.bugType = "DoubleLog" => b.logStmt = log
         /\ misuse' \in [LogField -> SUBSET BugType]
<1> DEFINE found == Found(S, x, kinds, log)
<1>0. /\ \A y \in LogField : misuse[y] \subseteq BugType
      /\ misuse \in [LogField -> SUBSET BugType]
      /\ manager.bugged \subseteq LogField
  BY DEF IInv, TypeOK
<1>1. CASE x \in manager.bugged
  <2>1. manager'.bugged = manager.bugged /\ manager'.bugs = manager.bugs
    BY <1>1 DEF AfterCheck
  <2>2. misuse[x] # {}
    BY <1>1 DEF IInv, FirstMisuseReported
  <2>3. misuse' = misuse
    BY <1>0, <2>2 DEF Misuse
  <2>4. FirstMisuseReported'
    BY <2>1, <2>3 DEF IInv, FirstMisuseReported, Reported
  <2>5. QED
    BY <1>0, <1>1, <2>1, <2>3, <2>4
<1>2. CASE x \notin manager.bugged
  <2>1. /\ manager'.bugged = IF found = {} THEN manager.bugged
                             ELSE manager.bugged \cup {x}
        /\ manager'.bugs = manager.bugs \cup found
    BY <1>2 DEF AfterCheck, AddBugs, IInv, ManagerShape
  <2>2. misuse[x] = {} /\ Reported(x) = {}
    BY <1>2 DEF IInv, FirstMisuseReported
  <2>3. misuse' = [misuse EXCEPT ![x] = kinds]
    BY <1>0, <2>2 DEF Misuse
  <2>4. found = {} <=> kinds = {}
    BY DEF Found
  <2>5. /\ \A b \in found : /\ b.currentVar = x /\ b.bugType \in kinds
                            /\ b.bugType = "DoubleLog" => b.logStmt = log
        /\ \A k \in kinds : \E b \in found : b.currentVar = x /\ b.bugType = k
    <3> DEFINE bug(k) ==
          BugData(S, IF k = "DoubleLog" THEN log ELSE NullStmt, x, k)
    <3>1. \A k \in kinds : /\ bug(k).currentVar = x /\ bug(k).bugType = k
                           /\ k = "DoubleLog" => bug(k).logStmt = log
      BY DEF BugData
    <3>2. found = {bug(k) : k \in kinds}
      BY DEF Found
    <3> HIDE DEF bug, found
    <3>3. QED
      BY <3>1, <3>2
  <2> HIDE DEF found
  <2>6. ASSUME NEW y \in LogField
        PROVE  Reported(y)' = IF y = x THEN kinds ELSE Reported(y)
    <3>1. CASE y = x
      BY <2>1, <2>2, <2>5, <3>1 DEF Reported
    <3>2. CASE y # x
      BY <2>1, <2>5, <3>2 DEF Reported
    <3>3. QED
      BY <3>1, <3>2
  <2>7. \A y \in LogField : misuse'[y] = IF y = x THEN kinds ELSE misuse[y]
    BY <1>0, <2>3
  <2>8. FirstMisuseReported'
    BY <1>2, <2>1, <2>4, <2>6, <2>7 DEF IInv, FirstMisuseReported
  <2>9. misuse' \in [LogField -> SUBSET BugType]
    BY <1>0, <2>3
  <2>10. QED
    BY <1>0, <1>2, <2>1, <2>4, <2>5, <2>8, <2>9
<1>3. QED
  BY <1>1, <1>2

-----------------------------------------------------------------------------
(* The steps *)

\* An assignment to x
LEMMA AssignStep ==
  ASSUME IInv, NEW x \in LogField, Assign(x)
  PROVE  IInv'
<1> DEFINE s     == AssignStmt(x)
           kinds == OutsideTx \cup (IF x \in logged THEN {} ELSE {"NotLogged"})
           found == Found(s, x, kinds, NullStmt)
<1>1. /\ state' = Checked(x, state, manager)
      /\ manager' = AfterCheck(manager, x, found)
  BY WriteResult, FaultsExact DEF Assign, Transfer
<1>2. /\ manager'.unitVars = manager.unitVars
      /\ manager'.lastLocation = manager.lastLocation
      /\ ManagerShape'
  <2> HIDE DEF found
  <2>1. QED
    BY <1>1 DEF AfterCheck, AddBugs, IInv, ManagerShape
<1>3. /\ UNCHANGED <<txVars, logVars>>
      /\ Misuse(x, kinds)
      /\ unprotected' = IF open > 0 /\ x \notin fresh THEN unprotected \cup {x}
                                                    ELSE unprotected
  BY DEF Assign
<1>4. kinds \in SUBSET BugType
  BY DEF OutsideTx, BugType
<1>5. "DoubleLog" \notin kinds
  BY DEF OutsideTx
<1>5a. x \notin logged => kinds # {}
  OBVIOUS
<1> HIDE DEF s, kinds
<1>6. /\ FirstMisuseReported'
      /\ manager'.bugged \subseteq LogField
      /\ manager.bugged \subseteq manager'.bugged
      /\ manager'.bugged \subseteq manager.bugged \cup {x}
      /\ kinds # {} => x \in manager'.bugged
      /\ \A b \in manager'.bugs :
           \/ b \in manager.bugs
           \/ /\ x \notin manager.bugged
              /\ b.currentVar = x /\ b.bugType \in kinds
              /\ b.bugType = "DoubleLog" => b.logStmt = NullStmt
      /\ misuse' \in [LogField -> SUBSET BugType]
  <2>1. /\ manager'.bugged = AfterCheck(manager, x, Found(s, x, kinds, NullStmt)).bugged
        /\ manager'.bugs = AfterCheck(manager, x, Found(s, x, kinds, NullStmt)).bugs
    BY <1>1
  <2> HIDE DEF found
  <2>2. QED
    BY <1>3, <1>4, <2>1, CheckStep
<1> HIDE DEF found
<1>7. /\ DOMAIN state \subseteq DOMAIN state'
      /\ DOMAIN state' \subseteq LogField \cup {TxBegin}
      /\ \A y : ValueOf(state', y) = ValueOf(state, y)
      /\ \A y \in DOMAIN state' : state'[y] = ValueOf(state, y)
  BY <1>1, CheckedValues
<1>8. TypeOK'
  <2>1. \A y \in DOMAIN state' : state'[y] \in LogLattice
    BY <1>7, ValueInLattice
  <2>2. \A b \in manager'.bugs : b.currentVar \in LogField /\ b.bugType \in BugType
    BY <1>4, <1>6 DEF IInv, TypeOK
  <2>3. unprotected' \subseteq LogField
    BY <1>3 DEF IInv, TypeOK
  <2>4. QED
    BY <1>2, <1>3, <1>6, <1>7, <2>1, <2>2, <2>3 DEF IInv, TypeOK, txVars, logVars
<1>9. ValuesExact'
  <2>1. state'[TxBegin] = state[TxBegin]
    BY <1>7 DEF IInv, TypeOK, ValueOf
  <2>2. QED
    BY <1>3, <1>7, <2>1 DEF IInv, ValuesExact, txVars, logVars
<1>10. FirstLogsKept'
  BY <1>2, <1>3, <1>6 DEF IInv, FirstLogsKept, LastLocation, logVars
<1>11. NoteIsFirstLog'
  BY <1>3, <1>5, <1>6 DEF IInv, NoteIsFirstLog, logVars
<1>12. FirstRound'
  BY <1>3, <1>6 DEF IInv, FirstRound, txVars, logVars
<1>13. UnprotectedReported'
  BY <1>3, <1>5a, <1>6 DEF IInv, UnprotectedReported, FirstRound, txVars
<1>14. QED
  BY <1>2, <1>6, <1>8, <1>9, <1>10, <1>11, <1>12, <1>13 DEF IInv

\* A log of x
LEMMA LogStep ==
  ASSUME IInv, NEW x \in LogField, NEW i \in Place, Log(x, i)
  PROVE  IInv'
<1> DEFINE s     == LogStmt(x, i)
           kinds == OutsideTx \cup (IF x \in logged THEN {"DoubleLog"} ELSE {})
           last  == LastLocation(manager, x)
           found == Found(s, x, kinds, last)
           checked == AfterCheck(manager, x, found)
           val   == GetLogged(ValueOf(state, x))
<1>1. /\ state' = Put(Checked(x, state, manager), x, val)
      /\ manager' = UpdateLastLocation(checked, x, s)
  <2>1. LogFaults(state, x) = kinds
    BY FaultsExact
  <2> HIDE DEF kinds
  <2>2. state' = HandleStmt(s, s, state, manager).state
        /\ manager' = HandleStmt(s, s, state, manager).manager
    BY DEF Log, Transfer
  <2>3. QED
    BY <2>1, <2>2, LogResult
<1>2. /\ UNCHANGED <<txVars, unprotected>>
      /\ Misuse(x, kinds)
      /\ logged' = logged \cup {x}
      /\ fresh' = IF open > 0 THEN fresh \cup {x} ELSE fresh
      /\ firstLog' = IF x \in logged THEN firstLog
                     ELSE [firstLog EXCEPT ![x] = s]
  BY DEF Log
<1>3. kinds \in SUBSET BugType
  BY DEF OutsideTx, BugType
<1>4. /\ "DoubleLog" \in kinds <=> x \in logged
      /\ open <= 0 \/ x \in logged => kinds # {}
  BY DEF OutsideTx
<1>5. s # NullStmt
  BY LogIsLocation
<1> HIDE DEF s, kinds
<1>6. /\ manager'.unitVars = manager.unitVars
      /\ manager'.bugged = checked.bugged /\ manager'.bugs = checked.bugs
      /\ \A y : LastLocation(manager', y) = IF y = x THEN s
                                            ELSE LastLocation(manager, y)
      /\ ManagerShape'
  <2> HIDE DEF found
  <2>1. /\ checked.unitVars = manager.unitVars
        /\ checked.lastLocation = manager.lastLocation
        /\ checked = [unitVars |-> checked.unitVars,
                      lastLocation |-> checked.lastLocation,
                      bugged |-> checked.bugged, bugs |-> checked.bugs]
    BY DEF AfterCheck, AddBugs, IInv, ManagerShape
  <2> HIDE DEF checked
  <2>2. manager' = [unitVars |-> checked.unitVars,
                    lastLocation |-> Put(checked.lastLocation, x, s),
                    bugged |-> checked.bugged, bugs |-> checked.bugs]
    BY <1>1, <2>1 DEF UpdateLastLocation
  <2>3. QED
    BY <2>1, <2>2 DEF ManagerShape, LastLocation, Put
<1>7. /\ FirstMisuseReported'
      /\ manager'.bugged \subseteq LogField
      /\ manager.bugged \subseteq manager'.bugged
      /\ manager'.bugged \subseteq manager.bugged \cup {x}
      /\ kinds # {} => x \in manager'.bugged
      /\ \A b \in manager'.bugs :
           \/ b \in manager.bugs
           \/ /\ x \notin manager.bugged
              /\ b.currentVar = x /\ b.bugType \in kinds
              /\ b.bugType = "DoubleLog" => b.logStmt = last
      /\ misuse' \in [LogField -> SUBSET BugType]
  <2> HIDE DEF last
  <2>1. QED
    BY <1>2, <1>3, <1>6, CheckStep
<1> HIDE DEF found, checked
<1>8. /\ DOMAIN state \subseteq DOMAIN state'
      /\ DOMAIN state' \subseteq LogField \cup {TxBegin}
      /\ \A y : ValueOf(state', y) = IF y = x THEN val ELSE ValueOf(state, y)
      /\ \A y \in DOMAIN state' : state'[y] = IF y = x THEN val ELSE ValueOf(state, y)
  <2> DEFINE st == Checked(x, state, manager)
  <2>1. /\ DOMAIN state \subseteq DOMAIN st
        /\ DOMAIN st \subseteq LogField \cup {TxBegin}
        /\ \A y : ValueOf(st, y) = ValueOf(state, y)
        /\ \A y \in DOMAIN st : st[y] = ValueOf(state, y)
    BY CheckedValues
  <2> HIDE DEF st, val
  <2>2. state' = Put(st, x, val)
    BY <1>1 DEF st
  <2>3. DOMAIN state' = DOMAIN st \cup {x}
    BY <2>2 DEF Put
  <2>4. \A y \in DOMAIN state' : state'[y] = IF y = x THEN val ELSE st[y]
    BY <2>2 DEF Put
  <2>5. \A y : ValueOf(state', y) = IF y = x THEN val ELSE ValueOf(st, y)
    BY <2>3, <2>4 DEF ValueOf
  <2>6. QED
    BY <2>1, <2>3, <2>4, <2>5
<1>9. val \in LogLattice /\ IsLogged(val)
  BY ValueInLattice DEF GetLogged, LogLattice, IsLogged, Logged, Unseen
<1> HIDE DEF val
<1>10. TypeOK'
  <2>1. \A y \in DOMAIN state' : state'[y] \in LogLattice
    BY <1>8, <1>9, ValueInLattice
  <2>2. \A b \in manager'.bugs : b.currentVar \in LogField /\ b.bugType \in BugType
    BY <1>3, <1>7 DEF IInv, TypeOK
  <2>3. /\ logged' \subseteq LogField /\ fresh' \subseteq logged'
        /\ DOMAIN firstLog' = LogField
    BY <1>2 DEF IInv, TypeOK
  <2>4. QED
    BY <1>2, <1>6, <1>7, <1>8, <2>1, <2>2, <2>3 DEF IInv, TypeOK, txVars
<1>11. ValuesExact'
  <2>1. state'[TxBegin] = state[TxBegin]
    BY <1>8, TxAssumption DEF IInv, TypeOK, ValueOf
  <2>2. QED
    BY <1>2, <1>8, <1>9, <2>1 DEF IInv, ValuesExact, txVars
<1>12. \A y \in LogField : firstLog'[y] = IF y = x /\ x \notin logged THEN s
                                          ELSE firstLog[y]
  BY <1>2 DEF IInv, TypeOK
<1>13. FirstLogsKept'
  BY <1>2, <1>4, <1>5, <1>6, <1>7, <1>12 DEF IInv, FirstLogsKept
<1>14. NoteIsFirstLog'
  <2> SUFFICES ASSUME NEW b \in manager'.bugs, b.bugType = "DoubleLog"
               PROVE  /\ b.logStmt = firstLog'[b.currentVar]
                      /\ b.logStmt # NullStmt
    BY DEF NoteIsFirstLog
  <2>1. CASE b \in manager.bugs
    <3>1. b.currentVar \in logged
      BY <2>1 DEF IInv, TypeOK, NoteIsFirstLog, FirstLogsKept
    <3>2. QED
      BY <1>12, <2>1, <3>1 DEF IInv, TypeOK, NoteIsFirstLog
  <2>2. CASE b \notin manager.bugs
    <3>1. b.currentVar = x /\ b.logStmt = last /\ x \in logged \ manager.bugged
      BY <1>4, <1>7, <2>2
    <3>2. QED
      BY <1>12, <3>1 DEF IInv, FirstLogsKept
  <2>3. QED
    BY <2>1, <2>2
<1>15. FirstRound'
  BY <1>2, <1>4, <1>7 DEF IInv, TypeOK, FirstRound, txVars
<1>16. UnprotectedReported'
  BY <1>2, <1>7 DEF IInv, UnprotectedReported, txVars
<1>17. QED
  BY <1>6, <1>7, <1>10, <1>11, <1>13, <1>14, <1>15, <1>16 DEF IInv

\* A begin or an end gives the transaction alone a value.
LEMMA TxStep ==
  ASSUME IInv, NEW n \in {open + 1, open - 1}, open' = n,
         state' = Put(state, TxBegin, [ValueOf(state, TxBegin) EXCEPT !.tx = n]),
         manager' = manager,
         rounds' \in 0 .. 2, fresh' \in SUBSET logged,
         UNCHANGED <<logged, firstLog, misuse, unprotected>>,
         FirstRound', rounds' <= 1 => rounds <= 1
  PROVE  IInv'
<1> DEFINE val == [ValueOf(state, TxBegin) EXCEPT !.tx = n]
<1>1. /\ DOMAIN state' = DOMAIN state
      /\ \A y \in DOMAIN state : state'[y] = IF y = TxBegin THEN val ELSE state[y]
  BY DEF Put, IInv, TypeOK
<1>2. n \in Int
  BY DEF IInv, TypeOK
<1>3. /\ val \in LogLattice
      /\ val.type = ValueOf(state, TxBegin).type /\ val.tx = n
  BY <1>2, ValueInLattice DEF LogLattice
<1>4. TypeOK'
  BY <1>1, <1>2, <1>3 DEF IInv, TypeOK
<1>5. ValuesExact'
  <2>1. \A x \in LogField : ValueOf(state', x) = ValueOf(state, x)
    BY <1>1, TxAssumption DEF ValueOf
  <2>2. state'[TxBegin] = val /\ ValueOf(state, TxBegin) = state[TxBegin]
    BY <1>1 DEF IInv, TypeOK, ValueOf
  <2> HIDE DEF val
  <2>3. QED
    BY <1>3, <2>1, <2>2 DEF IInv, ValuesExact
<1>6. ManagerShape' /\ FirstMisuseReported' /\ FirstLogsKept' /\ NoteIsFirstLog'
  BY DEF IInv, ManagerShape, FirstMisuseReported, Reported, FirstLogsKept,
         LastLocation, NoteIsFirstLog
<1>7. UnprotectedReported'
  BY DEF IInv, UnprotectedReported
<1>8. QED
  BY <1>4, <1>5, <1>6, <1>7 DEF IInv

LEMMA BeginTxStep ==
  ASSUME IInv, BeginTx
  PROVE  IInv'
<1>1. ValueOf(state, TxBegin).tx = open
  BY DEF IInv, TypeOK, ValuesExact, ValueOf
<1>2. /\ state' = Put(state, TxBegin, GetBeginTx(ValueOf(state, TxBegin)))
      /\ manager' = manager
  BY TxResult DEF BeginTx, Transfer
<1>3. state' = Put(state, TxBegin, [ValueOf(state, TxBegin) EXCEPT !.tx = open + 1])
  BY <1>1, <1>2 DEF GetBeginTx
<1>4. /\ open' = open + 1
      /\ rounds' = IF open = 0 /\ rounds < 2 THEN rounds + 1 ELSE rounds
      /\ fresh' = IF open = 0 THEN {} ELSE fresh
      /\ UNCHANGED <<logged, firstLog, misuse, unprotected>>
  BY DEF BeginTx
<1>5. rounds' \in 0 .. 2 /\ fresh' \in SUBSET logged
  BY <1>4 DEF IInv, TypeOK
<1>6. FirstRound' /\ (rounds' <= 1 => rounds <= 1)
  BY <1>2, <1>4 DEF IInv, TypeOK, FirstRound
<1>7. QED
  BY <1>2, <1>3, <1>4, <1>5, <1>6, TxStep

LEMMA EndTxStep ==
  ASSUME IInv, EndTx
  PROVE  IInv'
<1>1. ValueOf(state, TxBegin).tx = open
  BY DEF IInv, TypeOK, ValuesExact, ValueOf
<1>2. /\ state' = Put(state, TxBegin, GetEndTx(ValueOf(state, TxBegin)))
      /\ manager' = manager
  BY TxResult DEF EndTx, Transfer
<1>3. state' = Put(state, TxBegin, [ValueOf(state, TxBegin) EXCEPT !.tx = open - 1])
  BY <1>1, <1>2 DEF GetEndTx
<1>4. open' = open - 1 /\ UNCHANGED <<rounds, logged, fresh, firstLog, misuse, unprotected>>
  BY DEF EndTx, logVars
<1>5. FirstRound' /\ rounds' \in 0 .. 2 /\ fresh' \in SUBSET logged
  BY <1>2, <1>4 DEF IInv, TypeOK, FirstRound
<1>6. QED
  BY <1>2, <1>3, <1>4, <1>5, TxStep

\* A step that changes nothing keeps the invariant.
LEMMA StutterStep ==
  ASSUME IInv, UNCHANGED vars
  PROVE  IInv'
<1>1. TypeOK' /\ ManagerShape' /\ ValuesExact'
  BY DEF vars, IInv, TypeOK, ManagerShape, ValuesExact
<1>2. FirstMisuseReported' /\ FirstLogsKept' /\ NoteIsFirstLog'
  BY DEF vars, IInv, FirstMisuseReported, Reported, FirstLogsKept, NoteIsFirstLog
<1>3. FirstRound' /\ UnprotectedReported'
  BY DEF vars, IInv, FirstRound, UnprotectedReported
<1>4. QED
  BY <1>1, <1>2, <1>3 DEF IInv

LEMMA StepKeepsIInv ==
  IInv /\ [Next]_vars => IInv'
<1> SUFFICES ASSUME IInv, [Next]_vars PROVE IInv'
  OBVIOUS
<1>1. ASSUME NEW x \in LogField, Assign(x) PROVE IInv'
  BY <1>1, AssignStep
<1>2. ASSUME NEW x \in LogField, NEW i \in Place, Log(x, i) PROVE IInv'
  BY <1>2, LogStep
<1>3. CASE BeginTx
  BY <1>3, BeginTxStep
<1>4. CASE EndTx
  BY <1>4, EndTxStep
<1>5. CASE UNCHANGED vars
  BY <1>5, StutterStep
<1>6. QED
  BY <1>1, <1>2, <1>3, <1>4, <1>5 DEF Next

-----------------------------------------------------------------------------
(* The theorems *)

\* The invariant of the checker beside its path holds in every state.
THEOREM LogInvariance == Spec => []IInv
<1>1. Init => IInv
  BY InitEstablishesIInv
<1>2. IInv /\ [Next]_vars => IInv'
  BY StepKeepsIInv
<1>3. QED
  BY <1>1, <1>2, PTL DEF Spec

\* The tables of the transfer functions and of the bug reporter keep their
\* types.
THEOREM TypeCorrect == Spec => []TypeOK
<1>1. IInv => TypeOK
  BY DEF IInv
<1>2. QED
  BY <1>1, LogInvariance, PTL

\* handleTxBegin, handleTxEnd and handleLog leave the values exact.
THEOREM ValuesCorrect == Spec => []ValuesExact
<1>1. IInv => ValuesExact
  BY DEF IInv
<1>2. QED
  BY <1>1, LogInvariance, PTL

\* The three checks report the first misuse of each member and nothing else.
THEOREM MisusesReported == Spec => []FirstMisuseReported
<1>1. IInv => FirstMisuseReported
  BY DEF IInv
<1>2. QED
  BY <1>1, LogInvariance, PTL

\* The location checkDoubleLogBug finds is that of the first log.
THEOREM NotesTrue == Spec => []NoteIsFirstLog
<1>1. IInv => NoteIsFirstLog
  BY DEF IInv
<1>2. QED
  BY <1>1, LogInvariance, PTL

\* Within one outermost transaction no unprotected write goes unreported.
THEOREM WritesProtected == Spec => []UnprotectedReported
<1>1. IInv => UnprotectedReported
  BY DEF IInv
<1>2. QED
  BY <1>1, LogInvariance, PTL

-----------------------------------------------------------------------------
(* The symbolic checker beside the one on the dataflow engine *)

-----------------------------------------------------------------------------
(* The unsigned count *)

M == 2^Width

\* The count of a path with n more begins than ends
Wrap(n) == IF n >= 0 THEN n ELSE n + M

LEMMA WidthIsEnough == M \in Int /\ MaxOpen \in Nat /\ MaxOpen < M
<1>1. M \in Int
  BY WidthAssumption DEF M
<1>2. QED
  BY <1>1, WidthAssumption, MaxOpenAssumption DEF M

\* One more begin or end, as long as the path's number is bounded
LEMMA WrapStep ==
  ASSUME NEW n \in Int, -MaxOpen <= n, n <= MaxOpen
  PROVE  /\ n < MaxOpen  => (Wrap(n) + 1) % M = Wrap(n + 1)
         /\ -MaxOpen < n => (Wrap(n) - 1) % M = Wrap(n - 1)
         /\ Wrap(n) < 1 <=> n = 0
<1> USE WidthIsEnough
<1>1. ASSUME NEW k \in Int, 0 <= k, k < M
      PROVE  k % M = k
  BY <1>1, SMT
<1>2. M % M = 0
  BY SMT
<1>3. (0 - 1) % M = M - 1
  BY SMT
<1>4. CASE n >= 1
  BY <1>1, <1>4 DEF Wrap
<1>5. CASE n = 0
  BY <1>1, <1>3, <1>5 DEF Wrap
<1>6. CASE n = -1
  BY <1>1, <1>2, <1>6 DEF Wrap
<1>7. CASE n < -1
  BY <1>1, <1>7 DEF Wrap
<1>8. QED
  BY <1>4, <1>5, <1>6, <1>7

-----------------------------------------------------------------------------
(* The invariant *)

\* The node the symbolic checker has of a path that is not over
PathNode == [log |-> Logx!LogMap(logged), tx |-> Wrap(open)]

XTypeOK ==
  /\ open \in -MaxOpen .. MaxOpen
  /\ useTx \in BOOLEAN /\ over \in BOOLEAN /\ unended \in BOOLEAN
  /\ wrong \in [LogField -> SUBSET BugType]

NodeFollows == nodes = IF over THEN {} ELSE {PathNode}

\* Only a log goes on after what is wrong with it.
WrongAreLogged == ~over => \A x \in LogField : wrong[x] # {} => x \in logged

WrongIsMisuse == \A x \in LogField : wrong[x] # {} => misuse[x] # {}

\* What is wrong to one checker is to the other, where no end was in vain.
WrongAlike ==
  ~over /\ useTx /\ ~unended =>
    open >= 0 /\ \A x \in LogField : wrong[x] = misuse[x]

XInv ==
  /\ XTypeOK
  /\ NodeFollows
  /\ xreports = wrong
  /\ WrongAreLogged
  /\ WrongIsMisuse
  /\ WrongAlike

LEMMA InitEstablishesXInv ==
  XInit => XInv
<1> SUFFICES ASSUME XInit PROVE XInv
  OBVIOUS
<1>1. open \in -MaxOpen .. MaxOpen
  BY WidthIsEnough DEF XInit, Init
<1>2. useTx \in BOOLEAN /\ over = FALSE /\ unended = FALSE
  BY DEF XInit, Logx!UseTxMode
<1>3. wrong \in [LogField -> SUBSET BugType]
  BY DEF XInit
<1>4. nodes = {Logx!StartNode}
  BY DEF XInit, Logx!CheckBeginFunction, Logx!Step
<1>5. Logx!StartNode = PathNode
  BY DEF XInit, Init, Logx!StartNode, PathNode, Wrap
<1>6. NodeFollows
  BY <1>2, <1>4, <1>5 DEF NodeFollows
<1>7. xreports = wrong /\ WrongAreLogged /\ WrongIsMisuse
  BY DEF XInit, Init, WrongAreLogged, WrongIsMisuse
<1>8. WrongAlike
  BY DEF XInit, Init, WrongAlike
<1>9. QED
  BY <1>1, <1>2, <1>3, <1>6, <1>7, <1>8 DEF XInv, XTypeOK

-----------------------------------------------------------------------------
(* The callbacks *)

LEMMA MappedIsLogged ==
  ASSUME NEW x
  PROVE  Logx!IsMapped(x, PathNode) <=> x \in logged
BY DEF Logx!IsMapped, PathNode, Logx!LogMap

\* What the transaction's count says of an access
LEMMA OutsideResult ==
  ASSUME XTypeOK
  PROVE  (IF useTx THEN Logx!CheckTx(PathNode) ELSE {}) =
           IF OutsideAny THEN {"OutsideTx"} ELSE {}
<1>1. PathNode.tx < 1 <=> open = 0
  BY WrapStep, WidthIsEnough DEF XTypeOK, PathNode
<1>2. QED
  BY <1>1 DEF Logx!CheckTx, OutsideAny

\* What XAssign and XLog take to be wrong
BindKinds(x) == IF OutsideAny THEN {"OutsideTx"}
                ELSE IF x \in logged THEN {} ELSE {"NotLogged"}
LogKinds(x)  == IF OutsideAny THEN {"OutsideTx"}
                ELSE IF x \in logged THEN {"DoubleLog"} ELSE {}

LEMMA BindSteps ==
  ASSUME XTypeOK, NEW x
  PROVE  /\ Logx!CheckBind(x, useTx, PathNode).reports = BindKinds(x)
         /\ Logx!CheckBind(x, useTx, PathNode).nodes =
              IF BindKinds(x) = {} THEN {PathNode} ELSE {}
<1> DEFINE out == IF OutsideAny THEN {"OutsideTx"} ELSE {}
           unlogged == IF x \in logged THEN {} ELSE {"NotLogged"}
<1>1. Logx!WriteData(x, PathNode) = unlogged
  BY MappedIsLogged DEF Logx!WriteData
<1>2. Logx!CheckBind(x, useTx, PathNode) =
        Logx!Step(Logx!Report(out \cup unlogged),
                  IF out \cup unlogged = {} THEN {PathNode} ELSE {})
  BY <1>1, OutsideResult DEF Logx!CheckBind
<1>3. Logx!Report(out \cup unlogged) = BindKinds(x)
  BY DEF Logx!Report, BindKinds
<1>4. out \cup unlogged = {} <=> BindKinds(x) = {}
  BY DEF BindKinds
<1> HIDE DEF out, unlogged
<1>5. QED
  BY <1>2, <1>3, <1>4 DEF Logx!Step

LEMMA LogSteps ==
  ASSUME XTypeOK, NEW x, NEW numArgs, ~(numArgs > Logx!MaxLogArgs)
  PROVE  /\ Logx!HandleLog(x, numArgs, useTx, PathNode).reports = LogKinds(x)
         /\ Logx!HandleLog(x, numArgs, useTx, PathNode).nodes =
              IF x \in logged THEN {}
              ELSE {[log |-> Logx!LogMap(logged \cup {x}), tx |-> Wrap(open)]}
<1> DEFINE out == IF OutsideAny THEN {"OutsideTx"} ELSE {}
           again == IF x \in logged THEN {"DoubleLog"} ELSE {}
<1>1. Logx!LogData(x, PathNode) = again
  BY MappedIsLogged DEF Logx!LogData
<1>2. Logx!HandleLog(x, numArgs, useTx, PathNode) =
        Logx!Step(Logx!Report(out \cup again),
                  IF x \in logged THEN {} ELSE {Logx!SetLogged(x, PathNode)})
  BY <1>1, OutsideResult, MappedIsLogged DEF Logx!HandleLog
<1>3. Logx!Report(out \cup again) = LogKinds(x)
  BY DEF Logx!Report, LogKinds
<1>4. Logx!SetLogged(x, PathNode) =
        [log |-> Logx!LogMap(logged \cup {x}), tx |-> Wrap(open)]
  BY DEF Logx!SetLogged, PathNode, Logx!LogMap
<1> HIDE DEF out, again
<1>5. QED
  BY <1>2, <1>3, <1>4 DEF Logx!Step

LEMMA TxSteps ==
  ASSUME XTypeOK
  PROVE  /\ open < MaxOpen =>
              Logx!HandleTxBeg(PathNode).nodes =
                {[log |-> Logx!LogMap(logged), tx |-> Wrap(open + 1)]}
         /\ open > -MaxOpen =>
              Logx!HandleTxEnd(PathNode).nodes =
                {[log |-> Logx!LogMap(logged), tx |-> Wrap(open - 1)]}
<1>1. /\ open < MaxOpen  => (Wrap(open) + 1) % M = Wrap(open + 1)
      /\ -MaxOpen < open => (Wrap(open) - 1) % M = Wrap(open - 1)
  BY WrapStep, WidthIsEnough DEF XTypeOK
<1>2. /\ Logx!BegTx(PathNode) =
           [log |-> Logx!LogMap(logged), tx |-> (Wrap(open) + 1) % M]
      /\ Logx!EndTx(PathNode) =
           [log |-> Logx!LogMap(logged), tx |-> (Wrap(open) - 1) % M]
  BY DEF Logx!BegTx, Logx!EndTx, PathNode, M
<1>3. MaxOpen \in Int /\ open \in Int
  BY WidthIsEnough DEF XTypeOK
<1>4. QED
  BY <1>1, <1>2, <1>3 DEF Logx!HandleTxBeg, Logx!HandleTxEnd, Logx!Step

-----------------------------------------------------------------------------
(* The steps *)

\* A statement about x, of whatever kind
LEMMA AccessStep ==
  ASSUME IInv, XInv,
         NEW x \in LogField, NEW ends \in BOOLEAN,
         NEW kinds \in SUBSET BugType, NEW all \in SUBSET BugType,
         nodes' = IF over \/ ends THEN {} ELSE {PathNode'},
         xreports' = [xreports EXCEPT ![x] = @ \cup IF over THEN {} ELSE kinds],
         GoesWrong(x, kinds, ends), Misuse(x, all),
         UNCHANGED <<open, useTx>>,
         logged \subseteq logged',
         kinds # {} => all # {},
         ~ends /\ kinds # {} => x \in logged',
         ~over /\ ~ends /\ useTx /\ ~unended =>
           all = kinds /\ (kinds # {} => wrong[x] = {})
  PROVE  XInv'
<1>1. /\ wrong' = IF over THEN wrong ELSE [wrong EXCEPT ![x] = @ \cup kinds]
      /\ over' = (over \/ ends) /\ unended' = unended
      /\ misuse' = [misuse EXCEPT ![x] = IF @ = {} THEN all ELSE @]
  BY DEF GoesWrong, Misuse
<1>2. /\ wrong \in [LogField -> SUBSET BugType]
      /\ misuse \in [LogField -> SUBSET BugType]
      /\ over \in BOOLEAN /\ unended \in BOOLEAN
  BY DEF IInv, TypeOK, XInv, XTypeOK
<1>3. \A y \in LogField :
        /\ wrong'[y] = IF y = x /\ ~over THEN wrong[x] \cup kinds ELSE wrong[y]
        /\ misuse'[y] = IF y = x /\ misuse[x] = {} THEN all ELSE misuse[y]
  BY <1>1, <1>2
<1>4. XTypeOK'
  BY <1>1, <1>2 DEF XInv, XTypeOK
<1>5. NodeFollows'
  BY <1>1 DEF NodeFollows
<1>6. xreports' = wrong'
  <2>1. CASE over
    <3>1. xreports' = [xreports EXCEPT ![x] = @]
      BY <2>1
    <3>2. QED
      BY <1>1, <1>2, <2>1, <3>1 DEF XInv
  <2>2. CASE ~over
    BY <1>1, <2>2 DEF XInv
  <2>3. QED
    BY <2>1, <2>2
<1>7. WrongAreLogged'
  BY <1>1, <1>2, <1>3 DEF XInv, WrongAreLogged
<1>8. WrongIsMisuse'
  BY <1>3 DEF XInv, WrongIsMisuse
<1>9. WrongAlike'
  BY <1>1, <1>2, <1>3 DEF XInv, WrongAlike
<1>10. QED
  BY <1>4, <1>5, <1>6, <1>7, <1>8, <1>9 DEF XInv

LEMMA XAssignStep ==
  ASSUME IInv, XInv, NEW x \in LogField, XAssign(x)
  PROVE  XInv'
<1> DEFINE kinds == BindKinds(x)
           all   == OutsideTx \cup IF x \in logged THEN {} ELSE {"NotLogged"}
<1>1. /\ nodes' = UNION {Logx!CheckBind(x, useTx, n).nodes : n \in nodes}
      /\ xreports' = [xreports EXCEPT ![x] =
           @ \cup UNION {Logx!CheckBind(x, useTx, n).reports : n \in nodes}]
      /\ useTx' = useTx
      /\ GoesWrong(x, kinds, kinds # {})
  BY DEF XAssign, Visit, Advance, BindKinds
<1>2. Misuse(x, all) /\ UNCHANGED <<open, logged>>
  BY DEF XAssign, Assign, txVars, logVars
<1>3. PathNode' = PathNode
  BY <1>2 DEF PathNode, Wrap, M, Logx!LogMap
<1>4. /\ Logx!CheckBind(x, useTx, PathNode).reports = kinds
      /\ Logx!CheckBind(x, useTx, PathNode).nodes =
           IF kinds = {} THEN {PathNode} ELSE {}
  BY BindSteps DEF XInv
<1>5. kinds \in SUBSET BugType /\ all \in SUBSET BugType
  BY DEF BindKinds, OutsideTx, BugType
<1>6. kinds # {} => all # {}
  BY DEF BindKinds, OutsideTx, OutsideAny
<1>7. ~over /\ kinds = {} /\ useTx /\ ~unended => all = kinds
  BY DEF BindKinds, OutsideTx, OutsideAny, XInv, XTypeOK, WrongAlike
<1> HIDE DEF kinds, all
<1>8. /\ nodes' = IF over \/ kinds # {} THEN {} ELSE {PathNode'}
      /\ xreports' = [xreports EXCEPT ![x] = @ \cup IF over THEN {} ELSE kinds]
  <2>1. CASE over
    BY <1>1, <2>1 DEF XInv, NodeFollows
  <2>2. CASE ~over
    <3>1. nodes = {PathNode}
      BY <2>2 DEF XInv, NodeFollows
    <3>2. QED
      BY <1>1, <1>3, <1>4, <2>2, <3>1
  <2>3. QED
    BY <2>1, <2>2
<1>9. (kinds # {}) \in BOOLEAN
  OBVIOUS
<1>10. QED
  BY <1>1, <1>2, <1>5, <1>6, <1>7, <1>8, <1>9, AccessStep

LEMMA XLogStep ==
  ASSUME IInv, XInv, NEW x \in LogField, NEW i \in Place, NEW numArgs,
         XLog(x, i, numArgs), ~(numArgs > Logx!MaxLogArgs)
  PROVE  XInv'
<1> DEFINE kinds == LogKinds(x)
           all   == OutsideTx \cup IF x \in logged THEN {"DoubleLog"} ELSE {}
<1>1. /\ nodes' = UNION {Logx!HandleLog(x, numArgs, useTx, n).nodes : n \in nodes}
      /\ xreports' = [xreports EXCEPT ![x] =
           @ \cup UNION {Logx!HandleLog(x, numArgs, useTx, n).reports : n \in nodes}]
      /\ useTx' = useTx
      /\ GoesWrong(x, kinds, x \in logged)
  BY DEF XLog, Visit, Advance, LogKinds
<1>2. Misuse(x, all) /\ open' = open /\ logged' = logged \cup {x}
  BY DEF XLog, Log, txVars
<1>3. PathNode' = [log |-> Logx!LogMap(logged \cup {x}), tx |-> Wrap(open)]
  BY <1>2 DEF PathNode, Wrap, M, Logx!LogMap
<1>4. /\ Logx!HandleLog(x, numArgs, useTx, PathNode).reports = kinds
      /\ Logx!HandleLog(x, numArgs, useTx, PathNode).nodes =
           IF x \in logged THEN {} ELSE {PathNode'}
  BY <1>3, LogSteps DEF XInv
<1>5. kinds \in SUBSET BugType /\ all \in SUBSET BugType
  BY DEF LogKinds, OutsideTx, BugType
<1>6. kinds # {} => all # {}
  BY DEF LogKinds, OutsideTx, OutsideAny
<1>7. ~over /\ x \notin logged /\ useTx /\ ~unended =>
        all = kinds /\ wrong[x] = {}
  BY DEF LogKinds, OutsideTx, OutsideAny, XInv, XTypeOK, WrongAlike, WrongAreLogged
<1> HIDE DEF kinds, all
<1>8. /\ nodes' = IF over \/ x \in logged THEN {} ELSE {PathNode'}
      /\ xreports' = [xreports EXCEPT ![x] = @ \cup IF over THEN {} ELSE kinds]
  <2>1. CASE over
    BY <1>1, <2>1 DEF XInv, NodeFollows
  <2>2. CASE ~over
    <3>1. nodes = {PathNode}
      BY <2>2 DEF XInv, NodeFollows
    <3>2. QED
      BY <1>1, <1>4, <2>2, <3>1
  <2>3. QED
    BY <2>1, <2>2
<1>9. (x \in logged) \in BOOLEAN
  OBVIOUS
<1>10. QED
  BY <1>1, <1>2, <1>5, <1>6, <1>7, <1>8, <1>9, AccessStep

\* A fatal log leaves no node and no report.
LEMMA XFatalStep ==
  ASSUME IInv, XInv, NEW x \in LogField, NEW i \in Place, NEW numArgs,
         XLog(x, i, numArgs), numArgs > Logx!MaxLogArgs
  PROVE  XInv'
<1> DEFINE all == OutsideTx \cup IF x \in logged THEN {"DoubleLog"} ELSE {}
<1>1. /\ nodes' = UNION {Logx!HandleLog(x, numArgs, useTx, n).nodes : n \in nodes}
      /\ xreports' = [xreports EXCEPT ![x] =
           @ \cup UNION {Logx!HandleLog(x, numArgs, useTx, n).reports : n \in nodes}]
      /\ useTx' = useTx
      /\ GoesWrong(x, {}, TRUE)
  BY DEF XLog, Visit, Advance, GoesWrong
<1>2. Misuse(x, all) /\ open' = open /\ logged' = logged \cup {x}
  BY DEF XLog, Log, txVars
<1>3. \A n : /\ Logx!HandleLog(x, numArgs, useTx, n).nodes = {}
             /\ Logx!HandleLog(x, numArgs, useTx, n).reports = {}
  BY DEF Logx!HandleLog, Logx!Step
<1>4. all \in SUBSET BugType
  BY DEF OutsideTx, BugType
<1> HIDE DEF all
<1>5. nodes' = {}
  BY <1>1, <1>3
<1>6. xreports' = [xreports EXCEPT ![x] = @ \cup IF over THEN {} ELSE {}]
  BY <1>1, <1>3
<1>7. QED
  BY <1>1, <1>2, <1>4, <1>5, <1>6, AccessStep

\* A begin or an end changes the node's count alone.
LEMMA CountStep ==
  ASSUME XInv, open' \in -MaxOpen .. MaxOpen,
         nodes' = IF over THEN {} ELSE {PathNode'},
         UNCHANGED <<logged, misuse, xreports, useTx, wrong, over>>,
         unended' \in BOOLEAN,
         useTx /\ ~unended' => ~unended /\ (open >= 0 => open' >= 0)
  PROVE  XInv'
<1>1. XTypeOK'
  BY DEF XInv, XTypeOK
<1>2. NodeFollows'
  BY DEF NodeFollows
<1>3. xreports' = wrong' /\ WrongAreLogged' /\ WrongIsMisuse'
  BY DEF XInv, WrongAreLogged, WrongIsMisuse
<1>4. WrongAlike'
  BY DEF XInv, WrongAlike
<1>5. QED
  BY <1>1, <1>2, <1>3, <1>4 DEF XInv

LEMMA XBeginTxStep ==
  ASSUME XInv, XBeginTx
  PROVE  XInv'
<1>1. /\ open < MaxOpen /\ open' = open + 1
      /\ nodes' = UNION {Logx!HandleTxBeg(n).nodes : n \in nodes}
      /\ UNCHANGED <<logged, misuse, xreports, useTx, wrong, over, unended>>
  BY DEF XBeginTx, BeginTx, Advance, xHistory
<1>2. /\ open \in -MaxOpen .. MaxOpen
      /\ unended \in BOOLEAN
  BY DEF XInv, XTypeOK
<1>3. open' \in -MaxOpen .. MaxOpen
  BY <1>1, <1>2, WidthIsEnough
<1>4. PathNode' = [log |-> Logx!LogMap(logged), tx |-> Wrap(open + 1)]
  BY <1>1 DEF PathNode, Wrap, M, Logx!LogMap
<1>5. nodes' = IF over THEN {} ELSE {PathNode'}
  <2>1. CASE over
    BY <1>1, <2>1 DEF XInv, NodeFollows
  <2>2. CASE ~over
    BY <1>1, <1>4, <2>2, TxSteps DEF XInv, NodeFollows
  <2>3. QED
    BY <2>1, <2>2
<1>6. QED
  BY <1>1, <1>2, <1>3, <1>5, CountStep

LEMMA XEndTxStep ==
  ASSUME XInv, XEndTx
  PROVE  XInv'
<1>1. /\ open > -MaxOpen /\ open' = open - 1
      /\ nodes' = UNION {Logx!HandleTxEnd(n).nodes : n \in nodes}
      /\ unended' = (unended \/ open <= 0)
      /\ UNCHANGED <<logged, misuse, xreports, useTx, wrong, over>>
  BY DEF XEndTx, EndTx, Advance, logVars
<1>2. /\ open \in -MaxOpen .. MaxOpen
      /\ unended \in BOOLEAN
  BY DEF XInv, XTypeOK
<1>3. open' \in -MaxOpen .. MaxOpen
  BY <1>1, <1>2, WidthIsEnough
<1>4. PathNode' = [log |-> Logx!LogMap(logged), tx |-> Wrap(open - 1)]
  BY <1>1 DEF PathNode, Wrap, M, Logx!LogMap
<1>5. nodes' = IF over THEN {} ELSE {PathNode'}
  <2>1. CASE over
    BY <1>1, <2>1 DEF XInv, NodeFollows
  <2>2. CASE ~over
    BY <1>1, <1>4, <2>2, TxSteps DEF XInv, NodeFollows
  <2>3. QED
    BY <2>1, <2>2
<1>6. unended' \in BOOLEAN /\ (~unended' => ~unended /\ open' >= 0)
  <2>1. ~(open <= 0) => open - 1 >= 0
    BY <1>2, WidthIsEnough
  <2>2. QED
    BY <1>1, <1>2, <2>1
<1>7. QED
  BY <1>1, <1>2, <1>3, <1>5, <1>6, CountStep

\* The body of a called function leaves the node alone.
LEMMA XCallStep ==
  ASSUME XInv, NEW isAnnotated \in BOOLEAN, XCall(isAnnotated)
  PROVE  XInv'
<1>1. /\ nodes' = UNION {Logx!CheckBeginFunction(isAnnotated, FALSE, n).nodes :
                           n \in nodes}
      /\ UNCHANGED <<open, logged, misuse, xreports, useTx, wrong, over, unended>>
  BY DEF XCall, Advance, vars, xHistory
<1>2. \A n : Logx!CheckBeginFunction(isAnnotated, FALSE, n).nodes = {n}
  BY DEF Logx!CheckBeginFunction, Logx!Step
<1>3. nodes' = nodes
  <2>1. CASE nodes = {}
    BY <1>1, <2>1
  <2>2. CASE nodes = {PathNode}
    BY <1>1, <1>2, <2>2
  <2>3. QED
    BY <2>1, <2>2 DEF XInv, NodeFollows
<1>4. PathNode' = PathNode
  BY <1>1 DEF PathNode, Wrap, M, Logx!LogMap
<1>5. QED
  BY <1>1, <1>3, <1>4 DEF XInv, XTypeOK, NodeFollows, WrongAreLogged,
                          WrongIsMisuse, WrongAlike

LEMMA StepKeepsXInv ==
  IInv /\ XInv /\ [XNext]_allVars => XInv'
<1> SUFFICES ASSUME IInv, XInv, [XNext]_allVars PROVE XInv'
  OBVIOUS
<1>1. ASSUME NEW x \in LogField, XAssign(x) PROVE XInv'
  BY <1>1, XAssignStep
<1>2. ASSUME NEW x \in LogField, NEW i \in Place, NEW numArgs, XLog(x, i, numArgs)
      PROVE  XInv'
  BY <1>2, XLogStep, XFatalStep
<1>3. ASSUME NEW isAnnotated \in BOOLEAN, XCall(isAnnotated) PROVE XInv'
  BY <1>3, XCallStep
<1>4. CASE XBeginTx
  BY <1>4, XBeginTxStep
<1>5. CASE XEndTx
  BY <1>5, XEndTxStep
<1>6. CASE UNCHANGED allVars
  <2>1. /\ PathNode' = PathNode
        /\ UNCHANGED <<open, logged, misuse, nodes, xreports, useTx, wrong,
                       over, unended>>
    BY <1>6 DEF allVars, vars, txVars, logVars, xVars, xCheckerVars, xHistory,
                PathNode, Wrap, M, Logx!LogMap
  <2>2. QED
    BY <2>1 DEF XInv, XTypeOK, NodeFollows, WrongAreLogged, WrongIsMisuse,
                WrongAlike
<1>7. QED
  BY <1>1, <1>2, <1>3, <1>4, <1>5, <1>6 DEF XNext

-----------------------------------------------------------------------------
(* The theorems *)

\* A step of both checkers is a step of the one on the dataflow engine, or
\* leaves it alone.
LEMMA StepProjects ==
  [XNext]_allVars => [Next]_vars
BY DEF XNext, Next, XAssign, XLog, XCall, XBeginTx, XEndTx, allVars

\* The paths of both checkers are paths of the one on the dataflow engine:
\* what is proved of Spec holds for them.
THEOREM PathsProject == XSpec => Spec
<1>1. XInit => Init
  BY DEF XInit
<1>2. QED
  BY <1>1, StepProjects, PTL DEF XSpec, Spec

\* Both invariants hold along every path of both checkers.
THEOREM BothInvariance == XSpec => [](IInv /\ XInv)
<1>1. XInit => IInv /\ XInv
  BY InitEstablishesIInv, InitEstablishesXInv DEF XInit
<1>2. IInv /\ XInv /\ [XNext]_allVars => IInv' /\ XInv'
  BY StepProjects, StepKeepsIInv, StepKeepsXInv
<1>3. QED
  BY <1>1, <1>2, PTL DEF XSpec

\* checkBind and handleLog report what is wrong until a misuse or a fatal error
\* ends the path, for every width of the count that can hold the open
\* transactions.
THEOREM SymbolicReportsExact == XSpec => []XReportsExact
<1>1. XInv => XReportsExact
  BY DEF XInv, XTypeOK, NodeFollows, XReportsExact
<1>2. QED
  BY <1>1, BothInvariance, PTL

\* The two log checkers accuse the same members where their accounts of the
\* transactions are the same.
THEOREM LogCheckersAgree == XSpec => []CheckersAgree
<1>1. IInv /\ XInv => CheckersAgree
  <2> SUFFICES ASSUME IInv, XInv PROVE CheckersAgree
    OBVIOUS
  <2>1. \A x \in LogField : x \in manager.bugged <=> misuse[x] # {}
    BY DEF IInv, FirstMisuseReported
  <2>2. \A x \in LogField : Reported(x) = misuse[x]
    BY DEF IInv, FirstMisuseReported
  <2>3. over \in BOOLEAN /\ (nodes # {} => ~over)
    BY DEF XInv, XTypeOK, NodeFollows
  <2>4. QED
    BY <2>1, <2>2, <2>3 DEF CheckersAgree, XInv, WrongIsMisuse, WrongAlike
<1>2. QED
  BY <1>1, BothInvariance, PTL
=============================================================================
