------------------------------ MODULE LogPath ------------------------------
(***************************************************************************)
(* The log checker along one execution path of a unit, next to what the    *)
(* path's transactions protect.                                            *)
(*                                                                         *)
(* The checker is state and manager, changed by HandleStmt alone.  The     *)
(* rest is a history of the transactions and of the members' logs, and of  *)
(* what goes wrong with them.  Nothing keeps a path from ending more       *)
(* transactions than it has begun.                                         *)
(***************************************************************************)
EXTENDS LogTransitions

CONSTANTS Place,   \* tells apart the log statements of one member
          MaxOpen  \* bounds the begins without an end, and the ends without
                    \* a begin

ASSUME MaxOpenAssumption == MaxOpen \in Nat

VARIABLES state,        \* the checker's abstract state
          manager,      \* the checker's unit and bug reporter
          open,         \* the begins of transactions less their ends
          rounds,       \* outermost transactions so far; 2 is two or more
          logged,       \* the members logged at all
          fresh,        \* those logged since the last outermost begin
          firstLog,     \* the first log of each member
          misuse,       \* what was wrong with the first misuse of a member
          unprotected   \* the members written in a transaction that had not
                        \* logged them

checkerVars == <<state, manager>>
txVars      == <<open, rounds>>
logVars     == <<logged, fresh, firstLog>>
vars        == <<state, manager, open, rounds, logged, fresh, firstLog, misuse,
                 unprotected>>

AssignStmt(x) == [op |-> "assign", var |-> x]
LogStmt(x, i) == [op |-> "log", var |-> x, at |-> i]
TxBeginStmt   == [op |-> "tx_begin"]
TxEndStmt     == [op |-> "tx_end"]

Init ==
  /\ \E unitVars \in SUBSET LogField : manager = InitUnit(unitVars, {})
  /\ state = InitLatticeValues(manager)
  /\ open = 0 /\ rounds = 0
  /\ logged = {} /\ fresh = {}
  /\ firstLog = [x \in LogField |-> NullStmt]
  /\ misuse = [x \in LogField |-> {}]
  /\ unprotected = {}

\* A statement is its own location here.
Transfer(s) ==
  LET r == HandleStmt(s, s, state, manager)
  IN  state' = r.state /\ manager' = r.manager

\* The first misuse of x is the one that counts.
Misuse(x, kinds) ==
  misuse' = [misuse EXCEPT ![x] = IF @ = {} THEN kinds ELSE @]

OutsideTx == IF open <= 0 THEN {"OutsideTx"} ELSE {}

\* trackStmt has seen every assignment of the unit, so x is in unitVars.
Assign(x) ==
  /\ x \in manager.unitVars
  /\ Transfer(AssignStmt(x))
  /\ Misuse(x, OutsideTx \cup (IF x \in logged THEN {} ELSE {"NotLogged"}))
  /\ unprotected' = IF open > 0 /\ x \notin fresh THEN unprotected \cup {x}
                                                  ELSE unprotected
  /\ UNCHANGED <<txVars, logVars>>

\* trackStmt skips the arguments of a log: x may be outside unitVars.
Log(x, i) ==
  /\ Transfer(LogStmt(x, i))
  /\ Misuse(x, OutsideTx \cup (IF x \in logged THEN {"DoubleLog"} ELSE {}))
  /\ logged' = logged \cup {x}
  /\ fresh' = IF open > 0 THEN fresh \cup {x} ELSE fresh
  /\ firstLog' = IF x \in logged THEN firstLog
                 ELSE [firstLog EXCEPT ![x] = LogStmt(x, i)]
  /\ UNCHANGED <<txVars, unprotected>>

BeginTx ==
  /\ open < MaxOpen
  /\ Transfer(TxBeginStmt)
  /\ open' = open + 1
  /\ rounds' = IF open = 0 /\ rounds < 2 THEN rounds + 1 ELSE rounds
  /\ fresh' = IF open = 0 THEN {} ELSE fresh
  /\ UNCHANGED <<logged, firstLog, misuse, unprotected>>

EndTx ==
  /\ open > -MaxOpen
  /\ Transfer(TxEndStmt)
  /\ open' = open - 1
  /\ UNCHANGED <<rounds, logVars, misuse, unprotected>>

Next ==
  \/ \E x \in LogField : Assign(x) \/ \E i \in Place : Log(x, i)
  \/ BeginTx
  \/ EndTx

Spec == Init /\ [][Next]_vars

-----------------------------------------------------------------------------
(* Properties *)

BugType == {"OutsideTx", "NotLogged", "DoubleLog"}

\* The types of the variables.
TypeOK ==
  /\ manager.unitVars \subseteq LogField
  /\ manager.bugged \subseteq LogField
  /\ manager.unitVars \cup {TxBegin} \subseteq DOMAIN state
  /\ DOMAIN state \subseteq LogField \cup {TxBegin}
  /\ \A x \in DOMAIN state : state[x] \in LogLattice
  /\ \A b \in manager.bugs : b.currentVar \in LogField /\ b.bugType \in BugType
  /\ open \in Int /\ rounds \in 0 .. 2
  /\ logged \subseteq LogField /\ fresh \subseteq logged
  /\ DOMAIN firstLog = LogField
  /\ misuse \in [LogField -> SUBSET BugType]
  /\ unprotected \subseteq LogField

(***************************************************************************)
(* The values follow the path: the transaction's is the number of begins   *)
(* less that of ends, below zero as well, and a member's says whether it   *)
(* was logged in the unit at all (handleTxBegin, handleTxEnd, handleLog).  *)
(***************************************************************************)
ValuesExact ==
  /\ state[TxBegin].type = "TxValueType" /\ state[TxBegin].tx = open
  /\ \A x \in LogField : IsLogged(ValueOf(state, x)) <=> x \in logged

\* The kinds of bugs reported of x
Reported(x) == {b.bugType : b \in {c \in manager.bugs : c.currentVar = x}}

(***************************************************************************)
(* The reports of a member are exactly what was wrong with its first       *)
(* misuse: one statement may raise two of them, and after it the member is *)
(* silent for the rest of the unit (checkOutsideTxBug, checkDoubleLogBug,  *)
(* checkNotLoggedBug).                                                     *)
(***************************************************************************)
FirstMisuseReported ==
  \A x \in LogField :
    /\ Reported(x) = misuse[x]
    /\ x \in manager.bugged <=> misuse[x] # {}

(***************************************************************************)
(* The note of a double log, "is logged here first" (getLogStmtMsg), leads *)
(* to the first log of the member; reportBugs dereferences it.             *)
(***************************************************************************)
NoteIsFirstLog ==
  \A b \in manager.bugs : b.bugType = "DoubleLog" =>
    b.logStmt = firstLog[b.currentVar] /\ b.logStmt # NullStmt

(***************************************************************************)
(* As long as the path has one outermost transaction, every member written *)
(* in it before it was logged in it has been reported.  With a second one  *)
(* this fails: handleTxEnd leaves the members logged.                      *)
(***************************************************************************)
UnprotectedReported ==
  rounds <= 1 => unprotected \subseteq manager.bugged
=============================================================================
