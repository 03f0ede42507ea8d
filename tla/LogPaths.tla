----------------------------- MODULE LogPaths -----------------------------
(***************************************************************************)
(* The two log checkers on the same path: the one on the dataflow engine   *)
(* (LogPath) and the one on symbolic execution (LogxTransitions).  The     *)
(* first sees the whole path, the second until it gives the path up.       *)
(***************************************************************************)
EXTENDS LogPath

CONSTANTS Width,   \* the bits of an unsigned int
          NumArgs  \* of the calls of log functions

Logx == INSTANCE LogxTransitions

\* An unsigned count tells all the numbers of open transactions apart.
ASSUME WidthAssumption == Width \in Nat /\ MaxOpen < 2^Width

VARIABLES nodes,     \* the path's node in the exploded graph, if it has one
          xreports,  \* what the symbolic checker has reported of each member
          useTx,     \* LogFncs::useTx
          wrong,     \* what was wrong with each member, until the path is over
          over,      \* a misuse or a fatal error has ended the path
          unended    \* some tx_end has ended no transaction

xCheckerVars == <<nodes, xreports>>
xHistory     == <<wrong, over, unended>>
xVars        == <<xCheckerVars, useTx, xHistory>>
allVars      == <<vars, xVars>>

(***************************************************************************)
(* The unit is annotated, and it begins transactions, so tx_begin is       *)
(* declared; tx_end may be missing.                                        *)
(***************************************************************************)
XInit ==
  /\ Init
  /\ \E txEndDeclared \in BOOLEAN : useTx = Logx!UseTxMode(TRUE, txEndDeclared)
  /\ nodes = Logx!CheckBeginFunction(TRUE, TRUE, Logx!StartNode).nodes
  /\ xreports = [x \in LogField |-> {}]
  /\ wrong = [x \in LogField |-> {}]
  /\ over = FALSE /\ unended = FALSE

\* What the callback makes of the path's node
Advance(Callback(_)) == nodes' = UNION {Callback(n).nodes : n \in nodes}

\* A callback of a statement about x
Visit(x, Callback(_)) ==
  /\ Advance(Callback)
  /\ xreports' = [xreports EXCEPT ![x] =
                    @ \cup UNION {Callback(n).reports : n \in nodes}]
  /\ UNCHANGED useTx

(***************************************************************************)
(* One thing is wrong with a statement at a time, and it ends the path.    *)
(* The count cannot tell an unended tx_end from an open transaction.       *)
(***************************************************************************)
GoesWrong(x, kinds, ends) ==
  /\ wrong' = IF over THEN wrong ELSE [wrong EXCEPT ![x] = @ \cup kinds]
  /\ over' = (over \/ ends)
  /\ UNCHANGED unended

OutsideAny == useTx /\ open = 0

XAssign(x) ==
  LET kinds == IF OutsideAny THEN {"OutsideTx"}
               ELSE IF x \in logged THEN {} ELSE {"NotLogged"}
      Callback(n) == Logx!CheckBind(x, useTx, n)
  IN  /\ Assign(x)
      /\ Visit(x, Callback)
      /\ GoesWrong(x, kinds, kinds # {})

\* The first log of a member outside of a transaction does not end the path,
\* unless the call is fatal.
XLog(x, i, numArgs) ==
  LET isFatal == numArgs > Logx!MaxLogArgs
      kinds == IF isFatal THEN {}
               ELSE IF OutsideAny THEN {"OutsideTx"}
               ELSE IF x \in logged THEN {"DoubleLog"} ELSE {}
      Callback(n) == Logx!HandleLog(x, numArgs, useTx, n)
  IN  /\ Log(x, i)
      /\ Visit(x, Callback)
      /\ GoesWrong(x, kinds, isFatal \/ x \in logged)

\* The body of a called function begins; it need not be annotated.
XCall(isAnnotated) ==
  LET Callback(n) == Logx!CheckBeginFunction(isAnnotated, FALSE, n)
  IN  /\ Advance(Callback)
      /\ UNCHANGED <<vars, xreports, useTx, xHistory>>

XBeginTx ==
  LET Callback(n) == Logx!HandleTxBeg(n)
  IN  /\ BeginTx
      /\ Advance(Callback)
      /\ UNCHANGED <<xreports, useTx, xHistory>>

XEndTx ==
  LET Callback(n) == Logx!HandleTxEnd(n)
  IN  /\ useTx
      /\ EndTx
      /\ Advance(Callback)
      /\ unended' = (unended \/ open <= 0)
      /\ UNCHANGED <<xreports, useTx, wrong, over>>

XNext ==
  \/ \E x \in LogField :
       \/ XAssign(x)
       \/ \E i \in Place, numArgs \in NumArgs : XLog(x, i, numArgs)
  \/ \E isAnnotated \in BOOLEAN : XCall(isAnnotated)
  \/ XBeginTx
  \/ XEndTx

XSpec == XInit /\ [][XNext]_allVars

-----------------------------------------------------------------------------
(* Properties *)

(***************************************************************************)
(* The symbolic checker reports what is wrong with the path until a misuse *)
(* or a fatal error ends it, and gives the path up then and not before.    *)
(* An access is outside for it only where as many transactions have ended  *)
(* as begun: with more ends than begins the unsigned count wraps, and      *)
(* everything looks like the inside of a transaction (endTx, checkTx).     *)
(***************************************************************************)
XReportsExact ==
  /\ xreports = wrong
  /\ over <=> nodes = {}

(***************************************************************************)
(* The two checkers agree: whom the symbolic one accuses the other accuses *)
(* too, and while the path is explored, no tx_end was in vain and both     *)
(* transaction functions are declared, they accuse the same members of the *)
(* same thing.  (handleLog, checkBind; checkDoubleLogBug,                  *)
(* checkNotLoggedBug.)                                                     *)
(***************************************************************************)
CheckersAgree ==
  /\ \A x \in LogField : xreports[x] # {} => x \in manager.bugged
  /\ nodes # {} /\ useTx /\ ~unended =>
       \A x \in LogField : xreports[x] = Reported(x)
=============================================================================
