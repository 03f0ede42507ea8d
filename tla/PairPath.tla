------------------------------ MODULE PairPath ------------------------------
(***************************************************************************)
(* The pair checker along one execution path of a unit, next to the memory *)
(* the analysed program runs on.                                           *)
(*                                                                         *)
(* The checker is state and manager, changed by HandleStmt alone.  The     *)
(* memory is a history: how often each variable was written and which of   *)
(* those versions the flushes and fences have made durable or ordered.     *)
(* The memory is not in the repository; it is the meaning the checker      *)
(* gives to clflushopt, clwb, clflush, flush_range, pfence and vfence.     *)
(***************************************************************************)
EXTENDS PairTransitions

CONSTANT MaxVersion  \* MaxVersion[v] bounds the writes to v

ASSUME MaxVersionAssumption == MaxVersion \in [Var -> Nat]

VARIABLES state,    \* the checker's abstract state
          manager,  \* the checker's unit and bug reporter
          ver,      \* ver[v]: the number of writes to v so far
          pend,     \* pend[v]: the version the last clflushopt of v saw
          dur,      \* dur[v]: the newest version known to be durable
          ord,      \* ord[v]: the newest version a fence has ordered
          racy      \* the pairs <<v, p>> where v was written too early

checkerVars == <<state, manager>>
memoryVars  == <<ver, pend, dur, ord, racy>>
vars        == <<state, manager, ver, pend, dur, ord, racy>>

-----------------------------------------------------------------------------
(* The memory *)

Newer(a, b) == IF a < b THEN b ELSE a

\* What a pair asks of the member written first.
Ordered(PI, p) == IF PI.isScl THEN ord[p] = ver[p] ELSE dur[p] = ver[p]

Store(v) ==
  /\ ver[v] < MaxVersion[v]
  /\ ver' = [ver EXCEPT ![v] = @ + 1]
  /\ racy' = racy \cup
       {<<v, GetPairND(PI, v)>> : PI \in
          {I \in GetPairInfoSet(v) :
             /\ GetPairND(I, v) \in manager.unitVars \ {v}
             /\ ~Ordered(I, GetPairND(I, v))}}
  /\ UNCHANGED <<pend, dur, ord>>

FlushOpt(v) ==
  /\ pend' = [pend EXCEPT ![v] = ver[v]]
  /\ UNCHANGED <<ver, dur, ord, racy>>

FlushRange(v) ==
  /\ dur' = [dur EXCEPT ![v] = ver[v]]
  /\ ord' = [ord EXCEPT ![v] = ver[v]]
  /\ UNCHANGED <<ver, pend, racy>>

StoreFence ==
  /\ dur' = [v \in Var |-> Newer(dur[v], pend[v])]
  /\ ord' = ver
  /\ UNCHANGED <<ver, pend, racy>>

CompilerFence ==
  /\ ord' = ver
  /\ UNCHANGED <<ver, pend, dur, racy>>

-----------------------------------------------------------------------------
(* The checker beside it *)

Zero == [v \in Var |-> 0]

Init ==
  /\ \E unitVars \in SUBSET UsedVars : manager = InitUnit(unitVars, {})
  /\ state = InitLatticeValues(manager)
  /\ ver = Zero /\ pend = Zero /\ dur = Zero /\ ord = Zero
  /\ racy = {}

AssignStmt(v)     == [op |-> "assign", var |-> v]
FlushStmt(v)      == [op |-> "flush", var |-> v]
FlushFenceStmt(v) == [op |-> "flushFence", var |-> v]
PfenceStmt        == [op |-> "pfence"]
VfenceStmt        == [op |-> "vfence"]

\* A statement is its own location here.
Transfer(s) ==
  LET r == HandleStmt(s, s, state, manager)
  IN  state' = r.state /\ manager' = r.manager

\* trackStmt has seen every assignment of the unit, so v is in unitVars.
Assign(v) ==
  /\ v \in manager.unitVars
  /\ Store(v)
  /\ Transfer(AssignStmt(v))

\* trackStmt skips the arguments of a flush: v may be outside unitVars.
ClFlushOpt(v) == Transfer(FlushStmt(v)) /\ FlushOpt(v)

FlushFence(v) == Transfer(FlushFenceStmt(v)) /\ FlushRange(v)

PFence == Transfer(PfenceStmt) /\ StoreFence

VFence == Transfer(VfenceStmt) /\ CompilerFence

Next ==
  \/ \E v \in Var : Assign(v) \/ ClFlushOpt(v) \/ FlushFence(v)
  \/ PFence
  \/ VFence

Spec == Init /\ [][Next]_vars

-----------------------------------------------------------------------------
(* Properties *)

\* The types of the variables.
TypeOK ==
  /\ manager.unitVars \in SUBSET UsedVars
  /\ manager.bugged \in SUBSET manager.unitVars
  /\ manager.unitVars \subseteq DOMAIN state
  /\ \A v \in DOMAIN state : v \in UsedVars /\ state[v] \in PairLattice
  /\ ver \in [Var -> Nat] /\ pend \in [Var -> Nat]
  /\ dur \in [Var -> Nat] /\ ord \in [Var -> Nat]
  /\ \A v \in Var : pend[v] <= ver[v] /\ dur[v] <= ver[v] /\ ord[v] <= ver[v]

(***************************************************************************)
(* The dcl part of a value says exactly how far the last write to the      *)
(* variable has come: flushed or not, durable or not.  A write after a     *)
(* flush, a fence without a flush and a flush without a fence must all     *)
(* leave it undurable (handleWrite, handleFlush, handleFence).             *)
(***************************************************************************)
DurabilityExact ==
  \A v \in manager.unitVars : HasDcl(state[v]) =>
    LET dcl == state[v].dcl
    IN  /\ (dcl = UnseenDcl) <=> (ver[v] = 0)
        /\ (dcl = Pfence)    <=> (ver[v] > 0 /\ dur[v] = ver[v])
        /\ (dcl = Flush)     <=> (dur[v] < ver[v] /\ pend[v] = ver[v])
        /\ (dcl = WriteDcl)  <=> (dur[v] < ver[v] /\ pend[v] < ver[v])

(***************************************************************************)
(* The scl part of a value says whether a fence has come after the last    *)
(* write to the variable; both kinds of fence count.                       *)
(***************************************************************************)
OrderExact ==
  \A v \in manager.unitVars : HasScl(state[v]) =>
    ((state[v].scl = WriteScl) <=> (ord[v] < ver[v]))

(***************************************************************************)
(* The checker misses nothing on a path: whenever a variable was written   *)
(* before its partner was ordered the way their pair asks for, the         *)
(* variable has been reported (checkBug, addAsBug).                        *)
(***************************************************************************)
NoMissedBug == \A r \in racy : r[1] \in manager.bugged

\* v has partners on its own cache line and on others.
OnBothLines(v) == GetDsclInfo(v).isDcl /\ GetDsclInfo(v).isScl

(***************************************************************************)
(* Every report names a pair in which one variable really was written too  *)
(* early, unless the partner has partners on both kinds of cache line:     *)
(* isWriteFlush does not ask which pair it is used for.                    *)
(***************************************************************************)
NoFalseBug ==
  \A b \in manager.bugs :
    <<b.currentVar, b.pairVar>> \in racy \/ OnBothLines(b.pairVar)

\* The assertion in checkBug: the partner a report names has a last location.
LastLocationKnown ==
  \A b \in manager.bugs : b.pairStmt # NullStmt

(***************************************************************************)
(* The note of a report leads to a statement that left the partner without *)
(* its commit, an assignment or a clflushopt of that very variable, unless *)
(* the partner is kept in order in two ways and one of them moved on.      *)
(***************************************************************************)
NoteLeadsToPair ==
  \A b \in manager.bugs :
    \/ b.pairStmt # NullStmt /\ b.pairStmt.op \in {"assign", "flush"}
       /\ b.pairStmt.var = b.pairVar
    \/ OnBothLines(b.pairVar)

(***************************************************************************)
(* The checker implements the monitor: what it has not seen ordered are    *)
(* the values below Pfence and Vfence, and its bugged variables are the    *)
(* alarmed ones.                                                           *)
(***************************************************************************)
Monitor ==
  INSTANCE OrderMonitor
    WITH scope     <- manager.unitVars,
         unordered <- {v \in manager.unitVars : IsWriteFlush(state[v])},
         alarmed   <- manager.bugged

ImplementsMonitor == Monitor!MonitorSpec
=============================================================================
