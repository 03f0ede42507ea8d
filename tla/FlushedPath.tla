---------------------------- MODULE FlushedPath ----------------------------
(***************************************************************************)
(* The flushed checker along one execution path of a unit, next to what    *)
(* the path commits.                                                       *)
(*                                                                         *)
(* The checker is state and manager, changed by HandleStmt alone.  The     *)
(* memory is a history: which pointers point to something durable, which   *)
(* to something flushed and not yet fenced, and which stores were made of  *)
(* a pointer in what state.  As in the code a pointer is a variable,       *)
(* without aliases.                                                        *)
(***************************************************************************)
EXTENDS FlushedTransitions

VARIABLES state,    \* the checker's abstract state
          manager,  \* the checker's unit and bug reporter
          durable,  \* the pointers whose present target is durable
          pending,  \* those whose target was flushed since the last fence
          early,    \* the stores of a pointer before its target was durable
          reflushed \* those of one flushed again when it was durable

checkerVars == <<state, manager>>
memoryVars  == <<durable, pending>>
storeVars   == <<early, reflushed>>
vars        == <<state, manager, durable, pending, early, reflushed>>

Init ==
  /\ \E unitVars \in SUBSET Pointer : manager = InitUnit(unitVars, {})
  /\ state = InitLatticeValues(manager)
  /\ durable = {} /\ pending = {}
  /\ early = {} /\ reflushed = {}

StoreStmt(f, p)    == [op |-> "store", field |-> f, var |-> p]
AssignStmt(p)      == [op |-> "assign", var |-> p]
FlushStmt(p)       == [op |-> "flush", var |-> p]
FlushFenceStmt(p)  == [op |-> "flushFence", var |-> p]
PfenceStmt         == [op |-> "pfence"]

\* A statement is its own location here.
Transfer(s) ==
  LET r == HandleStmt(s, s, state, manager)
  IN  state' = r.state /\ manager' = r.manager

\* trackStmt has seen every store of the unit, so p is in unitVars.
Store(f, p) ==
  /\ p \in manager.unitVars
  /\ Transfer(StoreStmt(f, p))
  /\ early' = IF p \in durable THEN early ELSE early \cup {<<f, p>>}
  /\ reflushed' = IF p \in durable \cap pending
                  THEN reflushed \cup {<<f, p>>} ELSE reflushed
  /\ UNCHANGED memoryVars

\* p now points elsewhere.
Assign(p) ==
  /\ Transfer(AssignStmt(p))
  /\ durable' = durable \ {p}
  /\ pending' = pending \ {p}
  /\ UNCHANGED storeVars

ClFlushOpt(p) ==
  /\ Transfer(FlushStmt(p))
  /\ pending' = pending \cup {p}
  /\ UNCHANGED <<durable, storeVars>>

ClFlush(p) ==
  /\ Transfer(FlushFenceStmt(p))
  /\ durable' = durable \cup {p}
  /\ pending' = pending \ {p}
  /\ UNCHANGED storeVars

PFence ==
  /\ Transfer(PfenceStmt)
  /\ durable' = durable \cup pending
  /\ pending' = {}
  /\ UNCHANGED storeVars

Next ==
  \/ \E p \in Pointer :
       \/ \E f \in Field : Store(f, p)
       \/ Assign(p) \/ ClFlushOpt(p) \/ ClFlush(p)
  \/ PFence

Spec == Init /\ [][Next]_vars

-----------------------------------------------------------------------------
(* Properties *)

Bug == [fieldStmt   : {StoreStmt(f, p) : f \in Field, p \in Pointer},
        trackedStmt : {NullStmt, PfenceStmt}
                      \cup {AssignStmt(p) : p \in Pointer}
                      \cup {FlushStmt(p) : p \in Pointer}
                      \cup {FlushFenceStmt(p) : p \in Pointer},
        fieldVar    : Pointer \cup Field,
        trackedVar  : Pointer]

\* The types of the variables.
TypeOK ==
  /\ manager.unitVars \subseteq Pointer
  /\ manager.unitVars \subseteq DOMAIN state
  /\ DOMAIN state \subseteq Pointer
  /\ \A p \in DOMAIN state : state[p] \in FlushedLattice
  /\ manager.bugs \subseteq Bug
  /\ durable \subseteq Pointer /\ pending \subseteq Pointer
  /\ early \subseteq Field \X Pointer /\ reflushed \subseteq Field \X Pointer

(***************************************************************************)
(* A value says exactly how far the pointer's target has come: whatever    *)
(* the order of assignments, flushes and fences, and although a flush      *)
(* overwrites any value (handleFlush, handleFence, handleWrite).           *)
(***************************************************************************)
CommitExact ==
  \A p \in Pointer :
    /\ (ValueOf(state, p) = Flush)  <=> p \in pending
    /\ (ValueOf(state, p) = Pfence) <=> p \in durable \ pending

\* The stores that have been reported
Accused == {s \in Field \X Pointer :
              \E b \in manager.bugs : b.fieldStmt = StoreStmt(s[1], s[2])}

(***************************************************************************)
(* The checker misses nothing on a path: every pointer stored before its   *)
(* target was durable has been reported (checkBug).                        *)
(***************************************************************************)
NoMissedStore == early \subseteq Accused

(***************************************************************************)
(* A report is real but for one case: a pointer that was durable, was      *)
(* flushed again and has not been fenced since (handleFlush takes a        *)
(* durable pointer back to Flush).                                         *)
(***************************************************************************)
FalseOnlyWhenReflushed == Accused \subseteq early \cup reflushed

(***************************************************************************)
(* The note of a report leads to what left the pointer uncommitted: its    *)
(* assignment or a clflushopt of it, if the unit holds one.                *)
(***************************************************************************)
NoteLeadsToPointer ==
  \A b \in manager.bugs :
    b.trackedStmt \in
      {NullStmt, AssignStmt(b.trackedVar), FlushStmt(b.trackedVar)}
=============================================================================
