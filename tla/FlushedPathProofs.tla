------------------------- MODULE FlushedPathProofs -------------------------
(***************************************************************************)
(* Along every execution path the flushed checker's values say how far     *)
(* what each pointer points to has come, it misses no store that comes too *)
(* early, and accuses wrongly in one case only.  For all sets of members   *)
(* and pointers.                                                           *)
(*                                                                         *)
(* The paths of both checkers of stored pointers side by side are paths of *)
(* this one; the symbolic one accuses a pointer only of what is dirty, and *)
(* loses nothing that is, as long as the path is explored.  For all        *)
(* symbols as well.                                                        *)
(***************************************************************************)
EXTENDS FlushedPaths, TLAPS

-----------------------------------------------------------------------------
(* Operators *)

\* getLastLocation after updateLastLocation
LEMMA LocationAfterUpdate ==
  ASSUME NEW m, NEW unitVars, NEW locations, NEW bugged, NEW bugs,
         m = [unitVars |-> unitVars, lastLocation |-> locations,
              bugged |-> bugged, bugs |-> bugs],
         NEW X, NEW S
  PROVE  /\ UpdateLastLocation(m, X, S).unitVars = unitVars
         /\ UpdateLastLocation(m, X, S).bugged = bugged
         /\ UpdateLastLocation(m, X, S).bugs = bugs
         /\ UpdateLastLocation(m, X, S) =
              [unitVars     |-> unitVars,
               lastLocation |-> UpdateLastLocation(m, X, S).lastLocation,
               bugged |-> bugged, bugs |-> bugs]
         /\ \A p : GetLastLocation(UpdateLastLocation(m, X, S), p) =
                     IF p \in X THEN S ELSE GetLastLocation(m, p)
BY DEF UpdateLastLocation, GetLastLocation

\* The transfer function of a store
LEMMA StoreResult ==
  ASSUME NEW f \in Field, NEW p \in Pointer, NEW st, NEW m
  PROVE  LET s == StoreStmt(f, p)
             r == HandleStmt(s, s, st, m)
         IN  /\ r.state = Put(st, p, ValueOf(st, p))
             /\ r.manager = CheckBug(p, p, s, st, m)
<1> DEFINE s == StoreStmt(f, p)
<1>1. s.op = "store" /\ s.field = f /\ s.var = p
  BY DEF StoreStmt
<1> HIDE DEF s
<1>2. HandleStmt(s, s, st, m) = HandleFieldWrite(s, GetFieldFTI(f, p), st, m)
  BY <1>1 DEF HandleStmt, IsFieldWrite, IsTracked
<1>3. GetFieldFTI(f, p).trackedVariable = p
  BY DEF GetFieldFTI
<1>4. QED
  BY <1>2, <1>3 DEF HandleFieldWrite, Result, s

\* The transfer functions of assignments and flushes
LEMMA VariableResult ==
  ASSUME NEW p \in Pointer, NEW st, NEW m,
         NEW s \in {AssignStmt(p), FlushStmt(p), FlushFenceStmt(p)}
  PROVE  /\ HandleStmt(s, s, st, m).manager = UpdateLastLocation(m, {p}, s)
         /\ s = AssignStmt(p) =>
              HandleStmt(s, s, st, m).state = Put(st, p, Write)
         /\ s = FlushStmt(p) =>
              HandleStmt(s, s, st, m).state = Put(st, p, Flush)
         /\ s = FlushFenceStmt(p) =>
              HandleStmt(s, s, st, m).state = Put(st, p, Pfence)
<1>1. CASE s = AssignStmt(p)
  <2>1. s.op = "assign" /\ s.var = p
    BY <1>1 DEF AssignStmt
  <2>2. s # FlushStmt(p) /\ s # FlushFenceStmt(p)
    BY <2>1 DEF FlushStmt, FlushFenceStmt
  <2>3. HandleStmt(s, s, st, m) = HandlePointerWrite(s, p, st, m)
    BY <2>1 DEF HandleStmt, IsFieldWrite, IsTracked
  <2>4. QED
    BY <2>2, <2>3 DEF HandlePointerWrite, Result
<1>2. CASE s = FlushStmt(p)
  <2>1. s.op = "flush" /\ s.var = p
    BY <1>2 DEF FlushStmt
  <2>2. s # AssignStmt(p) /\ s # FlushFenceStmt(p)
    BY <2>1 DEF AssignStmt, FlushFenceStmt
  <2>3. HandleStmt(s, s, st, m) = HandleFlush(s, FALSE, p, st, m)
    BY <2>1 DEF HandleStmt, IsFieldWrite, IsTracked
  <2>4. QED
    BY <2>2, <2>3 DEF HandleFlush, Result
<1>3. CASE s = FlushFenceStmt(p)
  <2>1. s.op = "flushFence" /\ s.var = p
    BY <1>3 DEF FlushFenceStmt
  <2>2. s # AssignStmt(p) /\ s # FlushStmt(p)
    BY <2>1 DEF AssignStmt, FlushStmt
  <2>3. HandleStmt(s, s, st, m) = HandleFlush(s, TRUE, p, st, m)
    BY <2>1 DEF HandleStmt, IsFieldWrite, IsTracked
  <2>4. QED
    BY <2>2, <2>3 DEF HandleFlush, Result
<1>4. QED
  BY <1>1, <1>2, <1>3

\* The pointers a fence commits
FlushedVars(st) == {v \in DOMAIN st : st[v] = Flush}

\* The transfer function of a fence
LEMMA FenceResult ==
  ASSUME NEW st, NEW m
  PROVE  LET r == HandleStmt(PfenceStmt, PfenceStmt, st, m)
         IN  /\ DOMAIN r.state = DOMAIN st
             /\ \A p : ValueOf(r.state, p) =
                         IF p \in FlushedVars(st) THEN Pfence ELSE ValueOf(st, p)
             /\ r.manager = UpdateLastLocation(m, FlushedVars(st), PfenceStmt)
<1>1. PfenceStmt.op = "pfence"
  BY DEF PfenceStmt
<1>2. HandleStmt(PfenceStmt, PfenceStmt, st, m) = HandleFence(PfenceStmt, st, m)
  BY <1>1 DEF HandleStmt, IsFieldWrite, IsTracked
<1>3. QED
  BY <1>2 DEF HandleFence, Result, FlushedVars, ValueOf
-----------------------------------------------------------------------------
(* The inductive invariant *)

\* The manager has the four fields of Init's, and suppresses nobody.
ManagerShape ==
  manager = [unitVars     |-> manager.unitVars,
             lastLocation |-> manager.lastLocation,
             bugged       |-> {},
             bugs         |-> manager.bugs]

\* What can have left pointer p with value val
Locations(val, p) ==
  IF val = Unseen THEN {NullStmt}
  ELSE IF val = Write THEN {AssignStmt(p)}
  ELSE IF val = Flush THEN {FlushStmt(p)}
  ELSE {PfenceStmt, FlushFenceStmt(p)}

\* The last location of every pointer is what gave it its value.
LocationsExact ==
  \A p \in Pointer :
    GetLastLocation(manager, p) \in Locations(ValueOf(state, p), p)

IInv ==
  /\ TypeOK
  /\ ManagerShape
  /\ LocationsExact
  /\ CommitExact
  /\ NoMissedStore
  /\ FalseOnlyWhenReflushed
  /\ NoteLeadsToPointer

\* A unit starts with every pointer Unseen and nothing reported.
LEMMA InitEstablishesIInv == Init => IInv
<1> SUFFICES ASSUME Init PROVE IInv
  OBVIOUS
<1>1. PICK unitVars \in SUBSET Pointer : manager = InitUnit(unitVars, {})
  BY DEF Init
<1>2. /\ manager.unitVars = unitVars /\ manager.bugged = {} /\ manager.bugs = {}
      /\ DOMAIN manager.lastLocation = {} /\ ManagerShape
  BY <1>1 DEF InitUnit, ManagerShape
<1>3. state = [v \in unitVars |-> Unseen]
  BY <1>2 DEF Init, InitLatticeValues, GetInit
<1>4. \A p \in Pointer : ValueOf(state, p) = Unseen
  BY <1>3 DEF ValueOf, GetInit
<1>5. \A p \in Pointer : GetLastLocation(manager, p) = NullStmt
  BY <1>2 DEF GetLastLocation
<1>6. TypeOK
  BY <1>2, <1>3 DEF Init, TypeOK, FlushedLattice, Write, Unseen
<1>7. CommitExact
  BY <1>4 DEF Init, CommitExact, Flush, Pfence, Unseen
<1>8. NoMissedStore /\ FalseOnlyWhenReflushed
  BY <1>2 DEF Init, NoMissedStore, FalseOnlyWhenReflushed, Accused
<1>9. NoteLeadsToPointer
  BY <1>2 DEF NoteLeadsToPointer
<1>10. LocationsExact
  BY <1>4, <1>5 DEF LocationsExact, Locations
<1>11. QED
  BY <1>2, <1>6, <1>7, <1>8, <1>9, <1>10 DEF IInv

-----------------------------------------------------------------------------
(* The steps *)

\* Assignments, flushes and fences report nothing: it is left to show that the
\* values stay exact.
LEMMA QuietStep ==
  ASSUME IInv, UNCHANGED storeVars,
         NEW X, NEW S, manager' = UpdateLastLocation(manager, X, S),
         DOMAIN state \subseteq DOMAIN state', DOMAIN state' \subseteq Pointer,
         \A p \in DOMAIN state' : ValueOf(state', p) \in FlushedLattice,
         \A p \in Pointer :
           (IF p \in X THEN S ELSE GetLastLocation(manager, p))
             \in Locations(ValueOf(state', p), p),
         durable' \subseteq Pointer, pending' \subseteq Pointer,
         CommitExact'
  PROVE  IInv'
<1>1. /\ manager'.unitVars = manager.unitVars
      /\ manager'.bugs = manager.bugs
      /\ ManagerShape'
      /\ \A p : GetLastLocation(manager', p) =
                  IF p \in X THEN S ELSE GetLastLocation(manager, p)
  <2>1. manager = [unitVars |-> manager.unitVars,
                   lastLocation |-> manager.lastLocation,
                   bugged |-> {}, bugs |-> manager.bugs]
    BY DEF IInv, ManagerShape
  <2>2. QED
    BY <2>1, LocationAfterUpdate DEF ManagerShape
<1>2. TypeOK'
  BY <1>1 DEF IInv, TypeOK, storeVars, ValueOf
<1>3. LocationsExact'
  BY <1>1 DEF LocationsExact
<1>4. Accused' = Accused
  BY <1>1 DEF Accused
<1>5. NoMissedStore' /\ FalseOnlyWhenReflushed'
  BY <1>4 DEF IInv, NoMissedStore, FalseOnlyWhenReflushed, storeVars
<1>6. NoteLeadsToPointer'
  BY <1>1 DEF IInv, NoteLeadsToPointer
<1>7. QED
  BY <1>1, <1>2, <1>3, <1>5, <1>6 DEF IInv

\* An assignment or a flush of p gives p alone a value.
LEMMA VariableStep ==
  ASSUME IInv, UNCHANGED storeVars, NEW p \in Pointer,
         NEW S, NEW val \in FlushedLattice,
         manager' = UpdateLastLocation(manager, {p}, S), S \in Locations(val, p),
         state' = Put(state, p, val),
         durable' \in SUBSET Pointer, pending' \in SUBSET Pointer,
         (val = Flush) <=> p \in pending',
         (val = Pfence) <=> p \in durable' \ pending',
         \A q \in Pointer \ {p} : /\ q \in durable' <=> q \in durable
                                  /\ q \in pending' <=> q \in pending
  PROVE  IInv'
<1>1. /\ \A q : ValueOf(state', q) = IF q = p THEN val ELSE ValueOf(state, q)
      /\ DOMAIN state' = DOMAIN state \cup {p}
  BY DEF ValueOf, Put
<1>2. \A q \in DOMAIN state' : ValueOf(state', q) \in FlushedLattice
  BY <1>1 DEF IInv, TypeOK, ValueOf
<1>3. \A q \in Pointer : (IF q \in {p} THEN S ELSE GetLastLocation(manager, q))
                           \in Locations(ValueOf(state', q), q)
  BY <1>1 DEF IInv, LocationsExact
<1>4. CommitExact'
  BY <1>1 DEF IInv, CommitExact
<1>5. DOMAIN state' \subseteq Pointer
  BY <1>1 DEF IInv, TypeOK
<1>6. QED
  BY <1>1, <1>2, <1>3, <1>4, <1>5, QuietStep

LEMMA AssignStep ==
  ASSUME IInv, NEW p \in Pointer, Assign(p)
  PROVE  IInv'
<1> DEFINE s == AssignStmt(p)
<1>1. manager' = UpdateLastLocation(manager, {p}, s) /\ state' = Put(state, p, Write)
  BY VariableResult DEF Assign, Transfer
<1>2. s \in Locations(Write, p) /\ Write \in FlushedLattice
  BY DEF Locations, FlushedLattice, Write, Unseen, Flush
<1>3. /\ durable' = durable \ {p} /\ pending' = pending \ {p}
      /\ durable \subseteq Pointer /\ pending \subseteq Pointer
      /\ UNCHANGED storeVars
  BY DEF Assign, IInv, TypeOK
<1>4. Write # Flush /\ Write # Pfence
  BY DEF Write, Flush, Pfence
<1> HIDE DEF s
<1>5. QED
  BY <1>1, <1>2, <1>3, <1>4, VariableStep

LEMMA ClFlushOptStep ==
  ASSUME IInv, NEW p \in Pointer, ClFlushOpt(p)
  PROVE  IInv'
<1> DEFINE s == FlushStmt(p)
<1>1. manager' = UpdateLastLocation(manager, {p}, s) /\ state' = Put(state, p, Flush)
  BY VariableResult DEF ClFlushOpt, Transfer
<1>2. s \in Locations(Flush, p) /\ Flush \in FlushedLattice
  BY DEF Locations, FlushedLattice, Write, Unseen, Flush
<1>3. /\ durable' = durable /\ pending' = pending \cup {p}
      /\ durable \subseteq Pointer /\ pending \subseteq Pointer
      /\ UNCHANGED storeVars
  BY DEF ClFlushOpt, IInv, TypeOK, storeVars
<1>4. Flush # Pfence
  BY DEF Flush, Pfence
<1> HIDE DEF s
<1>5. QED
  BY <1>1, <1>2, <1>3, <1>4, VariableStep

LEMMA ClFlushStep ==
  ASSUME IInv, NEW p \in Pointer, ClFlush(p)
  PROVE  IInv'
<1> DEFINE s == FlushFenceStmt(p)
<1>1. manager' = UpdateLastLocation(manager, {p}, s) /\ state' = Put(state, p, Pfence)
  BY VariableResult DEF ClFlush, Transfer
<1>2. s \in Locations(Pfence, p) /\ Pfence \in FlushedLattice
  BY DEF Locations, FlushedLattice, Write, Unseen, Flush, Pfence
<1>3. /\ durable' = durable \cup {p} /\ pending' = pending \ {p}
      /\ durable \subseteq Pointer /\ pending \subseteq Pointer
      /\ UNCHANGED storeVars
  BY DEF ClFlush, IInv, TypeOK
<1>4. Flush # Pfence
  BY DEF Flush, Pfence
<1> HIDE DEF s
<1>5. QED
  BY <1>1, <1>2, <1>3, <1>4, VariableStep

LEMMA PFenceStep ==
  ASSUME IInv, PFence
  PROVE  IInv'
<1> DEFINE X == FlushedVars(state)
<1>1. /\ DOMAIN state' = DOMAIN state
      /\ \A p : ValueOf(state', p) = IF p \in X THEN Pfence ELSE ValueOf(state, p)
      /\ manager' = UpdateLastLocation(manager, X, PfenceStmt)
  BY FenceResult DEF PFence, Transfer
<1>2. \A p : p \in X <=> ValueOf(state, p) = Flush
  BY DEF FlushedVars, ValueOf, GetInit, Flush, Unseen
<1>3. \A p \in Pointer : p \in X <=> p \in pending
  BY <1>2 DEF IInv, CommitExact
<1> HIDE DEF X
<1>4. \A p \in DOMAIN state' : ValueOf(state', p) \in FlushedLattice
  BY <1>1 DEF IInv, TypeOK, ValueOf, FlushedLattice, Write, Pfence, Unseen
<1>5. \A p \in Pointer :
        (IF p \in X THEN PfenceStmt ELSE GetLastLocation(manager, p))
          \in Locations(ValueOf(state', p), p)
  BY <1>1 DEF IInv, LocationsExact, Locations, Write, Flush, Pfence, Unseen
<1>6. durable' = durable \cup pending /\ pending' = {} /\ UNCHANGED storeVars
  BY DEF PFence
<1>7. CommitExact'
  BY <1>1, <1>2, <1>3, <1>6 DEF IInv, CommitExact, Flush, Pfence
<1>8. durable' \subseteq Pointer /\ pending' \subseteq Pointer
  BY <1>6 DEF IInv, TypeOK
<1>9. DOMAIN state \subseteq DOMAIN state' /\ DOMAIN state' \subseteq Pointer
  BY <1>1 DEF IInv, TypeOK
<1>10. QED
  BY <1>1, <1>4, <1>5, <1>6, <1>7, <1>8, <1>9, QuietStep

\* A store of p into f: whether it is reported follows from p's value, which
\* says whether p's target is durable.
LEMMA StoreStep ==
  ASSUME IInv, NEW f \in Field, NEW p \in Pointer, Store(f, p)
  PROVE  IInv'
<1> DEFINE s   == StoreStmt(f, p)
           loc == GetLastLocation(manager, p)
           val == ValueOf(state, p)
           new == [fieldStmt |-> s, trackedStmt |-> loc, fieldVar |-> p,
                   trackedVar |-> p]
<1>1. /\ state' = Put(state, p, val)
      /\ manager' = CheckBug(p, p, s, state, manager)
  BY StoreResult DEF Store, Transfer
<1>2. /\ \A q : ValueOf(state', q) = ValueOf(state, q)
      /\ DOMAIN state' = DOMAIN state \cup {p}
  BY <1>1 DEF ValueOf, Put
<1>3. /\ manager'.unitVars = manager.unitVars
      /\ manager'.lastLocation = manager.lastLocation
      /\ ManagerShape'
      /\ manager'.bugs = IF val = Pfence THEN manager.bugs
                         ELSE manager.bugs \cup {new}
  <2>1. ManagerShape /\ manager.bugged = {}
    BY DEF IInv, ManagerShape
  <2>2. CASE val = Pfence
    BY <1>1, <2>1, <2>2 DEF CheckBug, ManagerShape
  <2>3. CASE val # Pfence
    <3>1. manager' = [manager EXCEPT !.bugs = @ \cup {new}]
      BY <1>1, <2>1, <2>3 DEF CheckBug, AddAsBug
    <3> HIDE DEF new, val
    <3>2. QED
      BY <2>1, <2>3, <3>1 DEF ManagerShape
  <2>4. QED
    BY <2>2, <2>3
<1>4. UNCHANGED memoryVars
  BY DEF Store
<1>5. val = Pfence <=> p \in durable \ pending
  BY DEF IInv, CommitExact
<1>6. \A q : GetLastLocation(manager', q) = GetLastLocation(manager, q)
  BY <1>3 DEF GetLastLocation
<1>7. val # Pfence => loc \in {NullStmt, AssignStmt(p), FlushStmt(p)}
  BY DEF IInv, LocationsExact, Locations, TypeOK, ValueOf, FlushedLattice,
         GetInit, Write, Flush, Pfence, Unseen
<1>8. val # Pfence => new \in Bug
  BY <1>7 DEF Bug
<1>9. TypeOK'
  <2>1. manager'.bugs \subseteq Bug
    BY <1>3, <1>8 DEF IInv, TypeOK
  <2>2. \A q \in DOMAIN state' : state'[q] \in FlushedLattice
    BY <1>1, <1>2 DEF IInv, TypeOK, ValueOf, Put, FlushedLattice, GetInit,
       Write, Unseen
  <2>3. early' \subseteq Field \X Pointer /\ reflushed' \subseteq Field \X Pointer
    BY DEF Store, IInv, TypeOK
  <2>4. QED
    BY <1>2, <1>3, <1>4, <2>1, <2>2, <2>3 DEF IInv, TypeOK, memoryVars
<1>10. LocationsExact'
  BY <1>2, <1>6 DEF IInv, LocationsExact
<1>11. CommitExact'
  BY <1>2, <1>4 DEF IInv, CommitExact, memoryVars
<1>12. NoteLeadsToPointer'
  BY <1>3, <1>7 DEF IInv, NoteLeadsToPointer
<1>13. Accused' = IF val = Pfence THEN Accused ELSE Accused \cup {<<f, p>>}
  <2>1. CASE val = Pfence
    BY <1>3, <2>1 DEF Accused
  <2>2. CASE val # Pfence
    <3>1. \A g \in Field, q \in Pointer : StoreStmt(g, q) = s <=> g = f /\ q = p
      BY DEF StoreStmt
    <3>2. new.fieldStmt = s
      OBVIOUS
    <3> HIDE DEF new, s
    <3>3. \A g \in Field, q \in Pointer :
            <<g, q>> \in Accused' <=> <<g, q>> \in Accused \/ (g = f /\ q = p)
      BY <1>3, <2>2, <3>1, <3>2 DEF Accused
    <3>4. Accused \subseteq Field \X Pointer /\ Accused' \subseteq Field \X Pointer
      BY DEF Accused
    <3>5. QED
      BY <2>2, <3>3, <3>4
  <2>3. QED
    BY <2>1, <2>2
<1>14. /\ early' = IF p \in durable THEN early ELSE early \cup {<<f, p>>}
       /\ reflushed' = IF p \in durable \cap pending
                       THEN reflushed \cup {<<f, p>>} ELSE reflushed
  BY DEF Store
<1>15. NoMissedStore' /\ FalseOnlyWhenReflushed'
  BY <1>5, <1>13, <1>14 DEF IInv, NoMissedStore, FalseOnlyWhenReflushed
<1>16. QED
  BY <1>3, <1>9, <1>10, <1>11, <1>12, <1>15 DEF IInv

\* A step that changes nothing keeps the invariant.
LEMMA StutterStep ==
  ASSUME IInv, UNCHANGED vars
  PROVE  IInv'
BY DEF vars, IInv, TypeOK, ManagerShape, LocationsExact, CommitExact,
   NoMissedStore, FalseOnlyWhenReflushed, Accused, NoteLeadsToPointer

LEMMA StepKeepsIInv ==
  IInv /\ [Next]_vars => IInv'
<1> SUFFICES ASSUME IInv, [Next]_vars PROVE IInv'
  OBVIOUS
<1>1. ASSUME NEW p \in Pointer, NEW f \in Field, Store(f, p) PROVE IInv'
  BY <1>1, StoreStep
<1>2. ASSUME NEW p \in Pointer, Assign(p) PROVE IInv'
  BY <1>2, AssignStep
<1>3. ASSUME NEW p \in Pointer, ClFlushOpt(p) PROVE IInv'
  BY <1>3, ClFlushOptStep
<1>4. ASSUME NEW p \in Pointer, ClFlush(p) PROVE IInv'
  BY <1>4, ClFlushStep
<1>5. CASE PFence
  BY <1>5, PFenceStep
<1>6. CASE UNCHANGED vars
  BY <1>6, StutterStep
<1>7. QED
  BY <1>1, <1>2, <1>3, <1>4, <1>5, <1>6 DEF Next

-----------------------------------------------------------------------------
(* The theorems *)

\* The invariant of the checker beside its memory holds in every state.
THEOREM FlushedInvariance == Spec => []IInv
<1>1. Init => IInv
  BY InitEstablishesIInv
<1>2. IInv /\ [Next]_vars => IInv'
  BY StepKeepsIInv
<1>3. QED
  BY <1>1, <1>2, PTL DEF Spec

\* The tables of the transfer functions and of the bug reporter keep their
\* types.
THEOREM TypeCorrect == Spec => []TypeOK
<1>1. IInv => TypeOK
  BY DEF IInv
<1>2. QED
  BY <1>1, FlushedInvariance, PTL

\* handleWrite, handleFlush and handleFence leave a value that says exactly
\* how far the pointer's target has come.
THEOREM CommitCorrect == Spec => []CommitExact
<1>1. IInv => CommitExact
  BY DEF IInv
<1>2. QED
  BY <1>1, FlushedInvariance, PTL

\* checkBug reports every store of a pointer whose target is not durable.
THEOREM NothingMissed == Spec => []NoMissedStore
<1>1. IInv => NoMissedStore
  BY DEF IInv
<1>2. QED
  BY <1>1, FlushedInvariance, PTL

\* checkBug reports nothing else, but for durable pointers flushed again.
THEOREM ReportsTrue == Spec => []FalseOnlyWhenReflushed
<1>1. IInv => FalseOnlyWhenReflushed
  BY DEF IInv
<1>2. QED
  BY <1>1, FlushedInvariance, PTL

\* getLastLocation names what left the reported pointer uncommitted.
THEOREM NotesTrue == Spec => []NoteLeadsToPointer
<1>1. IInv => NoteLeadsToPointer
  BY DEF IInv
<1>2. QED
  BY <1>1, FlushedInvariance, PTL

-----------------------------------------------------------------------------
(***************************************************************************)
(* Both checkers on a path                                                 *)
(***************************************************************************)

(* The callbacks *)

\* A node goes on as what a transition made of it, or not at all.
LEMMA SuccessorIsNew ==
  ASSUME NEW node, NEW isError, NEW new
  PROVE  Ptrx!Successors(node, isError, new) \subseteq {new}
BY Zenon DEF Ptrx!Successors

\* A bind by a statement that does not allocate
LEMMA WriteResult ==
  ASSUME NEW isUsedVar, NEW loc, NEW val, NEW node
  PROVE  Ptrx!CheckBind(isUsedVar, loc, val, FALSE, origin, node).nodes
           \subseteq {node \cup ({loc} \ {NoSymbol})}
BY SuccessorIsNew DEF Ptrx!CheckBind, Ptrx!Step, Ptrx!WritePtr

\* A bind by one that does
LEMMA AllocResult ==
  ASSUME NEW isUsedVar, NEW loc, NEW val, NEW node
  PROVE  Ptrx!CheckBind(isUsedVar, loc, val, TRUE, origin, node).nodes
           \subseteq {node \cup ({val} \ {NoSymbol})}
BY SuccessorIsNew DEF Ptrx!CheckBind, Ptrx!Step, Ptrx!WritePtr

\* A flush
LEMMA FlushResult ==
  ASSUME NEW loc, NEW numArgs, NEW node
  PROVE  Ptrx!HandleFlushFenceFnc(loc, numArgs, node).nodes \subseteq {node \ {loc}}
<1>1. Ptrx!HandleFlushFenceFnc(loc, numArgs, node).nodes
        \in {{}, Ptrx!Successors(node, FALSE, node \ {loc})}
  BY DEF Ptrx!HandleFlushFenceFnc, Ptrx!Step, Ptrx!FlushPtr
<1>2. Ptrx!Successors(node, FALSE, node \ {loc}) \subseteq {node \ {loc}}
  BY Zenon DEF Ptrx!Successors
<1>3. QED
  BY <1>1, <1>2

-----------------------------------------------------------------------------
(* The invariant: a node knows of nothing that is not dirty. *)

NodesDirty == \A n \in nodes : n \subseteq dirty

LEMMA InitEstablishesNodesDirty ==
  PtrxInit => NodesDirty
<1> SUFFICES ASSUME PtrxInit PROVE NodesDirty
  OBVIOUS
<1>1. PICK params \in SUBSET Range(at) :
        /\ nodes = Ptrx!CheckBeginFunction(FALSE, TRUE, params, Ptrx!StartNode)
        /\ dirty = params
  BY DEF PtrxInit
<1>2. \A n \in nodes : n \subseteq params
  BY <1>1, Zenon DEF Ptrx!CheckBeginFunction, Ptrx!StartNode, Ptrx!WritePtr
<1>3. QED
  BY <1>1, <1>2 DEF NodesDirty

-----------------------------------------------------------------------------
(* The steps *)

\* A callback adds to a node only what becomes dirty, or what is not in use.
LEMMA VisitStep ==
  ASSUME NodesDirty, NEW steps, NEW live, NEW target,
         nodes' = {n \cap live : n \in UNION {t.nodes : t \in steps}},
         \A t \in steps : \E m \in nodes :
           t.nodes \subseteq {m \cup ({target} \ {NoSymbol})},
         dirty \cap live \subseteq dirty',
         target \in live \ {NoSymbol} => target \in dirty'
  PROVE  NodesDirty'
<1> SUFFICES ASSUME NEW k \in nodes' PROVE k \subseteq dirty'
  BY DEF NodesDirty
<1>1. PICK t \in steps : \E n \in t.nodes : k = n \cap live
  OBVIOUS
<1>2. PICK m \in nodes : t.nodes \subseteq {m \cup ({target} \ {NoSymbol})}
  OBVIOUS
<1>3. k = (m \cup ({target} \ {NoSymbol})) \cap live
  BY <1>1, <1>2
<1>4. m \subseteq dirty
  BY DEF NodesDirty
<1>5. QED
  BY <1>3, <1>4

\* q->data = ...
LEMMA WriteThroughStep ==
  ASSUME NodesDirty, NEW q \in Variable, WriteThrough(q)
  PROVE  NodesDirty'
<1> DEFINE live == InUse(at', origin')
           steps == {Ptrx!CheckBind(FALSE, at[q], NoSymbol, FALSE, origin, m) :
                       m \in nodes}
           target == at[q]
<1>1. nodes' = {n \cap live : n \in UNION {t.nodes : t \in steps}}
  BY DEF WriteThrough, Written, Visit
<1>2. \A t \in steps : \E m \in nodes :
        t.nodes \subseteq {m \cup ({target} \ {NoSymbol})}
  BY WriteResult
<1> HIDE DEF live, steps, target
<1>3. /\ dirty \cap live \subseteq dirty'
      /\ target \in live \ {NoSymbol} => target \in dirty'
  BY DEF WriteThrough, Written, target
<1>4. QED
  BY <1>1, <1>2, <1>3, VisitStep

\* q->f = p
LEMMA PtrxStoreStep ==
  ASSUME NodesDirty, NEW f, NEW p \in Pointer, NEW q \in Variable,
         PtrxStore(f, p, q)
  PROVE  NodesDirty'
<1> DEFINE live == InUse(at', origin')
           steps == {Ptrx!CheckBind(TRUE, at[q], at[p], FALSE, origin, m) :
                       m \in nodes}
           target == at[q]
<1>1. nodes' = {n \cap live : n \in UNION {t.nodes : t \in steps}}
  BY DEF PtrxStore, Written, Visit
<1>2. \A t \in steps : \E m \in nodes :
        t.nodes \subseteq {m \cup ({target} \ {NoSymbol})}
  BY WriteResult
<1> HIDE DEF live, steps, target
<1>3. /\ dirty \cap live \subseteq dirty'
      /\ target \in live \ {NoSymbol} => target \in dirty'
  BY DEF PtrxStore, Written, target
<1>4. QED
  BY <1>1, <1>2, <1>3, VisitStep

\* q->f = malloc()
LEMMA StoreNewStep ==
  ASSUME NodesDirty, NEW q \in Variable, StoreNew(q)
  PROVE  NodesDirty'
<1>1. PICK new \in Unused :
        /\ Written(q, FALSE)
        /\ LET Callback(n) == Ptrx!CheckBind(TRUE, at[q], new, TRUE, origin, n)
           IN  Visit(Callback)
  BY DEF StoreNew
<1> DEFINE live == InUse(at', origin')
           steps == {Ptrx!CheckBind(TRUE, at[q], new, TRUE, origin, m) :
                       m \in nodes}
<1>2. nodes' = {n \cap live : n \in UNION {t.nodes : t \in steps}}
  BY <1>1 DEF Visit
<1>3. \A t \in steps : \E m \in nodes :
        t.nodes \subseteq {m \cup ({new} \ {NoSymbol})}
  BY AllocResult
<1> HIDE DEF steps
<1>4. new \in live \ {NoSymbol} => new \in dirty'
  BY <1>1 DEF Written, heapVars, Unused
<1> HIDE DEF live
<1>5. dirty \cap live \subseteq dirty'
  BY <1>1 DEF Written
<1>6. QED
  BY <1>2, <1>3, <1>4, <1>5, VisitStep

\* p = value
LEMMA PtrxAssignStep ==
  ASSUME NodesDirty, NEW p, NEW value, NEW from, NEW isAlloc \in BOOLEAN,
         PtrxAssign(p, value, from, isAlloc)
  PROVE  NodesDirty'
<1> DEFINE live == InUse(at', origin')
           steps == {Ptrx!CheckBind(FALSE, NoSymbol, value, isAlloc, origin, m) :
                       m \in nodes}
           target == IF isAlloc THEN value ELSE NoSymbol
<1>1. /\ nodes' = {n \cap live : n \in UNION {t.nodes : t \in steps}}
      /\ dirty' = (dirty \cup (IF isAlloc THEN {value} ELSE {})) \cap live
  BY DEF PtrxAssign, Visit
<1>2. \A t \in steps : \E m \in nodes :
        t.nodes \subseteq {m \cup ({target} \ {NoSymbol})}
  <2>1. CASE isAlloc = TRUE
    BY <2>1, AllocResult
  <2>2. CASE isAlloc = FALSE
    BY <2>2, WriteResult
  <2>3. QED
    BY <2>1, <2>2
<1> HIDE DEF live, steps
<1>3. /\ dirty \cap live \subseteq dirty'
      /\ target \in live \ {NoSymbol} => target \in dirty'
  BY <1>1
<1> HIDE DEF target
<1>4. QED
  BY <1>1, <1>2, <1>3, VisitStep

\* A flush with a fence
LEMMA PtrxFlushFenceStep ==
  ASSUME NodesDirty, NEW p \in Variable, NEW numArgs, PtrxFlushFence(p, numArgs)
  PROVE  NodesDirty'
<1> DEFINE live == InUse(at', origin')
<1>1. /\ nodes' = {n \cap live : n \in UNION {t.nodes :
                     t \in {Ptrx!HandleFlushFenceFnc(at[p], numArgs, m) : m \in nodes}}}
      /\ dirty' = dirty \ {at[p]}
  BY DEF PtrxFlushFence, Visit
<1>2. \A m : Ptrx!HandleFlushFenceFnc(at[p], numArgs, m).nodes \subseteq {m \ {at[p]}}
  BY FlushResult
<1> HIDE DEF live
<1>3. QED
  BY <1>1, <1>2 DEF NodesDirty

\* A condition, or the body of a called function, adds nothing to a node.
LEMMA KeptStep ==
  ASSUME NodesDirty, NEW live, NEW steps,
         nodes' = {n \cap live : n \in UNION {t.nodes : t \in steps}},
         \A t \in steps : t.nodes \subseteq nodes,
         dirty' = dirty
  PROVE  NodesDirty'
<1> SUFFICES ASSUME NEW k \in nodes' PROVE k \subseteq dirty'
  BY DEF NodesDirty
<1>1. PICK t \in steps : \E n \in t.nodes : k = n \cap live
  OBVIOUS
<1>2. QED
  BY <1>1 DEF NodesDirty

LEMMA BranchStep ==
  ASSUME NodesDirty, NEW holds, Branch(holds)
  PROVE  NodesDirty'
<1> DEFINE live == InUse(at', origin')
           steps == {Ptrx!CheckBranchCondition(TRUE, holds, n) : n \in nodes}
<1>1. nodes' = {n \cap live : n \in UNION {t.nodes : t \in steps}}
  BY DEF Branch, Visit
<1>2. \A t \in steps : t.nodes \subseteq nodes
  BY DEF Ptrx!CheckBranchCondition, Ptrx!Step
<1>3. dirty' = dirty
  BY DEF Branch, writeVars
<1> HIDE DEF live, steps
<1>4. QED
  BY <1>1, <1>2, <1>3, KeptStep

LEMMA CallStep ==
  ASSUME NodesDirty, Call
  PROVE  NodesDirty'
<1> DEFINE live == InUse(at', origin')
           Begun(n) == Ptrx!CheckBeginFunction(FALSE, FALSE, Range(at), n)
           steps == {Ptrx!Step({}, Begun(n)) : n \in nodes}
<1>1. nodes' = {n \cap live : n \in UNION {t.nodes : t \in steps}}
  BY DEF Call, Visit
<1>2. \A t \in steps : t.nodes \subseteq nodes
  <2>1. \A n : Begun(n) = {n}
    BY Zenon DEF Ptrx!CheckBeginFunction
  <2> HIDE DEF Begun
  <2>2. QED
    BY <2>1 DEF Ptrx!Step
<1>3. dirty' = dirty
  BY DEF Call, writeVars
<1> HIDE DEF live, steps
<1>4. QED
  BY <1>1, <1>2, <1>3, KeptStep

LEMMA StepKeepsNodesDirty ==
  NodesDirty /\ [PtrxNext]_allVars => NodesDirty'
<1> SUFFICES ASSUME NodesDirty, [PtrxNext]_allVars PROVE NodesDirty'
  OBVIOUS
<1>1. ASSUME NEW f \in Field, NEW p \in Pointer, NEW q \in Variable, PtrxStore(f, p, q)
      PROVE  NodesDirty'
  BY <1>1, PtrxStoreStep
<1>2. ASSUME NEW p \in Variable, NEW q \in Variable,
             AssignAlias(p, q) \/ AssignLoad(p, q) \/ AssignStored(p)
      PROVE  NodesDirty'
  BY <1>2, PtrxAssignStep DEF AssignAlias, AssignLoad, AssignStored
<1>3. ASSUME NEW p \in Variable, WriteThrough(p) \/ StoreNew(p)
      PROVE  NodesDirty'
  BY <1>3, WriteThroughStep, StoreNewStep
<1>4. ASSUME NEW p \in Variable, NEW isAlloc \in BOOLEAN, AssignNew(p, isAlloc)
      PROVE  NodesDirty'
  BY <1>4, PtrxAssignStep DEF AssignNew
<1>5. ASSUME NEW p \in Variable, NEW numArgs, PtrxFlushFence(p, numArgs)
      PROVE  NodesDirty'
  BY <1>5, PtrxFlushFenceStep
<1>6. CASE UNCHANGED ptrxVars
  BY <1>6 DEF ptrxVars, writeVars, NodesDirty
<1>7. ASSUME NEW holds \in BOOLEAN, Branch(holds)
      PROVE  NodesDirty'
  BY <1>7, BranchStep
<1>8. CASE Call
  BY <1>8, CallStep
<1>9. QED
  BY <1>1, <1>2, <1>3, <1>4, <1>5, <1>6, <1>7, <1>8
     DEF PtrxNext, FlushOrFence, allVars

-----------------------------------------------------------------------------
(* What is accused *)

LEMMA ReportsOfStore ==
  ASSUME NEW loc, NEW val, NEW m
  PROVE  \A s \in Ptrx!CheckBind(TRUE, loc, val, FALSE, origin, m).reports :
           s = val /\ Ptrx!Roots(origin, val) \cap m # {}
BY DEF Ptrx!CheckBind, Ptrx!Step, Ptrx!IsPtrWritten

LEMMA AccusedIsDirty ==
  ASSUME NodesDirty, NEW f \in Field, NEW p \in Pointer, NEW q \in Variable,
         PtrxStore(f, p, q), at[p] \in blamed' \ blamed
  PROVE  Ptrx!Roots(origin, at[p]) \cap dirty # {}
<1> DEFINE steps == {Ptrx!CheckBind(TRUE, at[q], at[p], FALSE, origin, m) :
                       m \in nodes}
           reports == UNION {t.reports : t \in steps}
<1>1. blamed' = InUse(at', origin') \cap
                  (blamed \cup UNION {Ptrx!Roots(origin, s) : s \in reports})
  BY DEF PtrxStore, Visit
<1> HIDE DEF steps, reports
<1>2. PICK s \in reports : at[p] \in Ptrx!Roots(origin, s)
  BY <1>1
<1>3. PICK m \in nodes :
        s \in Ptrx!CheckBind(TRUE, at[q], at[p], FALSE, origin, m).reports
  BY DEF reports, steps
<1>4. Ptrx!Roots(origin, at[p]) \cap m # {}
  BY <1>3, ReportsOfStore
<1>5. m \subseteq dirty
  BY DEF NodesDirty
<1>6. QED
  BY <1>4, <1>5

-----------------------------------------------------------------------------
(* The symbols one leads to *)

\* What the closed sets with s in them have in common: a solution of the
\* equation Roots is defined by.
Closed(from, U) == \A x \in U : from[x] # NoSymbol => from[x] \in U
LeadsTo(from, s) ==
  {t \in Symbol : \A U \in SUBSET Symbol : s \in U /\ Closed(from, U) => t \in U}

LEMMA RootsUnfold ==
  ASSUME NEW from \in [Symbol -> Symbol \cup {NoSymbol}], NEW s \in Symbol
  PROVE  Ptrx!Roots(from, s) =
           {s} \cup (IF from[s] = NoSymbol THEN {} ELSE Ptrx!Roots(from, from[s]))
<1> DEFINE Eq(f) == f = [x \in Symbol |->
                           {x} \cup (IF from[x] = NoSymbol THEN {} ELSE f[from[x]])]
           roots == CHOOSE f : Eq(f)
           leads == [x \in Symbol |-> LeadsTo(from, x)]
<1>1. Eq(leads)
  <2>1. ASSUME NEW x \in Symbol, from[x] = NoSymbol
        PROVE  LeadsTo(from, x) = {x}
    <3>1. Closed(from, {x}) /\ {x} \in SUBSET Symbol
      BY <2>1 DEF Closed
    <3>2. QED
      BY <3>1 DEF LeadsTo
  <2>2. ASSUME NEW x \in Symbol, from[x] # NoSymbol
        PROVE  LeadsTo(from, x) = {x} \cup LeadsTo(from, from[x])
    <3>1. from[x] \in Symbol
      BY <2>2
    <3>2. \A U \in SUBSET Symbol :
            x \in U /\ Closed(from, U) => from[x] \in U /\ Closed(from, U)
      BY <2>2 DEF Closed
    <3>3. {x} \cup LeadsTo(from, from[x]) \subseteq LeadsTo(from, x)
      BY <3>2 DEF LeadsTo
    <3>4. ASSUME NEW t \in LeadsTo(from, x), t # x,
                 NEW U \in SUBSET Symbol, from[x] \in U, Closed(from, U)
          PROVE  t \in U
      <4>1. Closed(from, U \cup {x}) /\ U \cup {x} \in SUBSET Symbol
        BY <3>4 DEF Closed
      <4>2. t \in U \cup {x}
        BY <4>1 DEF LeadsTo
      <4>3. QED
        BY <3>4, <4>2
    <3>5. LeadsTo(from, x) \subseteq {x} \cup LeadsTo(from, from[x])
      BY <3>4 DEF LeadsTo
    <3>6. QED
      BY <3>3, <3>5
  <2>3. \A x \in Symbol : from[x] # NoSymbol => from[x] \in Symbol
    OBVIOUS
  <2>4. QED
    BY <2>1, <2>2, <2>3
<1>2. Eq(roots)
  BY <1>1
<1>3. \A x : Ptrx!Roots(from, x) = roots[x]
  BY DEF Ptrx!Roots
<1> HIDE DEF roots
<1>4. roots[s] = {s} \cup (IF from[s] = NoSymbol THEN {} ELSE roots[from[s]])
  BY <1>2
<1>5. QED
  BY <1>3, <1>4

-----------------------------------------------------------------------------
(* The invariant: the nodes know the same, but for a parameter each. *)

HeapOK == /\ at \in [Variable -> Symbol]
          /\ origin \in [Symbol -> Symbol \cup {NoSymbol}]

DirtyInUse == dirty \subseteq InUse(at, origin)

\* Apart from the parameter each began with the nodes know the same.
DifferInOne ==
  \E common \in SUBSET UNION nodes : \A n \in nodes :
    common \subseteq n /\ \A x, y \in n \ common : x = y

KnownInv == HeapOK /\ DirtyInUse /\ DifferInOne /\ DirtyKnown

\* A pointer keeps its object in use.
LEMMA PointedInUse ==
  ASSUME HeapOK, NEW p \in Variable
  PROVE  at[p] \in Symbol /\ at[p] \in InUse(at, origin)
<1>1. at[p] \in Symbol /\ at[p] \in Range(at)
  BY DEF HeapOK, Range
<1>2. at[p] \in Ptrx!Roots(origin, at[p])
  BY <1>1, RootsUnfold DEF HeapOK
<1>3. QED
  BY <1>1, <1>2 DEF InUse

(***************************************************************************)
(* A callback on every node adds what is in new to it, takes what is in    *)
(* gone from it, and ends those nodes in error that it does not change.    *)
(***************************************************************************)
Kept(new, error) == {m \in nodes : ~(m \in error /\ new \subseteq m)}
After(m, live, new, gone) == ((m \cup new) \ gone) \cap live

Transition(live, new, gone, error, accused) ==
  /\ \A x, y \in new : x = y
  /\ error # {} => /\ error = {n \in nodes : accused \cap n # {}}
                   /\ accused \cap live \subseteq blamed'
  /\ nodes' = {After(m, live, new, gone) : m \in Kept(new, error)}
  /\ blamed \cap live \subseteq blamed'
  /\ (hidden \cap live) \ (new \cup gone) \subseteq hidden'
  /\ dirty' \subseteq ((dirty \cup new \cup hidden') \ gone) \cap live

\* If the nodes that go on are none in error, then what they have in common is
\* not accused, and all that is lost with the others is.
LEMMA KnownStep ==
  ASSUME DifferInOne, DirtyKnown,
         NEW live, NEW new, NEW gone, NEW error, NEW accused,
         Transition(live, new, gone, error, accused)
  PROVE  DifferInOne' /\ DirtyKnown'
<1> USE DEF Transition
<1>1. PICK common \in SUBSET UNION nodes :
        \A n \in nodes : common \subseteq n /\ \A x, y \in n \ common : x = y
  BY DEF DifferInOne
<1> DEFINE kept == Kept(new, error)
           Goes(n) == After(n, live, new, gone)
<1> USE DEF Kept, After
<1>2. DifferInOne'
  <2>2. \A n \in kept : Goes(common) \subseteq Goes(n)
                        /\ \A x, y \in Goes(n) \ Goes(common) : x = y
    BY <1>1
  <2>3. nodes' = {Goes(n) : n \in kept}
    OBVIOUS
  <2> HIDE DEF Goes, kept, Transition
  <2>4. \A k \in nodes' : Goes(common) \subseteq k
                          /\ \A x, y \in k \ Goes(common) : x = y
    BY <2>2, <2>3
  <2>5. CASE nodes' # {}
    <3>1. Goes(common) \in SUBSET UNION nodes'
      BY <2>4, <2>5
    <3>2. QED
      BY <2>4, <3>1 DEF DifferInOne
  <2>6. CASE nodes' = {}
    BY <2>6 DEF DifferInOne
  <2>7. QED
    BY <2>5, <2>6
<1>3. DirtyKnown'
  <2> SUFFICES ASSUME NEW m2 \in kept, NEW x \in dirty', x \notin hidden'
               PROVE  x \in (UNION nodes') \cup blamed'
    BY DEF DirtyKnown
  <2>1. \A n \in kept : Goes(n) \in nodes'
    OBVIOUS
  <2>2. x \in live /\ x \notin gone
    OBVIOUS
  <2>3. CASE x \in new
    BY <2>1, <2>2, <2>3
  <2>4. CASE x \in common
    BY <1>1, <2>1, <2>2, <2>4
  <2>5. CASE x \in blamed
    BY <2>2, <2>5
  <2>6. CASE x \notin new \cup common \cup blamed
    <3>1. PICK m \in nodes : x \in m
      BY <2>2, <2>6 DEF DirtyKnown
    <3>2. CASE m \in kept
      BY <2>1, <2>2, <3>1, <3>2
    <3>3. CASE m \notin kept
      <4>1. m \in error /\ new \subseteq m
        BY <3>3
      <4>2. new \subseteq common
        BY <1>1, <2>6, <3>1, <4>1
      <4>3. m2 \notin error
        BY <1>1, <4>2
      <4>4. accused \cap common = {}
        BY <1>1, <4>1, <4>3
      <4>5. PICK y \in accused \cap m : TRUE
        BY <4>1
      <4>6. y = x
        BY <1>1, <2>6, <3>1, <4>4, <4>5
      <4>7. QED
        BY <2>2, <4>1, <4>5, <4>6
    <3>4. QED
      BY <3>2, <3>3
  <2>7. QED
    BY <2>3, <2>4, <2>5, <2>6
<1>4. QED
  BY <1>2, <1>3

\* The callback ends a node m in error that it does not change, or makes it
\* After(m).
EndsOrChanges(result, new, gone, error) ==
  \A m \in nodes : result[m].nodes =
    IF m \in error /\ new \subseteq m THEN {} ELSE {(m \cup new) \ gone}

NodesOf(steps) == UNION {t.nodes : t \in steps}
ReportsOf(steps) == UNION {t.reports : t \in steps}
GoesOn(steps, live) == nodes' = {n \cap live : n \in NodesOf(steps)}

\* The nodes after a callback whose result for node m is result[m]
LEMMA NodesAfter ==
  ASSUME NEW result, NEW live, NEW new, NEW gone, NEW error,
         EndsOrChanges(result, new, gone, error),
         GoesOn({result[m] : m \in nodes}, live)
  PROVE  nodes' = {After(m, live, new, gone) : m \in Kept(new, error)}
<1> USE DEF EndsOrChanges
<1> USE DEF Kept, After
<1> DEFINE kept == Kept(new, error)
           all  == NodesOf({result[m] : m \in nodes})
<1>1. \A m \in kept : m \in nodes /\ result[m].nodes = {(m \cup new) \ gone}
  OBVIOUS
<1>2. \A m \in nodes : m \in kept \/ result[m].nodes = {}
  OBVIOUS
<1>3. nodes' = {n \cap live : n \in all}
  BY DEF GoesOn
<1> HIDE DEF kept
<1> USE DEF NodesOf
<1>4. ASSUME NEW n \in all PROVE \E m \in kept : n = (m \cup new) \ gone
  BY <1>1, <1>2
<1>5. ASSUME NEW m \in kept PROVE (m \cup new) \ gone \in all
  BY <1>1
<1> HIDE DEF all
<1>6. nodes' = {((n \cup new) \ gone) \cap live : n \in kept}
  <2>1. ASSUME NEW k \in nodes'
        PROVE  \E m \in kept : k = ((m \cup new) \ gone) \cap live
    <3>1. PICK n \in all : k = n \cap live
      BY <1>3
    <3>2. QED
      BY <1>4, <3>1
  <2>2. ASSUME NEW m \in kept
        PROVE  ((m \cup new) \ gone) \cap live \in nodes'
    BY <1>3, <1>5
  <2>3. QED
    BY <1>3, <2>1, <2>2
<1>7. QED
  BY <1>6 DEF kept

-----------------------------------------------------------------------------
(* The steps again, exactly *)

\* addNewState: an error ends the nodes that do not change.
LEMMA SuccessorsAre ==
  ASSUME NEW node, NEW isError, NEW new
  PROVE  Ptrx!Successors(node, isError, new) =
           IF isError /\ new = node THEN {} ELSE {new}
BY Zenon DEF Ptrx!Successors

\* isPtrWritten ends a node only for a store of a known symbol.
IsError(isUsedVar, val, m) ==
  isUsedVar /\ val # NoSymbol /\ Ptrx!Roots(origin, val) \cap m # {}
InError(isUsedVar, val) == {m \in nodes : IsError(isUsedVar, val, m)}

\* writePtr makes no region dirty that is not symbolic.
Added(isAlloc, loc, val) == {IF isAlloc THEN val ELSE loc} \ {NoSymbol}

BindAfter(isUsedVar, loc, val, isAlloc, m) ==
  IF IsError(isUsedVar, val, m) /\ Added(isAlloc, loc, val) \subseteq m
  THEN {} ELSE {m \cup Added(isAlloc, loc, val)}

\* A bind, as the symbol it makes dirty and the nodes it ends
LEMMA BindResult ==
  ASSUME NEW isUsedVar, NEW loc, NEW val, NEW isAlloc, NEW m
  PROVE  /\ Ptrx!CheckBind(isUsedVar, loc, val, isAlloc, origin, m).nodes =
              BindAfter(isUsedVar, loc, val, isAlloc, m)
         /\ Ptrx!CheckBind(isUsedVar, loc, val, isAlloc, origin, m).reports =
              IF IsError(isUsedVar, val, m) THEN {val} ELSE {}
<1> DEFINE new == Added(isAlloc, loc, val)
           isError == isUsedVar /\ Ptrx!IsPtrWritten(val, origin, m)
           after == Ptrx!WritePtr(IF isAlloc THEN val ELSE loc, m)
           r == Ptrx!CheckBind(isUsedVar, loc, val, isAlloc, origin, m)
<1>1. isError <=> IsError(isUsedVar, val, m)
  BY DEF Ptrx!IsPtrWritten, IsError
<1>2. after = m \cup new
  BY DEF Ptrx!WritePtr, Added
<1>3. /\ r.nodes = Ptrx!Successors(m, isError, after)
      /\ r.reports = IF isError THEN {val} ELSE {}
  BY DEF Ptrx!CheckBind, Ptrx!Step
<1> HIDE DEF r, isError, after
<1>4. Ptrx!Successors(m, isError, after) =
        IF isError /\ new \subseteq m THEN {} ELSE {m \cup new}
  BY <1>2, SuccessorsAre
<1>5. QED
  BY <1>1, <1>3, <1>4 DEF r, BindAfter

BindSteps(isUsedVar, loc, val, isAlloc) ==
  {Ptrx!CheckBind(isUsedVar, loc, val, isAlloc, origin, m) : m \in nodes}

\* The nodes after a bind
LEMMA BindNodes ==
  ASSUME NEW live, NEW isUsedVar, NEW isAlloc, NEW loc, NEW val,
         GoesOn(BindSteps(isUsedVar, loc, val, isAlloc), live)
  PROVE  nodes' = {After(m, live, Added(isAlloc, loc, val), {}) :
                     m \in Kept(Added(isAlloc, loc, val), InError(isUsedVar, val))}
<1> DEFINE result == [m \in nodes |->
                        Ptrx!CheckBind(isUsedVar, loc, val, isAlloc, origin, m)]
           error == InError(isUsedVar, val)
           new == Added(isAlloc, loc, val)
<1>1. EndsOrChanges(result, new, {}, error)
  <2>1. ASSUME NEW m \in nodes
        PROVE  result[m].nodes = BindAfter(isUsedVar, loc, val, isAlloc, m)
    BY BindResult
  <2> HIDE DEF result
  <2>2. QED
    BY <2>1 DEF InError, EndsOrChanges, BindAfter
<1>2. BindSteps(isUsedVar, loc, val, isAlloc) = {result[m] : m \in nodes}
  BY DEF BindSteps
<1> HIDE DEF result, error, new
<1>3. nodes' = {After(m, live, new, {}) : m \in Kept(new, error)}
  BY <1>1, <1>2, NodesAfter
<1>4. QED
  BY <1>3 DEF error, new

\* A node in error is reported.
LEMMA BindReports ==
  ASSUME NEW isUsedVar, NEW isAlloc, NEW loc, NEW val, NEW m \in InError(isUsedVar, val)
  PROVE  val \in ReportsOf(BindSteps(isUsedVar, loc, val, isAlloc))
<1> DEFINE r == Ptrx!CheckBind(isUsedVar, loc, val, isAlloc, origin, m)
<1>1. r.reports = {val}
  BY BindResult DEF InError
<1>2. r \in BindSteps(isUsedVar, loc, val, isAlloc)
  BY DEF BindSteps, InError
<1> HIDE DEF r
<1>3. QED
  BY <1>1, <1>2 DEF ReportsOf

\* A bind is a transition.
LEMMA BindStep ==
  ASSUME NEW live, NEW isUsedVar, NEW isAlloc, NEW loc, NEW val,
         GoesOn(BindSteps(isUsedVar, loc, val, isAlloc), live),
         NEW new, new = Added(isAlloc, loc, val),
         blamed' = live \cap
           (blamed \cup UNION {Ptrx!Roots(origin, s) : s \in
             ReportsOf(BindSteps(isUsedVar, loc, val, isAlloc))}),
         (hidden \cap live) \ new \subseteq hidden',
         dirty' \subseteq (dirty \cup new \cup hidden') \cap live
  PROVE  Transition(live, new, {}, InError(isUsedVar, val), Ptrx!Roots(origin, val))
<1> DEFINE accused == Ptrx!Roots(origin, val)
           error == InError(isUsedVar, val)
           reports == ReportsOf(BindSteps(isUsedVar, loc, val, isAlloc))
<1>1. ASSUME error # {}
      PROVE  error = {n \in nodes : accused \cap n # {}} /\ val \in reports
  BY <1>1, BindReports DEF InError, IsError
<1>2. blamed' = live \cap (blamed \cup UNION {Ptrx!Roots(origin, s) : s \in reports})
  OBVIOUS
<1>3. nodes' = {After(m, live, new, {}) : m \in Kept(new, error)}
  BY BindNodes
<1> HIDE DEF error, reports
<1>4. error # {} => accused \cap live \subseteq blamed'
  BY <1>1, <1>2
<1>5. blamed \cap live \subseteq blamed'
  BY <1>2
<1>6. \A x, y \in new : x = y
  BY DEF Added
<1> HIDE DEF accused
<1>7. Transition(live, new, {}, error, accused)
  BY <1>1, <1>3, <1>4, <1>5, <1>6 DEF Transition
<1>8. QED
  BY <1>7 DEF error, accused

\* q->data = ...
LEMMA WriteThroughKnown ==
  ASSUME KnownInv, NEW q \in Variable, WriteThrough(q)
  PROVE  KnownInv'
<1> DEFINE live == InUse(at', origin')
           new == Added(FALSE, at[q], NoSymbol)
<1>1. /\ GoesOn(BindSteps(FALSE, at[q], NoSymbol, FALSE), live)
      /\ blamed' = live \cap
           (blamed \cup UNION {Ptrx!Roots(origin, s) : s \in
             ReportsOf(BindSteps(FALSE, at[q], NoSymbol, FALSE))})
  BY DEF WriteThrough, Visit, GoesOn, NodesOf, ReportsOf, BindSteps
<1>2. Written(q, TRUE) /\ UNCHANGED heapVars
  BY DEF WriteThrough, Written
<1>3. /\ HeapOK' /\ live = InUse(at, origin)
      /\ at[q] \in live /\ at[q] \in Symbol /\ dirty \subseteq live
      /\ new = {at[q]}
  BY <1>2, PointedInUse, SymbolAssumption
     DEF KnownInv, HeapOK, heapVars, DirtyInUse, Added
<1> HIDE DEF new, live
<1>4. DirtyInUse'
  BY <1>2, <1>3 DEF DirtyInUse, Written, live
<1>5. /\ (hidden \cap live) \ new \subseteq hidden'
      /\ dirty' \subseteq (dirty \cup new \cup hidden') \cap live
  BY <1>2, <1>3 DEF Written
<1>6. Transition(live, new, {}, InError(FALSE, NoSymbol), Ptrx!Roots(origin, NoSymbol))
  BY <1>1, <1>5, BindStep DEF new
<1>7. DifferInOne' /\ DirtyKnown'
  BY <1>6, KnownStep DEF KnownInv
<1>8. QED
  BY <1>3, <1>4, <1>7 DEF KnownInv

\* q->f = p
LEMMA PtrxStoreKnown ==
  ASSUME KnownInv, NEW f, NEW p \in Pointer, NEW q \in Variable,
         PtrxStore(f, p, q)
  PROVE  KnownInv'
<1> DEFINE live == InUse(at', origin')
           new == Added(FALSE, at[q], at[p])
<1>1. /\ GoesOn(BindSteps(TRUE, at[q], at[p], FALSE), live)
      /\ blamed' = live \cap
           (blamed \cup UNION {Ptrx!Roots(origin, s) : s \in
             ReportsOf(BindSteps(TRUE, at[q], at[p], FALSE))})
  BY DEF PtrxStore, Visit, GoesOn, NodesOf, ReportsOf, BindSteps
<1>2. Written(q, TRUE) /\ UNCHANGED heapVars
  BY DEF PtrxStore, Written
<1>3. /\ HeapOK' /\ live = InUse(at, origin)
      /\ at[q] \in live /\ at[q] \in Symbol /\ dirty \subseteq live
      /\ new = {at[q]}
  BY <1>2, PointedInUse, SymbolAssumption
     DEF KnownInv, HeapOK, heapVars, DirtyInUse, Added
<1> HIDE DEF new, live
<1>4. DirtyInUse'
  BY <1>2, <1>3 DEF DirtyInUse, Written, live
<1>5. /\ (hidden \cap live) \ new \subseteq hidden'
      /\ dirty' \subseteq (dirty \cup new \cup hidden') \cap live
  BY <1>2, <1>3 DEF Written
<1>6. Transition(live, new, {}, InError(TRUE, at[p]), Ptrx!Roots(origin, at[p]))
  BY <1>1, <1>5, BindStep DEF new
<1>7. DifferInOne' /\ DirtyKnown'
  BY <1>6, KnownStep DEF KnownInv
<1>8. QED
  BY <1>3, <1>4, <1>7 DEF KnownInv

\* q->f = malloc()
LEMMA StoreNewKnown ==
  ASSUME KnownInv, NEW q \in Variable, StoreNew(q)
  PROVE  KnownInv'
<1>1. PICK val \in Unused :
        /\ Written(q, FALSE)
        /\ LET Callback(n) == Ptrx!CheckBind(TRUE, at[q], val, TRUE, origin, n)
           IN  Visit(Callback)
  BY DEF StoreNew
<1> DEFINE live == InUse(at', origin')
           new == Added(TRUE, at[q], val)
<1>2. /\ GoesOn(BindSteps(TRUE, at[q], val, TRUE), live)
      /\ blamed' = live \cap
           (blamed \cup UNION {Ptrx!Roots(origin, s) : s \in
             ReportsOf(BindSteps(TRUE, at[q], val, TRUE))})
  BY <1>1 DEF Visit, GoesOn, NodesOf, ReportsOf, BindSteps
<1>3. /\ HeapOK' /\ live = InUse(at, origin)
      /\ at[q] \in live /\ dirty \subseteq live
      /\ new = {val} /\ val \notin live
  BY <1>1, PointedInUse, SymbolAssumption
     DEF KnownInv, HeapOK, heapVars, DirtyInUse, Added, Written, Unused
<1> HIDE DEF new, live
<1>4. DirtyInUse'
  BY <1>1, <1>3 DEF DirtyInUse, Written, live
<1>5. /\ (hidden \cap live) \ new \subseteq hidden'
      /\ dirty' \subseteq (dirty \cup new \cup hidden') \cap live
  BY <1>1, <1>3 DEF Written
<1>6. Transition(live, new, {}, InError(TRUE, val), Ptrx!Roots(origin, val))
  BY <1>2, <1>5, BindStep DEF new
<1>7. DifferInOne' /\ DirtyKnown'
  BY <1>6, KnownStep DEF KnownInv
<1>8. QED
  BY <1>3, <1>4, <1>7 DEF KnownInv

\* p = value
LEMMA PtrxAssignKnown ==
  ASSUME KnownInv, NEW p \in Variable, NEW value \in Symbol,
         NEW from \in Symbol \cup {NoSymbol}, NEW isAlloc \in BOOLEAN,
         PtrxAssign(p, value, from, isAlloc)
  PROVE  KnownInv'
<1> DEFINE live == InUse(at', origin')
           new == Added(isAlloc, NoSymbol, value)
<1>1. /\ GoesOn(BindSteps(FALSE, NoSymbol, value, isAlloc), live)
      /\ blamed' = live \cap
           (blamed \cup UNION {Ptrx!Roots(origin, s) : s \in
             ReportsOf(BindSteps(FALSE, NoSymbol, value, isAlloc))})
  BY DEF PtrxAssign, Visit, GoesOn, NodesOf, ReportsOf, BindSteps
<1>2. HeapOK'
  BY DEF PtrxAssign, KnownInv, HeapOK
<1>3. new = IF isAlloc THEN {value} ELSE {}
  BY SymbolAssumption DEF Added
<1> HIDE DEF new
<1>4. dirty' = (dirty \cup new) \cap live /\ hidden' = hidden \cap live
  BY <1>3 DEF PtrxAssign
<1>5. DirtyInUse'
  BY <1>4 DEF DirtyInUse
<1> HIDE DEF live
<1>6. Transition(live, new, {}, InError(FALSE, value), Ptrx!Roots(origin, value))
  BY <1>1, <1>4, BindStep DEF new
<1>7. DifferInOne' /\ DirtyKnown'
  BY <1>6, KnownStep DEF KnownInv
<1>8. QED
  BY <1>2, <1>5, <1>7 DEF KnownInv

\* A flush with a fence
LEMMA PtrxFlushFenceKnown ==
  ASSUME KnownInv, NEW p \in Variable, NEW numArgs, PtrxFlushFence(p, numArgs)
  PROVE  KnownInv'
<1> DEFINE live == InUse(at', origin')
           result == [m \in nodes |-> Ptrx!HandleFlushFenceFnc(at[p], numArgs, m)]
           gone == {at[p]}
<1>1. /\ GoesOn({Ptrx!HandleFlushFenceFnc(at[p], numArgs, m) : m \in nodes}, live)
      /\ blamed' = live \cap (blamed \cup UNION {Ptrx!Roots(origin, s) : s \in
             ReportsOf({Ptrx!HandleFlushFenceFnc(at[p], numArgs, m) : m \in nodes})})
  BY DEF PtrxFlushFence, Visit, GoesOn, NodesOf, ReportsOf
<1>2. /\ HeapOK' /\ live = InUse(at, origin) /\ dirty \subseteq live
  BY DEF KnownInv, HeapOK, heapVars, DirtyInUse, PtrxFlushFence
<1>3. dirty' = dirty \ gone /\ hidden' = hidden \ gone
  BY DEF PtrxFlushFence
<1>4. DirtyInUse'
  BY <1>2, <1>3 DEF DirtyInUse
<1>5. CASE numArgs > Ptrx!MaxFlushArgs
  <2>1. \A m \in nodes : Ptrx!HandleFlushFenceFnc(at[p], numArgs, m).nodes = {}
    BY <1>5 DEF Ptrx!HandleFlushFenceFnc, Ptrx!Step
  <2>2. nodes' = {}
    BY <1>1, <2>1 DEF GoesOn, NodesOf
  <2>3. DifferInOne' /\ DirtyKnown'
    BY <2>2 DEF DifferInOne, DirtyKnown
  <2>4. QED
    BY <1>2, <1>4, <2>3 DEF KnownInv
<1>6. CASE ~(numArgs > Ptrx!MaxFlushArgs)
  <2>1. EndsOrChanges(result, {}, gone, {})
    <3>1. \A m : Ptrx!HandleFlushFenceFnc(at[p], numArgs, m).nodes = {m \ gone}
      BY <1>6, SuccessorsAre DEF Ptrx!HandleFlushFenceFnc, Ptrx!Step, Ptrx!FlushPtr
    <3>2. \A m \in nodes : result[m].nodes = {m \ gone}
      BY <3>1
    <3> HIDE DEF result, gone
    <3>3. QED
      BY <3>2 DEF EndsOrChanges
  <2>2. {Ptrx!HandleFlushFenceFnc(at[p], numArgs, m) : m \in nodes}
          = {result[m] : m \in nodes}
    OBVIOUS
  <2> HIDE DEF live, result, gone
  <2>3. nodes' = {After(m, live, {}, gone) : m \in Kept({}, {})}
    BY <1>1, <2>1, <2>2, NodesAfter
  <2>4. Transition(live, {}, gone, {}, {})
    BY <1>1, <1>2, <1>3, <2>3 DEF Transition
  <2>5. DifferInOne' /\ DirtyKnown'
    BY <2>4, KnownStep DEF KnownInv
  <2>6. QED
    BY <1>2, <1>4, <2>5 DEF KnownInv
<1>7. QED
  BY <1>5, <1>6

\* A callback that leaves every node as it is, or none
LEMMA SameKnown ==
  ASSUME KnownInv, NEW steps, NEW live, live = InUse(at', origin'),
         UNCHANGED <<heapVars, writeVars>>, GoesOn(steps, live),
         NodesOf(steps) \in {nodes, {}},
         blamed' = live \cap
           (blamed \cup UNION {Ptrx!Roots(origin, s) : s \in ReportsOf(steps)})
  PROVE  KnownInv'
<1>1. HeapOK' /\ DirtyInUse' /\ dirty' = dirty /\ dirty \subseteq live /\ hidden' = hidden
  BY DEF KnownInv, HeapOK, DirtyInUse, heapVars, writeVars
<1>2. nodes' = {} \/ nodes' = {n \cap live : n \in nodes}
  BY DEF GoesOn
<1>3. blamed \cap live \subseteq blamed'
  OBVIOUS
<1> HIDE DEF KnownInv
<1>4. CASE nodes' = {}
  BY <1>1, <1>4 DEF KnownInv, DirtyKnown, DifferInOne
<1>5. CASE nodes' = {n \cap live : n \in nodes}
  <2>1. nodes' = {After(m, live, {}, {}) : m \in Kept({}, {})}
    BY <1>5 DEF After, Kept
  <2>2. Transition(live, {}, {}, {}, {})
    BY <1>1, <1>3, <2>1 DEF Transition
  <2>3. DifferInOne' /\ DirtyKnown'
    BY <2>2, KnownStep DEF KnownInv
  <2>4. QED
    BY <1>1, <2>3 DEF KnownInv
<1>6. QED
  BY <1>2, <1>4, <1>5

\* Callbacks that leave each node as it is
LEMMA EachKept ==
  ASSUME NEW steps, \A t \in steps : \E n \in nodes : t.nodes = {n},
         \A n \in nodes : \E t \in steps : t.nodes = {n}
  PROVE  NodesOf(steps) = nodes
<1>1. \A n \in NodesOf(steps) : n \in nodes
  BY DEF NodesOf
<1>2. \A n \in nodes : n \in NodesOf(steps)
  BY DEF NodesOf
<1>3. QED
  BY <1>1, <1>2

\* if (c)
LEMMA BranchKnown ==
  ASSUME KnownInv, NEW holds \in BOOLEAN, Branch(holds)
  PROVE  KnownInv'
<1> DEFINE live == InUse(at', origin')
           steps == {Ptrx!CheckBranchCondition(TRUE, holds, n) : n \in nodes}
<1>1. /\ GoesOn(steps, live)
      /\ blamed' = live \cap
           (blamed \cup UNION {Ptrx!Roots(origin, s) : s \in ReportsOf(steps)})
      /\ UNCHANGED <<heapVars, writeVars>>
  BY DEF Branch, Visit, GoesOn, NodesOf, ReportsOf
<1>2. NodesOf(steps) \in {nodes, {}}
  <2>1. CASE holds
    <3>1. \A t \in steps : \E n \in nodes : t.nodes = {n}
      BY <2>1 DEF Ptrx!CheckBranchCondition, Ptrx!Step
    <3>2. ASSUME NEW n \in nodes PROVE \E t \in steps : t.nodes = {n}
      <4>1. Ptrx!CheckBranchCondition(TRUE, holds, n).nodes = {n}
        BY <2>1 DEF Ptrx!CheckBranchCondition, Ptrx!Step
      <4>2. QED
        BY <4>1
    <3>3. QED
      BY <3>1, <3>2, EachKept
  <2>2. CASE ~holds
    <3>1. \A t \in steps : t.nodes = {}
      BY <2>2 DEF Ptrx!CheckBranchCondition, Ptrx!Step
    <3> HIDE DEF steps
    <3>2. QED
      BY <3>1 DEF NodesOf
  <2>3. QED
    BY <2>1, <2>2
<1> HIDE DEF steps, live
<1>3. QED
  BY <1>1, <1>2, SameKnown DEF live

\* The body of a called function begins.
LEMMA CallKnown ==
  ASSUME KnownInv, Call
  PROVE  KnownInv'
<1> DEFINE live == InUse(at', origin')
           Begun(n) == Ptrx!CheckBeginFunction(FALSE, FALSE, Range(at), n)
           steps == {Ptrx!Step({}, Begun(n)) : n \in nodes}
<1>1. /\ GoesOn(steps, live)
      /\ blamed' = live \cap
           (blamed \cup UNION {Ptrx!Roots(origin, s) : s \in ReportsOf(steps)})
      /\ UNCHANGED <<heapVars, writeVars>>
  BY DEF Call, Visit, GoesOn, NodesOf, ReportsOf
<1>2. NodesOf(steps) = nodes
  <2>1. \A n : Begun(n) = {n}
    BY Zenon DEF Ptrx!CheckBeginFunction
  <2> HIDE DEF Begun
  <2>2. \A t \in steps : \E n \in nodes : t.nodes = {n}
    BY <2>1 DEF Ptrx!Step
  <2>3. ASSUME NEW n \in nodes PROVE \E t \in steps : t.nodes = {n}
    <3>1. Ptrx!Step({}, Begun(n)).nodes = {n}
      BY <2>1 DEF Ptrx!Step
    <3>2. QED
      BY <3>1
  <2>4. QED
    BY <2>2, <2>3, EachKept
<1> HIDE DEF steps, live
<1>3. QED
  BY <1>1, <1>2, SameKnown DEF live

\* checkBeginFunction: every node knows of one parameter, or there is but one.
LEMMA InitEstablishesKnown ==
  PtrxInit => KnownInv
<1> SUFFICES ASSUME PtrxInit PROVE KnownInv
  OBVIOUS
<1>1. PICK params \in SUBSET Range(at) :
        /\ nodes = Ptrx!CheckBeginFunction(FALSE, TRUE, params, Ptrx!StartNode)
        /\ dirty = params
  BY DEF PtrxInit
<1>2. HeapOK
  BY DEF PtrxInit, HeapOK
<1>3. \A s \in Range(at) : s \in Symbol /\ s \in InUse(at, origin)
  BY <1>2, PointedInUse DEF HeapOK, Range
<1>4. nodes = IF params = {} THEN {{}} ELSE {{p} : p \in params}
  <2> DEFINE dirtied == {{p} \ {NoSymbol} : p \in params} \ {{}}
  <2>1. nodes = IF dirtied = {} THEN {{}} ELSE dirtied
    <3> DEFINE written == {{} \cup ({p} \ {NoSymbol}) : p \in params} \ {{}}
    <3>1. nodes = IF written # {} THEN written ELSE {{}}
      BY <1>1, Zenon DEF Ptrx!CheckBeginFunction, Ptrx!StartNode, Ptrx!WritePtr
    <3>2. written = dirtied
      OBVIOUS
    <3>3. QED
      BY <3>1, <3>2, Zenon
  <2>2. \A p \in params : {p} \ {NoSymbol} = {p}
    BY <1>1, <1>3, SymbolAssumption
  <2>3. dirtied = {{p} : p \in params}
    BY <2>2
  <2> HIDE DEF dirtied
  <2>4. QED
    BY <2>1, <2>3
<1>5. DirtyInUse
  BY <1>1, <1>3 DEF DirtyInUse
<1>6. DifferInOne
  <2>1. \A n \in nodes : {} \subseteq n /\ \A x, y \in n \ {} : x = y
    BY <1>4
  <2>2. QED
    BY <2>1, Zenon DEF DifferInOne
<1>7. DirtyKnown
  BY <1>1, <1>4 DEF DirtyKnown
<1>8. QED
  BY <1>2, <1>5, <1>6, <1>7 DEF KnownInv

LEMMA StepKeepsKnown ==
  KnownInv /\ [PtrxNext]_allVars => KnownInv'
<1> SUFFICES ASSUME KnownInv, [PtrxNext]_allVars PROVE KnownInv'
  OBVIOUS
<1>1. /\ \A p \in Variable : at[p] \in Symbol
      /\ \A s \in Symbol : origin[s] \in Symbol \cup {NoSymbol}
      /\ Unused \subseteq Symbol
  BY DEF KnownInv, HeapOK, Unused
<1>2. ASSUME NEW f \in Field, NEW p \in Pointer, NEW q \in Variable, PtrxStore(f, p, q)
      PROVE  KnownInv'
  BY <1>2, PtrxStoreKnown
<1>3. ASSUME NEW p \in Variable, NEW q \in Variable,
             AssignAlias(p, q) \/ AssignLoad(p, q) \/ AssignStored(p)
      PROVE  KnownInv'
  BY <1>1, <1>3, PtrxAssignKnown DEF AssignAlias, AssignLoad, AssignStored
<1>4. ASSUME NEW p \in Variable, WriteThrough(p) \/ StoreNew(p)
      PROVE  KnownInv'
  BY <1>4, WriteThroughKnown, StoreNewKnown
<1>5. ASSUME NEW p \in Variable, NEW isAlloc \in BOOLEAN, AssignNew(p, isAlloc)
      PROVE  KnownInv'
  BY <1>1, <1>5, PtrxAssignKnown DEF AssignNew
<1>6. ASSUME NEW p \in Variable, NEW numArgs, PtrxFlushFence(p, numArgs)
      PROVE  KnownInv'
  BY <1>6, PtrxFlushFenceKnown
<1>7. CASE UNCHANGED ptrxVars
  BY <1>7 DEF ptrxVars, heapVars, writeVars, KnownInv, HeapOK, DirtyInUse,
              DifferInOne, DirtyKnown
<1>8. ASSUME NEW holds \in BOOLEAN, Branch(holds)
      PROVE  KnownInv'
  BY <1>8, BranchKnown
<1>9. CASE Call
  BY <1>9, CallKnown
<1>10. QED
  BY <1>2, <1>3, <1>4, <1>5, <1>6, <1>7, <1>8, <1>9
     DEF PtrxNext, FlushOrFence, allVars

-----------------------------------------------------------------------------
(* The theorems *)

\* A step of both checkers is a step of the one on the dataflow engine, or
\* leaves it alone.
LEMMA StepProjects ==
  [PtrxNext]_allVars => [Next]_vars
<1> SUFFICES ASSUME [PtrxNext]_allVars PROVE [Next]_vars
  OBVIOUS
<1>1. ASSUME NEW f \in Field, NEW p \in Pointer, NEW q \in Variable, PtrxStore(f, p, q)
      PROVE  [Next]_vars
  BY <1>1 DEF PtrxStore, Next
<1>2. ASSUME NEW p, NEW value, NEW from, NEW isAlloc, PtrxAssign(p, value, from, isAlloc)
      PROVE  [Next]_vars
  BY <1>2 DEF PtrxAssign, Next
<1>3. ASSUME NEW p, WriteThrough(p) \/ StoreNew(p)
      PROVE  [Next]_vars
  BY <1>3 DEF WriteThrough, StoreNew
<1>4. ASSUME NEW p, NEW numArgs, PtrxFlushFence(p, numArgs)
      PROVE  [Next]_vars
  BY <1>4 DEF PtrxFlushFence, Next
<1>5. ASSUME NEW p \in Pointer, FlushOrFence(ClFlushOpt(p))
      PROVE  [Next]_vars
  BY <1>5 DEF FlushOrFence, Next
<1>6. CASE FlushOrFence(PFence)
  BY <1>6 DEF FlushOrFence, Next
<1>7. ASSUME NEW holds, Branch(holds)
      PROVE  [Next]_vars
  BY <1>7 DEF Branch
<1>8. CASE Call
  BY <1>8 DEF Call
<1>9. CASE UNCHANGED allVars
  BY <1>9 DEF allVars
<1>10. QED
  BY <1>1, <1>2, <1>3, <1>4, <1>5, <1>6, <1>7, <1>8, <1>9
     DEF PtrxNext, AssignAlias, AssignLoad, AssignStored, AssignNew

\* The paths of both checkers are paths of the one on the dataflow engine:
\* what is proved of Spec holds for them.
THEOREM PathsProject == PtrxSpec => Spec
<1>1. PtrxInit => Init
  BY DEF PtrxInit
<1>2. QED
  BY <1>1, StepProjects, PTL DEF PtrxSpec, Spec

\* addNewState and the liveness of symbols keep the nodes within what is dirty.
THEOREM NodesDirtyInvariance == PtrxSpec => []NodesDirty
BY InitEstablishesNodesDirty, StepKeepsNodesDirty, PTL DEF PtrxSpec

\* isPtrWritten accuses a stored pointer only if what it points to is dirty or
\* was loaded from what is.
THEOREM AccusationsFounded == PtrxSpec => BlamesDirtyRoots
<1>1. NodesDirty =>
        [\A f \in Field, p \in Pointer, q \in Variable :
           at[p] \in blamed' \ blamed /\ PtrxStore(f, p, q) =>
             Ptrx!Roots(origin, at[p]) \cap dirty # {}]_allVars
  BY AccusedIsDirty
<1>2. QED
  BY <1>1, NodesDirtyInvariance, PTL DEF BlamesDirtyRoots

\* No callback of PtrChecker loses an object that was written and not flushed
\* since, as long as the path is explored.
THEOREM DirtyNotLost == PtrxSpec => []DirtyKnown
<1>1. KnownInv => DirtyKnown
  BY DEF KnownInv
<1>2. QED
  BY <1>1, InitEstablishesKnown, StepKeepsKnown, PTL DEF PtrxSpec
=============================================================================
