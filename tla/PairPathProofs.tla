--------------------------- MODULE PairPathProofs ---------------------------
(***************************************************************************)
(* Along every execution path the pair checker's values say how far each   *)
(* write has come, it misses no write that comes too early, it implements  *)
(* the monitor, and the note of a report leads to the statement that left  *)
(* the partner without its commit.  For all sets of variables and pairs.   *)
(***************************************************************************)
EXTENDS PairPath, TLAPS

-----------------------------------------------------------------------------
(* One variable: its lattice value beside its versions *)

\* What a value of the lattice says about the versions of its variable.
Follows(lv, ve, pe, du, or) ==
  /\ lv \in PairLattice /\ lv.type \in LatticeType
  /\ pe <= ve /\ du <= ve /\ or <= ve
  /\ lv.type = "DclType" => lv.scl # WriteScl
  /\ lv.type = "SclType" => lv.dcl = UnseenDcl
  /\ HasDcl(lv) =>
       /\ (lv.dcl = UnseenDcl) <=> (ve = 0)
       /\ (lv.dcl = Pfence)    <=> (ve > 0 /\ du = ve)
       /\ (lv.dcl = Flush)     <=> (du < ve /\ pe = ve)
       /\ (lv.dcl = WriteDcl)  <=> (du < ve /\ pe < ve)
  /\ HasScl(lv) => ((lv.scl = WriteScl) <=> (or < ve))

\* What the four statements that order writes make of a value.
FlushedValue(lv)  == FlushFenceValue(FALSE, lv)
RangedValue(lv)   == FlushFenceValue(TRUE, lv)
PfencedValue(lv)  == FenceValue(TRUE, lv)
VfencedValue(lv)  == FenceValue(FALSE, lv)

\* A variable that was never written is Unseen in both parts.
LEMMA UnseenFollows ==
  ASSUME NEW type \in LatticeType
  PROVE  /\ Follows(OfType(type), 0, 0, 0, 0)
         /\ OfType(type).type = type
         /\ ~IsWriteFlush(OfType(type))
BY DEF Follows, OfType, PairLattice, LatticeType, Dcl, Scl, HasDcl, HasScl,
       UnseenDcl, UnseenScl, WriteDcl, WriteScl, Flush, Pfence, IsWriteFlush

\* getWrite follows a store, and leaves its variable unordered.
LEMMA WriteFollows ==
  ASSUME NEW lv, NEW ve \in Nat, NEW pe \in Nat, NEW du \in Nat, NEW or \in Nat,
         Follows(lv, ve, pe, du, or)
  PROVE  /\ Follows(GetWrite(lv), ve + 1, pe, du, or)
         /\ GetWrite(lv).type = lv.type
         /\ IsWriteFlush(GetWrite(lv))
<1> DEFINE new == GetWrite(lv)
<1>1. /\ new \in PairLattice
      /\ new.type = lv.type
      /\ new.scl = IF lv.type # "DclType" THEN WriteScl ELSE lv.scl
      /\ new.dcl = IF lv.type # "SclType" THEN WriteDcl ELSE lv.dcl
  BY DEF Follows, GetWrite, PairLattice, LatticeType, Dcl, Scl, UnseenDcl,
         UnseenScl, WriteDcl, WriteScl
<1>2. pe < ve + 1 /\ du < ve + 1 /\ or < ve + 1 /\ ve + 1 > 0
  BY DEF Follows
<1> HIDE DEF new
<1>3. IsWriteFlush(new)
  BY <1>1 DEF Follows, LatticeType, WriteDcl, WriteScl, Flush, IsWriteFlush
<1>4. Follows(new, ve + 1, pe, du, or)
  BY <1>1, <1>2 DEF Follows, LatticeType, HasDcl, HasScl, UnseenDcl, WriteDcl,
     WriteScl, Flush, Pfence
<1>5. QED
  BY <1>1, <1>3, <1>4 DEF new

\* handleFlush of a clflushopt follows it: what was written is pending.
LEMMA FlushFollows ==
  ASSUME NEW lv, NEW ve \in Nat, NEW pe \in Nat, NEW du \in Nat, NEW or \in Nat,
         Follows(lv, ve, pe, du, or)
  PROVE  /\ Follows(FlushedValue(lv), ve, ve, du, or)
         /\ FlushedValue(lv).type = lv.type
         /\ IsWriteFlush(FlushedValue(lv)) => IsWriteFlush(lv)
BY DEF FlushedValue, Follows, FlushFenceValue, FlushValue, GetFlush,
     PairLattice, LatticeType,
       Dcl, Scl, HasDcl, HasScl, IsWriteDcl, UnseenDcl, UnseenScl, WriteDcl,
       WriteScl, Flush, Pfence, IsWriteFlush

\* handleFlush of a clflush follows it: what was written is durable.
LEMMA FlushFenceFollows ==
  ASSUME NEW lv, NEW ve \in Nat, NEW pe \in Nat, NEW du \in Nat, NEW or \in Nat,
         Follows(lv, ve, pe, du, or)
  PROVE  /\ Follows(RangedValue(lv), ve, pe, ve, ve)
         /\ RangedValue(lv).type = lv.type
         /\ IsWriteFlush(RangedValue(lv)) => IsWriteFlush(lv)
BY DEF RangedValue, Follows, FlushFenceValue, FlushValue, GetFlush, GetPfence,
     GetVfence,
       PairLattice, LatticeType, Dcl, Scl, HasDcl, HasScl, IsWriteDcl,
       IsWriteFlushDcl, UnseenDcl, UnseenScl, WriteDcl, WriteScl, Flush, Pfence,
       Vfence, IsWriteFlush

\* handleFence of an sfence follows it: what was flushed is durable and
\* everything is ordered.
LEMMA PfenceFollows ==
  ASSUME NEW lv, NEW ve \in Nat, NEW pe \in Nat, NEW du \in Nat, NEW or \in Nat,
         Follows(lv, ve, pe, du, or)
  PROVE  /\ Follows(PfencedValue(lv), ve, pe, Newer(du, pe), ve)
         /\ PfencedValue(lv).type = lv.type
         /\ IsWriteFlush(PfencedValue(lv)) => IsWriteFlush(lv)
BY DEF PfencedValue, Follows, FenceValue, PfenceValue, PfenceApplies,
     VfenceApplies, GetPfence,
       GetVfence, PairLattice, LatticeType, Dcl, Scl, HasDcl, HasScl, IsWrite,
       IsFlush, UnseenDcl, UnseenScl, WriteDcl, WriteScl, Flush, Pfence, Vfence,
       IsWriteFlush, Newer

\* handleFence of a compiler fence follows it: everything is ordered.
LEMMA VfenceFollows ==
  ASSUME NEW lv, NEW ve \in Nat, NEW pe \in Nat, NEW du \in Nat, NEW or \in Nat,
         Follows(lv, ve, pe, du, or)
  PROVE  /\ Follows(VfencedValue(lv), ve, pe, du, ve)
         /\ VfencedValue(lv).type = lv.type
         /\ IsWriteFlush(VfencedValue(lv)) => IsWriteFlush(lv)
BY DEF VfencedValue, Follows, FenceValue, PfenceValue, PfenceApplies,
     VfenceApplies, GetPfence,
       GetVfence, PairLattice, LatticeType, Dcl, Scl, HasDcl, HasScl, IsWrite,
       IsFlush, UnseenDcl, UnseenScl, WriteDcl, WriteScl, Flush, Pfence, Vfence,
       IsWriteFlush
-----------------------------------------------------------------------------
(* Operators *)

\* The value a variable of the unit starts from.
InitOf(v) == GetInit(GetDsclInfo(v).isDcl, GetDsclInfo(v).isScl)

\* The type of a used variable has a part for each of its pairs.
LEMMA UsedVarHasType ==
  ASSUME NEW v \in UsedVars
  PROVE  /\ InitOf(v).type \in LatticeType
         /\ InitOf(v) = OfType(InitOf(v).type)
         /\ \A PI \in GetPairInfoSet(v) :
              IF PI.isScl THEN InitOf(v).type \in {"BothType", "SclType"}
                          ELSE InitOf(v).type \in {"BothType", "DclType"}
<1>1. PICK PI \in Pairs : v \in {PI.data, PI.check}
  BY DEF UsedVars
<1>2. PI \in GetPairInfoSet(v)
  BY <1>1 DEF GetPairInfoSet
<1>3. GetDsclInfo(v).isDcl \/ GetDsclInfo(v).isScl
  BY <1>2 DEF GetDsclInfo
<1>4. /\ GetDsclInfo(v).isDcl \in BOOLEAN /\ GetDsclInfo(v).isScl \in BOOLEAN
      /\ \A I \in GetPairInfoSet(v) :
           IF I.isScl THEN GetDsclInfo(v).isScl ELSE GetDsclInfo(v).isDcl
  BY DEF GetDsclInfo
<1> DEFINE isDcl == GetDsclInfo(v).isDcl
           isScl == GetDsclInfo(v).isScl
<1> HIDE DEF isDcl, isScl
<1>5. /\ isDcl /\ isScl => GetInit(isDcl, isScl) = OfType("BothType")
      /\ isDcl /\ ~isScl => GetInit(isDcl, isScl) = OfType("DclType")
      /\ ~isDcl /\ isScl => GetInit(isDcl, isScl) = OfType("SclType")
  BY DEF GetInit
<1>6. \A t \in LatticeType : OfType(t).type = t
  BY UnseenFollows
<1>7. QED
  BY <1>3, <1>4, <1>5, <1>6 DEF InitOf, isDcl, isScl, LatticeType

\* Every operation on a lattice value yields a lattice value.
LEMMA ValuesInLattice ==
  ASSUME NEW lv \in PairLattice
  PROVE  /\ GetWrite(lv) \in PairLattice
         /\ FlushedValue(lv) \in PairLattice
         /\ RangedValue(lv) \in PairLattice
         /\ PfencedValue(lv) \in PairLattice
         /\ VfencedValue(lv) \in PairLattice
<1>1. ASSUME NEW val \in PairLattice
      PROVE  /\ GetFlush(val) \in PairLattice
             /\ GetPfence(val) \in PairLattice
             /\ GetVfence(val) \in PairLattice
  BY DEF PairLattice, GetFlush, GetPfence, GetVfence, Dcl, Scl, WriteDcl, Flush,
         Pfence, UnseenDcl, WriteScl, Vfence, UnseenScl
<1>2. GetWrite(lv) \in PairLattice
  BY DEF PairLattice, GetWrite, Dcl, Scl, WriteDcl, UnseenDcl, WriteScl,
       UnseenScl
<1>3. FlushedValue(lv) \in PairLattice /\ RangedValue(lv) \in PairLattice
  BY <1>1 DEF FlushedValue, RangedValue, FlushFenceValue, FlushValue
<1>4. PfencedValue(lv) \in PairLattice /\ VfencedValue(lv) \in PairLattice
  BY <1>1 DEF PfencedValue, VfencedValue, FenceValue, PfenceValue
<1>5. QED
  BY <1>2, <1>3, <1>4

\* operator[] finds a lattice value, default or not.
LEMMA ValueOfInLattice ==
  ASSUME NEW st, NEW v, \A x \in DOMAIN st : st[x] \in PairLattice
  PROVE  ValueOf(st, v) \in PairLattice
BY DEF ValueOf, DefaultValue, PairLattice, Dcl, Scl, UnseenDcl, UnseenScl,
       WriteDcl, WriteScl

\* The transfer function of an assignment
LEMMA AssignResult ==
  ASSUME NEW S, NEW v \in UsedVars, NEW st, NEW m
  PROVE  HandleStmt(S, AssignStmt(v), st, m)
           = HandleWrite(S, v, st, m)
<1>1. AssignStmt(v).op = "assign" /\ AssignStmt(v).var = v
  BY DEF AssignStmt
<1>2. QED
  BY <1>1 DEF HandleStmt, IsUsedStmt, VarOps, FenceOps

\* new is the manager m with at most some last locations moved to S.
LocatedAt(S, m, new) ==
  new = m \/ \E X : new = UpdateLastLocation(m, X, S)

\* The transfer function of a flush, with or without a fence; the flush of a
\* variable that belongs to no pair does nothing.
LEMMA FlushResult ==
  ASSUME NEW S, NEW v, NEW st, NEW m
  PROVE  /\ v \in UsedVars =>
              /\ HandleStmt(S, FlushStmt(v), st, m).state
                   = Put(st, v, FlushedValue(ValueOf(st, v)))
              /\ LocatedAt(S, m, HandleStmt(S, FlushStmt(v), st, m).manager)
              /\ HandleStmt(S, FlushFenceStmt(v), st, m).state
                   = Put(st, v, RangedValue(ValueOf(st, v)))
              /\ LocatedAt(S, m,
                           HandleStmt(S, FlushFenceStmt(v), st, m).manager)
         /\ v \notin UsedVars =>
              /\ HandleStmt(S, FlushStmt(v), st, m).state = st
              /\ HandleStmt(S, FlushStmt(v), st, m).manager = m
              /\ HandleStmt(S, FlushFenceStmt(v), st, m).state = st
              /\ HandleStmt(S, FlushFenceStmt(v), st, m).manager = m
<1>1. /\ FlushStmt(v).op = "flush" /\ FlushStmt(v).var = v
      /\ FlushFenceStmt(v).op = "flushFence" /\ FlushFenceStmt(v).var = v
  BY DEF FlushStmt, FlushFenceStmt
<1>2. /\ ~IsPfence(FlushStmt(v)) /\ IsPfence(FlushFenceStmt(v))
      /\ IsUsedStmt(FlushStmt(v)) <=> v \in UsedVars
      /\ IsUsedStmt(FlushFenceStmt(v)) <=> v \in UsedVars
  BY <1>1 DEF IsPfence, IsUsedStmt, VarOps, FenceOps
<1>3. ASSUME NEW s \in {FlushStmt(v), FlushFenceStmt(v)}
      PROVE  HandleStmt(S, s, st, m) =
               IF v \in UsedVars THEN HandleFlush(S, IsPfence(s), v, st, m)
                                 ELSE Result(st, FALSE, m)
  BY <1>1, <1>2 DEF HandleStmt, FenceOps
<1>4. ASSUME v \in UsedVars
      PROVE  /\ HandleStmt(S, FlushStmt(v), st, m).state
                  = Put(st, v, FlushedValue(ValueOf(st, v)))
             /\ LocatedAt(S, m, HandleStmt(S, FlushStmt(v), st, m).manager)
  BY <1>2, <1>3, <1>4 DEF HandleFlush, Result, FlushedValue, FlushFenceValue,
       FlushValue, LocatedAt
<1>5. ASSUME v \in UsedVars
      PROVE  /\ HandleStmt(S, FlushFenceStmt(v), st, m).state
                  = Put(st, v, RangedValue(ValueOf(st, v)))
             /\ LocatedAt(S, m, HandleStmt(S, FlushFenceStmt(v), st, m).manager)
  BY <1>2, <1>3, <1>5 DEF HandleFlush, Result, RangedValue, FlushFenceValue,
       FlushValue, LocatedAt
<1>6. ASSUME v \notin UsedVars, NEW s \in {FlushStmt(v), FlushFenceStmt(v)}
      PROVE  /\ HandleStmt(S, s, st, m).state = st
             /\ HandleStmt(S, s, st, m).manager = m
  BY <1>3, <1>6 DEF Result
<1>7. QED
  BY <1>4, <1>5, <1>6

\* A fence changes every value of the state.
PfencedState(st) == [x \in DOMAIN st |-> PfencedValue(st[x])]
VfencedState(st) == [x \in DOMAIN st |-> VfencedValue(st[x])]

\* The transfer function of a fence
LEMMA FenceResult ==
  ASSUME NEW S, NEW st, NEW m
  PROVE  /\ HandleStmt(S, PfenceStmt, st, m).state = PfencedState(st)
         /\ HandleStmt(S, VfenceStmt, st, m).state = VfencedState(st)
         /\ LocatedAt(S, m, HandleStmt(S, PfenceStmt, st, m).manager)
         /\ LocatedAt(S, m, HandleStmt(S, VfenceStmt, st, m).manager)
<1>1. PfenceStmt.op = "pfence" /\ VfenceStmt.op = "vfence"
  BY DEF PfenceStmt, VfenceStmt
<1>2. /\ IsPfence(PfenceStmt) /\ ~IsPfence(VfenceStmt)
      /\ IsUsedStmt(PfenceStmt) /\ IsUsedStmt(VfenceStmt)
  BY <1>1 DEF IsPfence, IsUsedStmt, VarOps, FenceOps
<1>3. ASSUME NEW s \in {PfenceStmt, VfenceStmt}
      PROVE  HandleStmt(S, s, st, m) = HandleFence(S, IsPfence(s), st, m)
  BY <1>1, <1>2 DEF HandleStmt, FenceOps
<1>4. ASSUME NEW s \in {PfenceStmt, VfenceStmt}
      PROVE  LocatedAt(S, m, HandleStmt(S, s, st, m).manager)
  BY <1>3 DEF HandleFence, Result, LocatedAt
<1>5. HandleStmt(S, PfenceStmt, st, m).state = PfencedState(st)
  BY <1>2, <1>3 DEF PfencedState, HandleFence, Result, PfencedValue,
       FenceValue, PfenceValue, PfenceApplies
<1>6. HandleStmt(S, VfenceStmt, st, m).state = VfencedState(st)
  BY <1>2, <1>3 DEF VfencedState, HandleFence, Result, VfencedValue,
       FenceValue, PfenceValue, PfenceApplies
<1>7. QED
  BY <1>4, <1>5, <1>6

\* A statement is a location, and never the null one.
LEMMA StatementsAreLocations ==
  ASSUME NEW v
  PROVE  /\ AssignStmt(v) # NullStmt
         /\ FlushStmt(v) # NullStmt
         /\ FlushFenceStmt(v) # NullStmt
         /\ PfenceStmt # NullStmt
         /\ VfenceStmt # NullStmt
<1>1. DOMAIN NullStmt = {}
  BY DEF NullStmt
<1>2. /\ "op" \in DOMAIN AssignStmt(v) /\ "op" \in DOMAIN FlushStmt(v)
      /\ "op" \in DOMAIN FlushFenceStmt(v)
      /\ "op" \in DOMAIN PfenceStmt /\ "op" \in DOMAIN VfenceStmt
  BY DEF AssignStmt, FlushStmt, FlushFenceStmt, PfenceStmt, VfenceStmt
<1>3. QED
  BY <1>1, <1>2

-----------------------------------------------------------------------------
(* The inductive invariant *)

\* The manager has the four fields of Init's.
ManagerShape ==
  manager = [unitVars     |-> manager.unitVars,
             lastLocation |-> manager.lastLocation,
             bugged       |-> manager.bugged,
             bugs         |-> manager.bugs]

\* Every variable of the unit has kept its type, and its value follows it.
ValuesFollow ==
  \A v \in manager.unitVars :
    /\ state[v].type = InitOf(v).type
    /\ Follows(state[v], ver[v], pend[v], dur[v], ord[v])

\* What is not ordered has a location, and no location is null.
LocationsKept ==
  /\ \A v \in manager.unitVars :
       IsWriteFlush(state[v]) => v \in DOMAIN manager.lastLocation
  /\ \A v \in DOMAIN manager.lastLocation :
       manager.lastLocation[v] # NullStmt

IInv ==
  /\ TypeOK
  /\ ManagerShape
  /\ ValuesFollow
  /\ NoMissedBug
  /\ LocationsKept
  /\ LastLocationKnown

\* What the two invariants on values say is part of ValuesFollow.
LEMMA IInvImpliesExact ==
  IInv => DurabilityExact /\ OrderExact
BY DEF IInv, ValuesFollow, Follows, DurabilityExact, OrderExact

\* A unit starts with every variable Unseen and nothing reported.
LEMMA InitEstablishesIInv ==
  Init => IInv /\ Monitor!MonitorInit
<1> SUFFICES ASSUME Init PROVE IInv /\ Monitor!MonitorInit
  OBVIOUS
<1>1. PICK unitVars \in SUBSET UsedVars : manager = InitUnit(unitVars, {})
  BY DEF Init
<1>2. /\ manager.unitVars = unitVars /\ manager.bugged = {} /\ manager.bugs = {}
      /\ DOMAIN manager.lastLocation = {} /\ ManagerShape
  BY <1>1 DEF InitUnit, ManagerShape
<1>3. /\ DOMAIN state = unitVars
      /\ \A v \in unitVars : state[v] = InitOf(v)
  BY <1>2 DEF Init, InitLatticeValues, InitOf
<1>4. \A v \in unitVars : /\ InitOf(v).type \in LatticeType
                           /\ InitOf(v) = OfType(InitOf(v).type)
  BY <1>1, UsedVarHasType
<1>5. \A v \in unitVars : Follows(state[v], 0, 0, 0, 0)
          /\ ~IsWriteFlush(state[v])
  BY <1>3, <1>4, UnseenFollows
<1>6. unitVars \subseteq UsedVars /\ UsedVars \subseteq Var
  BY PairsAssumption DEF UsedVars, PairInfo
<1>7. ver = Zero /\ pend = Zero /\ dur = Zero /\ ord = Zero /\ racy = {}
  BY DEF Init
<1>8. TypeOK
  BY <1>2, <1>3, <1>5, <1>6, <1>7 DEF TypeOK, Zero, Follows
<1>9. ValuesFollow
  BY <1>2, <1>3, <1>5, <1>6, <1>7 DEF ValuesFollow, Zero
<1>10. NoMissedBug /\ LocationsKept /\ LastLocationKnown
  BY <1>2, <1>5, <1>7 DEF NoMissedBug, LocationsKept, LastLocationKnown
<1>11. Monitor!MonitorInit
  BY <1>2, <1>5, <1>6 DEF Monitor!MonitorInit, UsedVars, Monitor!UsedVars
<1>12. QED
  BY <1>2, <1>8, <1>9, <1>10, <1>11 DEF IInv

-----------------------------------------------------------------------------
(* Steps *)

\* The part of TypeOK that is about the memory.
MemoryOK ==
  /\ ver \in [Var -> Nat] /\ pend \in [Var -> Nat]
  /\ dur \in [Var -> Nat] /\ ord \in [Var -> Nat]
  /\ \A v \in Var : pend[v] <= ver[v] /\ dur[v] <= ver[v] /\ ord[v] <= ver[v]

(***************************************************************************)
(* A step that writes nothing: values follow the memory, no variable       *)
(* becomes unordered, and at most some locations are updated.              *)
(***************************************************************************)
LEMMA QuietStep ==
  ASSUME IInv,
         NEW S, S # NullStmt, LocatedAt(S, manager, manager'),
         DOMAIN state \subseteq DOMAIN state',
         \A v \in DOMAIN state' : v \in UsedVars /\ state'[v] \in PairLattice,
         \A v \in manager.unitVars :
           /\ state'[v].type = state[v].type
           /\ Follows(state'[v], ver'[v], pend'[v], dur'[v], ord'[v])
           /\ IsWriteFlush(state'[v]) => IsWriteFlush(state[v]),
         MemoryOK',
         racy' = racy
  PROVE  IInv' /\ Monitor!MonitorNext
<1>1. /\ manager'.unitVars = manager.unitVars
      /\ manager'.bugged = manager.bugged
      /\ manager'.bugs = manager.bugs
      /\ ManagerShape'
      /\ DOMAIN manager.lastLocation \subseteq DOMAIN manager'.lastLocation
      /\ \A v \in DOMAIN manager'.lastLocation :
           manager'.lastLocation[v] # NullStmt
  <2>1. CASE manager' = manager
    BY <2>1 DEF IInv, ManagerShape, LocationsKept
  <2>2. CASE manager' # manager
    <3>1. PICK X : manager' = UpdateLastLocation(manager, X, S)
      BY <2>2 DEF LocatedAt
    <3>2. QED
      BY <3>1 DEF IInv, ManagerShape, UpdateLastLocation, LocationsKept
  <2>3. QED BY <2>1, <2>2
<1>2. TypeOK'
  BY <1>1 DEF IInv, TypeOK, MemoryOK
<1>3. ValuesFollow'
  BY <1>1 DEF IInv, ValuesFollow
<1>4. NoMissedBug' /\ LastLocationKnown'
  BY <1>1 DEF IInv, NoMissedBug, LastLocationKnown
<1>5. LocationsKept'
  BY <1>1 DEF IInv, LocationsKept
<1>6. Monitor!MonitorNext
  <2> DEFINE S0 == {v \in manager.unitVars : IsWriteFlush(state[v])}
             S1 == {v \in manager.unitVars : IsWriteFlush(state'[v])}
  <2>1. S0 \ S1 \in SUBSET manager.unitVars /\ S1 = S0 \ (S0 \ S1)
    OBVIOUS
  <2>2. Monitor!Order(S0 \ S1)
    BY <1>1, <2>1 DEF Monitor!Order
  <2>3. QED
    BY <2>1, <2>2 DEF Monitor!MonitorNext
<1>7. QED
  BY <1>1, <1>2, <1>3, <1>4, <1>5, <1>6 DEF IInv

\* The unit's variables before a step
LEMMA UnitVariable ==
  ASSUME IInv, NEW x \in manager.unitVars
  PROVE  /\ x \in UsedVars /\ x \in Var /\ x \in DOMAIN state
         /\ state[x].type = InitOf(x).type
         /\ ver[x] \in Nat /\ pend[x] \in Nat /\ dur[x] \in Nat
             /\ ord[x] \in Nat
         /\ Follows(state[x], ver[x], pend[x], dur[x], ord[x])
BY PairsAssumption DEF IInv, ValuesFollow, TypeOK, UsedVars, PairInfo

\* A flush puts a lattice value where it flushed, in the unit or outside.
LEMMA FlushedDomain ==
  ASSUME IInv, NEW v \in UsedVars, NEW lv \in PairLattice,
         state' = Put(state, v, lv)
  PROVE  /\ DOMAIN state \subseteq DOMAIN state'
         /\ \A x \in DOMAIN state' : x \in UsedVars /\ state'[x] \in PairLattice
         /\ state'[v] = lv
         /\ \A x \in manager.unitVars : x # v => state'[x] = state[x]
BY DEF Put, IInv, TypeOK

\* A clflushopt of v
LEMMA ClFlushOptStep ==
  ASSUME IInv, NEW v \in Var, ClFlushOpt(v)
  PROVE  IInv' /\ Monitor!MonitorNext
<1>1. FlushStmt(v) # NullStmt
  BY StatementsAreLocations
<1>2. /\ pend' = [pend EXCEPT ![v] = ver[v]]
      /\ ver' = ver /\ dur' = dur /\ ord' = ord /\ racy' = racy
  BY DEF ClFlushOpt, FlushOpt
<1>3. MemoryOK'
  BY <1>2 DEF IInv, TypeOK, MemoryOK
<1>4. /\ \A x \in Var : pend'[x] = IF x = v THEN ver[x] ELSE pend[x]
      /\ \A x \in Var : ver'[x] = ver[x] /\ dur'[x] = dur[x] /\ ord'[x] = ord[x]
  BY <1>2 DEF IInv, TypeOK
<1>5. state' = HandleStmt(FlushStmt(v), FlushStmt(v), state, manager).state
      /\ manager' =
           HandleStmt(FlushStmt(v), FlushStmt(v), state, manager).manager
  BY DEF ClFlushOpt, Transfer
<1>6. CASE v \in UsedVars
  <2> DEFINE lv == ValueOf(state, v)
  <2>1. /\ state' = Put(state, v, FlushedValue(lv))
        /\ LocatedAt(FlushStmt(v), manager, manager')
    BY <1>5, <1>6, FlushResult
  <2>2. FlushedValue(lv) \in PairLattice
    BY ValueOfInLattice, ValuesInLattice DEF IInv, TypeOK
  <2>3. /\ DOMAIN state \subseteq DOMAIN state'
        /\ \A x \in DOMAIN state' : x \in UsedVars /\ state'[x] \in PairLattice
        /\ state'[v] = FlushedValue(lv)
        /\ \A x \in manager.unitVars : x # v => state'[x] = state[x]
    BY <1>6, <2>1, <2>2, FlushedDomain
  <2>4. ASSUME NEW x \in manager.unitVars
        PROVE  /\ state'[x].type = state[x].type
               /\ Follows(state'[x], ver'[x], pend'[x], dur'[x], ord'[x])
               /\ IsWriteFlush(state'[x]) => IsWriteFlush(state[x])
    <3>1. CASE x = v
      <4>1. state'[x] = FlushedValue(state[x])
        BY <2>3, <3>1, UnitVariable DEF ValueOf
      <4>2. QED
        BY <1>4, <3>1, <4>1, UnitVariable, FlushFollows
    <3>2. CASE x # v
      BY <1>4, <2>3, <3>2, UnitVariable
    <3>3. QED BY <3>1, <3>2
  <2>5. QED
    BY <1>1, <1>2, <1>3, <2>1, <2>3, <2>4, QuietStep
<1>7. CASE v \notin UsedVars
  <2>1. state' = state /\ manager' = manager
    BY <1>5, <1>7, FlushResult
  <2>2. ASSUME NEW x \in manager.unitVars
        PROVE  /\ state'[x].type = state[x].type
               /\ Follows(state'[x], ver'[x], pend'[x], dur'[x], ord'[x])
               /\ IsWriteFlush(state'[x]) => IsWriteFlush(state[x])
    <3>1. x # v
      BY <1>7, UnitVariable
    <3>2. QED
      BY <1>4, <2>1, <3>1, UnitVariable
  <2>3. DOMAIN state \subseteq DOMAIN state'
            /\ \A x \in DOMAIN state' : x \in UsedVars
                /\ state'[x] \in PairLattice
    BY <2>1 DEF IInv, TypeOK
  <2>4. LocatedAt(FlushStmt(v), manager, manager')
    BY <2>1 DEF LocatedAt
  <2>5. QED
    BY <1>1, <1>2, <1>3, <2>1, <2>2, <2>3, <2>4, QuietStep
<1>8. QED
  BY <1>6, <1>7

\* A clflush or flush_range of v
LEMMA FlushFenceStep ==
  ASSUME IInv, NEW v \in Var, FlushFence(v)
  PROVE  IInv' /\ Monitor!MonitorNext
<1>1. FlushFenceStmt(v) # NullStmt
  BY StatementsAreLocations
<1>2. /\ dur' = [dur EXCEPT ![v] = ver[v]] /\ ord' = [ord EXCEPT ![v] = ver[v]]
      /\ ver' = ver /\ pend' = pend /\ racy' = racy
  BY DEF FlushFence, FlushRange
<1>3. MemoryOK'
  BY <1>2 DEF IInv, TypeOK, MemoryOK
<1>4. /\ \A x \in Var : dur'[x] = IF x = v THEN ver[x] ELSE dur[x]
      /\ \A x \in Var : ord'[x] = IF x = v THEN ver[x] ELSE ord[x]
      /\ \A x \in Var : ver'[x] = ver[x] /\ pend'[x] = pend[x]
  BY <1>2 DEF IInv, TypeOK
<1>5. state' =
        HandleStmt(FlushFenceStmt(v), FlushFenceStmt(v), state, manager).state
      /\ manager' =
           HandleStmt(FlushFenceStmt(v), FlushFenceStmt(v), state,
                      manager).manager
  BY DEF FlushFence, Transfer
<1>6. CASE v \in UsedVars
  <2> DEFINE lv == ValueOf(state, v)
  <2>1. /\ state' = Put(state, v, RangedValue(lv))
        /\ LocatedAt(FlushFenceStmt(v), manager, manager')
    BY <1>5, <1>6, FlushResult
  <2>2. RangedValue(lv) \in PairLattice
    BY ValueOfInLattice, ValuesInLattice DEF IInv, TypeOK
  <2>3. /\ DOMAIN state \subseteq DOMAIN state'
        /\ \A x \in DOMAIN state' : x \in UsedVars /\ state'[x] \in PairLattice
        /\ state'[v] = RangedValue(lv)
        /\ \A x \in manager.unitVars : x # v => state'[x] = state[x]
    BY <1>6, <2>1, <2>2, FlushedDomain
  <2>4. ASSUME NEW x \in manager.unitVars
        PROVE  /\ state'[x].type = state[x].type
               /\ Follows(state'[x], ver'[x], pend'[x], dur'[x], ord'[x])
               /\ IsWriteFlush(state'[x]) => IsWriteFlush(state[x])
    <3>1. CASE x = v
      <4>1. state'[x] = RangedValue(state[x])
        BY <2>3, <3>1, UnitVariable DEF ValueOf
      <4>2. QED
        BY <1>4, <3>1, <4>1, UnitVariable, FlushFenceFollows
    <3>2. CASE x # v
      BY <1>4, <2>3, <3>2, UnitVariable
    <3>3. QED BY <3>1, <3>2
  <2>5. QED
    BY <1>1, <1>2, <1>3, <2>1, <2>3, <2>4, QuietStep
<1>7. CASE v \notin UsedVars
  <2>1. state' = state /\ manager' = manager
    BY <1>5, <1>7, FlushResult
  <2>2. ASSUME NEW x \in manager.unitVars
        PROVE  /\ state'[x].type = state[x].type
               /\ Follows(state'[x], ver'[x], pend'[x], dur'[x], ord'[x])
               /\ IsWriteFlush(state'[x]) => IsWriteFlush(state[x])
    <3>1. x # v
      BY <1>7, UnitVariable
    <3>2. QED
      BY <1>4, <2>1, <3>1, UnitVariable
  <2>3. DOMAIN state \subseteq DOMAIN state'
            /\ \A x \in DOMAIN state' : x \in UsedVars
                /\ state'[x] \in PairLattice
    BY <2>1 DEF IInv, TypeOK
  <2>4. LocatedAt(FlushFenceStmt(v), manager, manager')
    BY <2>1 DEF LocatedAt
  <2>5. QED
    BY <1>1, <1>2, <1>3, <2>1, <2>2, <2>3, <2>4, QuietStep
<1>8. QED
  BY <1>6, <1>7

\* A pfence
LEMMA PFenceStep ==
  ASSUME IInv, PFence
  PROVE  IInv' /\ Monitor!MonitorNext
<1>1. /\ dur' = [v \in Var |-> Newer(dur[v], pend[v])] /\ ord' = ver
      /\ ver' = ver /\ pend' = pend /\ racy' = racy
  BY DEF PFence, StoreFence
<1>2. MemoryOK'
  BY <1>1 DEF IInv, TypeOK, MemoryOK, Newer
<1>3. /\ state' = PfencedState(state)
      /\ LocatedAt(PfenceStmt, manager, manager')
  BY FenceResult DEF PFence, Transfer
<1>4. /\ DOMAIN state \subseteq DOMAIN state'
      /\ \A x \in DOMAIN state' : x \in UsedVars /\ state'[x] \in PairLattice
  BY <1>3, ValuesInLattice DEF PfencedState, IInv, TypeOK
<1>5. ASSUME NEW x \in manager.unitVars
      PROVE  /\ state'[x].type = state[x].type
             /\ Follows(state'[x], ver'[x], pend'[x], dur'[x], ord'[x])
             /\ IsWriteFlush(state'[x]) => IsWriteFlush(state[x])
  <2>1. state'[x] = PfencedValue(state[x])
    BY <1>3, UnitVariable DEF PfencedState
  <2>2. dur'[x] = Newer(dur[x], pend[x]) /\ ord'[x] = ver[x]
    BY <1>1, UnitVariable
  <2>3. QED
    BY <1>1, <2>1, <2>2, UnitVariable, PfenceFollows
<1>6. QED
  BY <1>1, <1>2, <1>3, <1>4, <1>5, QuietStep, StatementsAreLocations

\* A vfence
LEMMA VFenceStep ==
  ASSUME IInv, VFence
  PROVE  IInv' /\ Monitor!MonitorNext
<1>1. ord' = ver /\ ver' = ver /\ pend' = pend /\ dur' = dur /\ racy' = racy
  BY DEF VFence, CompilerFence
<1>2. MemoryOK'
  BY <1>1 DEF IInv, TypeOK, MemoryOK
<1>3. /\ state' = VfencedState(state)
      /\ LocatedAt(VfenceStmt, manager, manager')
  BY FenceResult DEF VFence, Transfer
<1>4. /\ DOMAIN state \subseteq DOMAIN state'
      /\ \A x \in DOMAIN state' : x \in UsedVars /\ state'[x] \in PairLattice
  BY <1>3, ValuesInLattice DEF VfencedState, IInv, TypeOK
<1>5. ASSUME NEW x \in manager.unitVars
      PROVE  /\ state'[x].type = state[x].type
             /\ Follows(state'[x], ver'[x], pend'[x], dur'[x], ord'[x])
             /\ IsWriteFlush(state'[x]) => IsWriteFlush(state[x])
  <2>1. state'[x] = VfencedValue(state[x])
    BY <1>3, UnitVariable DEF VfencedState
  <2>2. QED
    BY <1>1, <2>1, UnitVariable, VfenceFollows
<1>6. QED
  BY <1>1, <1>2, <1>3, <1>4, <1>5, QuietStep, StatementsAreLocations

-----------------------------------------------------------------------------
(* The assignment, the only step that reports *)

\* The partners of v that checkBug finds unordered after the write
Hits(v, ns) == {p \in GetPairSet(manager, v) : IsWriteFlush(ns[p])}

\* What an assignment does to the checker, spelled out.
LEMMA AssignEffect ==
  ASSUME IInv, NEW v \in manager.unitVars, Transfer(AssignStmt(v))
  PROVE  /\ DOMAIN state' = DOMAIN state
         /\ state'[v] = GetWrite(state[v])
         /\ \A x \in DOMAIN state : x # v => state'[x] = state[x]
         /\ manager'.unitVars = manager.unitVars
         /\ ManagerShape'
         /\ DOMAIN manager'.lastLocation = DOMAIN manager.lastLocation \cup {v}
         /\ \A x \in DOMAIN manager'.lastLocation :
              manager'.lastLocation[x] # NullStmt
         /\ manager'.bugged = IF v \in manager.bugged \/ Hits(v, state') = {}
                              THEN manager.bugged
                              ELSE manager.bugged \cup {v} \cup Hits(v, state')
         /\ \A b \in manager'.bugs :
              \/ b \in manager.bugs
              \/ \E p \in Hits(v, state') :
                   /\ b.currentVar = v /\ b.pairVar = p
                   /\ b.pairStmt = LastLocation(manager', p)
<1> DEFINE S   == AssignStmt(v)
           ns  == Put(state, v, GetWrite(ValueOf(state, v)))
           m1  == UpdateLastLocation(manager, {v}, S)
<1>1. S # NullStmt
  BY StatementsAreLocations
<1>2. v \in UsedVars /\ v \in DOMAIN state
  BY UnitVariable
<1>3. HandleStmt(S, S, state, manager) = HandleWrite(S, v, state, manager)
  BY <1>2, AssignResult
<1>4. /\ state' = Touch(ns, CheckedVars(manager, v))
      /\ manager' = CheckBug(m1, v, S, ns)
  BY <1>3 DEF Transfer, HandleWrite, Result
<1>5. /\ DOMAIN ns = DOMAIN state
      /\ ns[v] = GetWrite(state[v])
      /\ \A x \in DOMAIN state : x # v => ns[x] = state[x]
      /\ ns = [x \in DOMAIN ns |-> ns[x]]
  BY <1>2 DEF Put, ValueOf
<1>6. CheckedVars(manager, v) \subseteq DOMAIN ns
          /\ GetPairSet(manager, v) \subseteq DOMAIN ns
  BY <1>5 DEF CheckedVars, GetPairSet, IInv, TypeOK
<1> HIDE DEF ns
<1>7. state' = ns
  BY <1>4, <1>5, <1>6 DEF Touch, ValueOf
<1>8. /\ m1.unitVars = manager.unitVars /\ m1.bugged = manager.bugged
      /\ m1.bugs = manager.bugs
      /\ DOMAIN m1.lastLocation = DOMAIN manager.lastLocation \cup {v}
      /\ \A x \in DOMAIN m1.lastLocation : m1.lastLocation[x] # NullStmt
      /\ m1 = [unitVars |-> m1.unitVars, lastLocation |-> m1.lastLocation,
               bugged |-> m1.bugged, bugs |-> m1.bugs]
  BY <1>1 DEF UpdateLastLocation, IInv, ManagerShape, LocationsKept
<1> HIDE DEF m1, S
<1>9. GetPairSet(m1, v) = GetPairSet(manager, v)
  BY <1>8 DEF GetPairSet
<1>10. {p \in GetPairSet(m1, v) : IsWriteFlush(ValueOf(ns, p))} = Hits(v, ns)
  BY <1>6, <1>9 DEF Hits, ValueOf
<1>11. manager' = IF v \in manager.bugged
                  THEN m1 ELSE AddAsBugs(m1, v, S, Hits(v, ns))
  BY <1>4, <1>8, <1>10 DEF CheckBug
<1>12. /\ manager'.unitVars = manager.unitVars
       /\ ManagerShape'
       /\ manager'.lastLocation = m1.lastLocation
       /\ manager'.bugged = IF v \in manager.bugged \/ Hits(v, ns) = {}
                            THEN manager.bugged
                            ELSE manager.bugged \cup {v} \cup Hits(v, ns)
  <2>1. CASE v \in manager.bugged
    BY <1>8, <1>11, <2>1 DEF ManagerShape
  <2>2. CASE v \notin manager.bugged
    BY <1>8, <1>11, <2>2 DEF ManagerShape, AddAsBugs
  <2>3. QED BY <2>1, <2>2
<1>13. ASSUME NEW b \in manager'.bugs, b \notin manager.bugs
       PROVE  \E p \in Hits(v, ns) :
                /\ b.currentVar = v /\ b.pairVar = p
                /\ b.pairStmt = LastLocation(manager', p)
  <2>1. v \notin manager.bugged
    BY <1>8, <1>11, <1>13
  <2>2. PICK p \in Hits(v, ns) :
          b = [bugStmt |-> S, pairStmt |-> LastLocation(m1, p),
               currentVar |-> v, pairVar |-> p]
    BY <1>8, <1>11, <1>13, <2>1 DEF AddAsBugs
  <2>3. /\ b.currentVar = v /\ b.pairVar = p
        /\ b.pairStmt = LastLocation(m1, p)
    BY <2>2
  <2>4. LastLocation(m1, p) = LastLocation(manager', p)
    BY <1>12 DEF LastLocation
  <2>5. QED
    BY <2>3, <2>4
<1>14. QED
  BY <1>5, <1>7, <1>8, <1>12, <1>13

\* An assignment to v
LEMMA AssignStep ==
  ASSUME IInv, NEW v \in Var, Assign(v)
  PROVE  IInv' /\ Monitor!MonitorNext
<1> DEFINE hits == Hits(v, state')
<1>1. v \in manager.unitVars /\ v \in UsedVars /\ v \in DOMAIN state
  BY UnitVariable DEF Assign
<1>2. /\ DOMAIN state' = DOMAIN state
      /\ state'[v] = GetWrite(state[v])
      /\ \A x \in DOMAIN state : x # v => state'[x] = state[x]
      /\ manager'.unitVars = manager.unitVars
      /\ ManagerShape'
      /\ DOMAIN manager'.lastLocation = DOMAIN manager.lastLocation \cup {v}
      /\ \A x \in DOMAIN manager'.lastLocation :
           manager'.lastLocation[x] # NullStmt
      /\ manager'.bugged = IF v \in manager.bugged \/ hits = {}
                           THEN manager.bugged
                           ELSE manager.bugged \cup {v} \cup hits
      /\ \A b \in manager'.bugs :
           \/ b \in manager.bugs
           \/ \E p \in hits : /\ b.currentVar = v /\ b.pairVar = p
                              /\ b.pairStmt = LastLocation(manager', p)
  BY <1>1, AssignEffect DEF Assign
<1>3. /\ ver' = [ver EXCEPT ![v] = @ + 1]
      /\ pend' = pend /\ dur' = dur /\ ord' = ord
      /\ \A r \in racy' :
           \/ r \in racy
           \/ \E PI \in GetPairInfoSet(v) :
                /\ r[1] = v
                /\ GetPairND(PI, v) \in manager.unitVars \ {v}
                /\ ~Ordered(PI, GetPairND(PI, v))
  BY DEF Assign, Store
<1>4. MemoryOK' /\ ver'[v] = ver[v] + 1
          /\ \A x \in Var : x # v => ver'[x] = ver[x]
  BY <1>3 DEF MemoryOK, IInv, TypeOK
<1>5. ASSUME NEW x \in manager.unitVars
      PROVE  /\ state'[x].type = InitOf(x).type
             /\ Follows(state'[x], ver'[x], pend'[x], dur'[x], ord'[x])
             /\ IsWriteFlush(state'[x]) <=> x = v \/ IsWriteFlush(state[x])
             /\ state'[x] \in PairLattice
  <2>1. CASE x = v
    <3>1. Follows(state[v], ver[v], pend[v], dur[v], ord[v])
      BY <1>1, UnitVariable
    <3>2. /\ ver[v] \in Nat /\ pend[v] \in Nat
          /\ dur[v] \in Nat /\ ord[v] \in Nat
      BY DEF IInv, TypeOK
    <3>3. /\ Follows(GetWrite(state[v]), ver[v] + 1, pend[v], dur[v], ord[v])
          /\ GetWrite(state[v]).type = state[v].type
          /\ IsWriteFlush(GetWrite(state[v]))
      BY <3>1, <3>2, WriteFollows
    <3>4. GetWrite(state[v]) \in PairLattice
      BY <3>3 DEF Follows
    <3>5. state[v].type = InitOf(v).type
      BY <1>1, UnitVariable
    <3>6. QED
      BY <1>2, <1>3, <1>4, <2>1, <3>3, <3>4, <3>5
  <2>2. CASE x # v
    BY <1>2, <1>3, <1>4, <2>2, UnitVariable DEF Follows
  <2>3. QED BY <2>1, <2>2
<1>6. hits = {p \in GetPairSet(manager, v) : p = v \/ IsWriteFlush(state[p])}
  BY <1>5 DEF Hits, GetPairSet
<1> HIDE DEF hits
<1>7. hits \subseteq manager.unitVars
  BY <1>6 DEF GetPairSet
<1>8. TypeOK'
  <2>1. \A x \in DOMAIN state' : x \in UsedVars /\ state'[x] \in PairLattice
    BY <1>1, <1>2, <1>5 DEF IInv, TypeOK
  <2>2. manager'.bugged \subseteq manager.unitVars
    BY <1>1, <1>2, <1>7 DEF IInv, TypeOK
  <2>3. QED
    BY <1>2, <1>4, <2>1, <2>2 DEF IInv, TypeOK, MemoryOK
<1>9. ValuesFollow'
  BY <1>2, <1>5 DEF ValuesFollow
<1>10. NoMissedBug'
  <2> SUFFICES ASSUME NEW r \in racy' PROVE r[1] \in manager'.bugged
    BY DEF NoMissedBug
  <2>1. CASE r \in racy
    BY <1>2, <2>1 DEF IInv, NoMissedBug
  <2>2. CASE r \notin racy
    <3>1. PICK PI \in GetPairInfoSet(v) :
            /\ r[1] = v
            /\ GetPairND(PI, v) \in manager.unitVars \ {v}
            /\ ~Ordered(PI, GetPairND(PI, v))
      BY <1>3, <2>2
    <3> DEFINE p == GetPairND(PI, v)
    <3>2. p \in GetPairSet(manager, v) /\ PI \in GetPairInfoSet(p)
      BY <3>1 DEF GetPairSet, GetPairInfoSet, GetPairND
    <3>3. p \in manager.unitVars /\ ~Ordered(PI, p)
      BY <3>1
    <3> HIDE DEF p
    <3>4. IF PI.isScl THEN HasScl(state[p]) ELSE HasDcl(state[p])
      BY <3>2, <3>3, UnitVariable, UsedVarHasType DEF HasScl, HasDcl
    <3>5. IsWriteFlush(state[p])
      BY <3>3, <3>4, UnitVariable DEF Ordered, Follows, IsWriteFlush
    <3>6. hits # {}
      BY <1>6, <3>2, <3>5
    <3>7. QED
      BY <1>2, <3>1, <3>6
  <2>3. QED BY <2>1, <2>2
<1>11. LocationsKept'
  BY <1>2, <1>5 DEF IInv, LocationsKept
<1>12. LastLocationKnown'
  <2> SUFFICES ASSUME NEW b \in manager'.bugs PROVE b.pairStmt # NullStmt
    BY DEF LastLocationKnown
  <2>1. CASE b \in manager.bugs
    BY <2>1 DEF IInv, LastLocationKnown
  <2>2. CASE b \notin manager.bugs
    <3>1. PICK p \in hits : b.pairStmt = LastLocation(manager', p)
      BY <1>2, <2>2
    <3>2. p \in DOMAIN manager'.lastLocation
      BY <1>2, <1>6, <1>7 DEF IInv, LocationsKept
    <3>3. QED
      BY <1>2, <3>1, <3>2 DEF LastLocation
  <2>3. QED BY <2>1, <2>2
<1>13. Monitor!Write(v)
  <2> DEFINE unordered == {x \in manager.unitVars : IsWriteFlush(state[x])}
  <2>1. {x \in manager.unitVars : IsWriteFlush(state'[x])} = unordered \cup {v}
    BY <1>1, <1>5
  <2>2. Monitor!Partners(v) = GetPairSet(manager, v)
    BY DEF Monitor!Partners, GetPairSet, Monitor!GetPairND,
           Monitor!GetPairInfoSet, GetPairND, GetPairInfoSet
  <2>3. Monitor!Partners(v) \cap (unordered \cup {v}) = hits
    BY <1>6, <2>2 DEF GetPairSet
  <2>4. QED
    BY <1>2, <2>1, <2>3 DEF Monitor!Write
<1>14. QED
  BY <1>1, <1>2, <1>8, <1>9, <1>10, <1>11, <1>12, <1>13 DEF IInv,
       Monitor!MonitorNext

-----------------------------------------------------------------------------
(* The theorems *)

\* A step that changes nothing keeps the invariant.
LEMMA StutterStep ==
  ASSUME IInv, UNCHANGED vars
  PROVE  IInv' /\ UNCHANGED Monitor!monitorVars
<1>1. UNCHANGED Monitor!monitorVars
  BY DEF vars, Monitor!monitorVars
<1>2. TypeOK' /\ ManagerShape'
  BY DEF vars, IInv, TypeOK, ManagerShape
<1>3. ValuesFollow'
  BY DEF vars, IInv, ValuesFollow
<1>4. NoMissedBug' /\ LastLocationKnown'
  BY DEF vars, IInv, NoMissedBug, LastLocationKnown
<1>5. LocationsKept'
  BY DEF vars, IInv, LocationsKept
<1>6. QED
  BY <1>1, <1>2, <1>3, <1>4, <1>5 DEF IInv

\* Every step keeps the invariant and is a step of the monitor.
LEMMA StepKeepsIInv ==
  IInv /\ [Next]_vars => IInv' /\ [Monitor!MonitorNext]_(Monitor!monitorVars)
<1> SUFFICES ASSUME IInv, [Next]_vars
             PROVE  IInv' /\ [Monitor!MonitorNext]_(Monitor!monitorVars)
  OBVIOUS
<1>1. ASSUME NEW v \in Var, Assign(v)
      PROVE  IInv' /\ Monitor!MonitorNext
  BY <1>1, AssignStep
<1>2. ASSUME NEW v \in Var, ClFlushOpt(v)
      PROVE  IInv' /\ Monitor!MonitorNext
  BY <1>2, ClFlushOptStep
<1>3. ASSUME NEW v \in Var, FlushFence(v)
      PROVE  IInv' /\ Monitor!MonitorNext
  BY <1>3, FlushFenceStep
<1>4. CASE PFence
  BY <1>4, PFenceStep
<1>5. CASE VFence
  BY <1>5, VFenceStep
<1>6. CASE UNCHANGED vars
  BY <1>6, StutterStep
<1>7. QED
  BY <1>1, <1>2, <1>3, <1>4, <1>5, <1>6 DEF Next

\* The invariant of the checker beside its memory holds in every state.
THEOREM Invariance == Spec => []IInv
<1>1. Init => IInv
  BY InitEstablishesIInv
<1>2. IInv /\ [Next]_vars => IInv'
  BY StepKeepsIInv
<1>3. QED
  BY <1>1, <1>2, PTL DEF Spec

\* The tables of the transfer functions and of the bug reporter keep their
\* types.
THEOREM TypeCorrect == Spec => []TypeOK
<1>1. IInv => TypeOK
  BY DEF IInv
<1>2. QED
  BY <1>1, Invariance, PTL

\* However the statements of a path follow each other, getWrite, getFlush and
\* getPfence leave a variable's durability exact.
THEOREM DurabilityCorrect == Spec => []DurabilityExact
<1>1. IInv => DurabilityExact
  BY IInvImpliesExact
<1>2. QED
  BY <1>1, Invariance, PTL

\* getWrite and getVfence leave the order of a variable's writes exact.
THEOREM OrderCorrect == Spec => []OrderExact
<1>1. IInv => OrderExact
  BY IInvImpliesExact
<1>2. QED
  BY <1>1, Invariance, PTL

\* checkBug reports every variable that is written before a partner of it is
\* ordered as their pair asks.
THEOREM NothingMissed == Spec => []NoMissedBug
<1>1. IInv => NoMissedBug
  BY DEF IInv
<1>2. QED
  BY <1>1, Invariance, PTL

\* The assertion in checkBug never fails on a path: the partner it reports has
\* a last location.
THEOREM LocationsKnown == Spec => []LastLocationKnown
<1>1. IInv => LastLocationKnown
  BY DEF IInv
<1>2. QED
  BY <1>1, Invariance, PTL

\* The checker on a path implements the monitor.
THEOREM Refinement == Spec => ImplementsMonitor
<1>1. Init => Monitor!MonitorInit
  BY InitEstablishesIInv
<1>2. IInv /\ [Next]_vars => [Monitor!MonitorNext]_(Monitor!monitorVars)
  BY StepKeepsIInv
<1>3. QED
  BY <1>1, <1>2, Invariance, PTL DEF Spec, ImplementsMonitor,
       Monitor!MonitorSpec

-----------------------------------------------------------------------------
(* Reports are real.  This needs one fact more than the invariant: no      *)
(* variable is its own partner, as each of its writes would be reported.   *)

TwoVariables == \A PI \in Pairs : PI.data # PI.check

\* Flushes and fences report nothing.
LEMMA QuietReports ==
  ASSUME IInv, NEW S, LocatedAt(S, manager, manager')
  PROVE  manager'.bugs = manager.bugs
<1>1. CASE manager' = manager
  BY <1>1
<1>2. CASE manager' # manager
  <2>1. PICK X : manager' = UpdateLastLocation(manager, X, S)
    BY <1>2 DEF LocatedAt
  <2>2. QED
    BY <2>1 DEF IInv, ManagerShape, UpdateLastLocation
<1>3. QED BY <1>1, <1>2

\* In a pair of two variables a partner with partners on one kind of line only
\* is found unordered exactly when the pair's order is missing.
LEMMA HitIsUnordered ==
  ASSUME IInv, TwoVariables, NEW v \in manager.unitVars,
         NEW p \in GetPairSet(manager, v), IsWriteFlush(state[p]),
         ~OnBothLines(p)
  PROVE  \E PI \in GetPairInfoSet(v) :
           /\ GetPairND(PI, v) = p /\ p \in manager.unitVars \ {v}
           /\ ~Ordered(PI, p)
<1>1. PICK PI \in GetPairInfoSet(v) : GetPairND(PI, v) = p
  BY DEF GetPairSet
<1>2. p \in manager.unitVars /\ p # v /\ PI \in GetPairInfoSet(p)
  BY <1>1 DEF GetPairSet, GetPairInfoSet, GetPairND, TwoVariables
<1>3. state[p].type = IF PI.isScl THEN "SclType" ELSE "DclType"
  <2>1. state[p].type = InitOf(p).type
    BY <1>2, UnitVariable
  <2>2. /\ GetDsclInfo(p).isDcl \in BOOLEAN /\ GetDsclInfo(p).isScl \in BOOLEAN
        /\ IF PI.isScl THEN GetDsclInfo(p).isScl ELSE GetDsclInfo(p).isDcl
    BY <1>2 DEF GetDsclInfo
  <2>3. ~(GetDsclInfo(p).isDcl /\ GetDsclInfo(p).isScl)
    BY DEF OnBothLines
  <2> DEFINE isDcl == GetDsclInfo(p).isDcl
             isScl == GetDsclInfo(p).isScl
  <2> HIDE DEF isDcl, isScl
  <2>4. /\ isDcl /\ ~isScl => GetInit(isDcl, isScl) = OfType("DclType")
        /\ ~isDcl /\ isScl => GetInit(isDcl, isScl) = OfType("SclType")
    BY DEF GetInit
  <2>5. OfType("DclType").type = "DclType" /\ OfType("SclType").type = "SclType"
    BY UnseenFollows DEF LatticeType
  <2>6. QED
    BY <2>1, <2>2, <2>3, <2>4, <2>5 DEF InitOf, isDcl, isScl
<1>4. Follows(state[p], ver[p], pend[p], dur[p], ord[p])
  BY <1>2, UnitVariable
<1>5. ver[p] \in Nat /\ dur[p] \in Nat /\ ord[p] \in Nat
  BY <1>2, UnitVariable
<1>6. ~Ordered(PI, p)
  <2>1. CASE PI.isScl
    BY <1>3, <1>4, <1>5, <2>1 DEF Ordered, Follows, HasScl, IsWriteFlush,
         UnseenDcl, WriteDcl, Flush
  <2>2. CASE ~PI.isScl
    BY <1>3, <1>4, <1>5, <2>2 DEF Ordered, Follows, HasDcl, IsWriteFlush
  <2>3. QED BY <2>1, <2>2
<1>7. QED
  BY <1>1, <1>2, <1>6

\* What an assignment reports is real.
LEMMA AssignReports ==
  ASSUME IInv, TwoVariables, NoFalseBug, NEW v \in Var, Assign(v)
  PROVE  NoFalseBug'
<1> SUFFICES ASSUME NEW b \in manager'.bugs
             PROVE  \/ <<b.currentVar, b.pairVar>> \in racy'
                    \/ OnBothLines(b.pairVar)
  BY DEF NoFalseBug, OnBothLines
<1>1. v \in manager.unitVars
  BY DEF Assign
<1>2. racy' = racy \cup
        {<<v, GetPairND(PI, v)>> : PI \in
           {I \in GetPairInfoSet(v) :
              /\ GetPairND(I, v) \in manager.unitVars \ {v}
              /\ ~Ordered(I, GetPairND(I, v))}}
  BY DEF Assign, Store
<1>3. CASE b \in manager.bugs
  BY <1>2, <1>3 DEF NoFalseBug
<1>4. CASE b \notin manager.bugs
  <2>0. Transfer(AssignStmt(v))
    BY DEF Assign
  <2>1. PICK p \in Hits(v, state') : b.currentVar = v /\ b.pairVar = p
    <3>1. \A c \in manager'.bugs :
            \/ c \in manager.bugs
            \/ \E p \in Hits(v, state') :
                 /\ c.currentVar = v /\ c.pairVar = p
                 /\ c.pairStmt = LastLocation(manager', p)
      BY <1>1, <2>0, AssignEffect
    <3>2. QED
      BY <1>4, <3>1
  <2>2. p \in GetPairSet(manager, v) /\ p \in manager.unitVars
    BY <2>1 DEF Hits, GetPairSet
  <2>3. p # v
    BY <2>2 DEF GetPairSet, GetPairInfoSet, GetPairND, TwoVariables
  <2>4. state'[p] = state[p]
    BY <1>1, <2>0, <2>2, <2>3, AssignEffect, UnitVariable
  <2>5. IsWriteFlush(state[p])
    BY <2>1, <2>4 DEF Hits
  <2>6. CASE OnBothLines(p)
    BY <2>1, <2>6
  <2>7. CASE ~OnBothLines(p)
    <3>1. PICK PI \in GetPairInfoSet(v) :
            /\ GetPairND(PI, v) = p /\ p \in manager.unitVars \ {v}
            /\ ~Ordered(PI, p)
      BY <1>1, <2>2, <2>5, <2>7, HitIsUnordered
    <3>2. <<v, p>> \in racy'
      BY <1>2, <3>1
    <3>3. QED
      BY <2>1, <3>2
  <2>8. QED BY <2>6, <2>7
<1>5. QED BY <1>3, <1>4

\* No step makes a report that is not real.
LEMMA StepKeepsReports ==
  ASSUME IInv, TwoVariables, NoFalseBug, [Next]_vars
  PROVE  NoFalseBug'
<1>1. ASSUME manager'.bugs = manager.bugs, racy' = racy
      PROVE  NoFalseBug'
  BY <1>1 DEF NoFalseBug, OnBothLines
<1>2. ASSUME NEW v \in Var, Assign(v)
      PROVE  NoFalseBug'
  BY <1>2, AssignReports
<1>3. ASSUME NEW v \in Var, ClFlushOpt(v) \/ FlushFence(v)
      PROVE  NoFalseBug'
  <2>1. racy' = racy
    BY <1>3 DEF ClFlushOpt, FlushFence, FlushOpt, FlushRange
  <2>2. \E S : LocatedAt(S, manager, manager')
    BY <1>3, FlushResult DEF ClFlushOpt, FlushFence, Transfer, LocatedAt
  <2>3. QED
    BY <1>1, <2>1, <2>2, QuietReports
<1>4. CASE PFence \/ VFence
  <2>1. racy' = racy
    BY <1>4 DEF PFence, VFence, StoreFence, CompilerFence
  <2>2. \E S : LocatedAt(S, manager, manager')
    BY <1>4, FenceResult DEF PFence, VFence, Transfer
  <2>3. QED
    BY <1>1, <2>1, <2>2, QuietReports
<1>5. CASE UNCHANGED vars
  BY <1>1, <1>5 DEF vars
<1>6. QED
  BY <1>2, <1>3, <1>4, <1>5 DEF Next

\* Every report names a pair in which one variable really was written before
\* the other was ordered (checkBug), but for partners on both kinds of line.
THEOREM ReportsTrue ==
  ASSUME TwoVariables
  PROVE  Spec => []NoFalseBug
<1>1. Init => NoFalseBug
  BY DEF Init, InitUnit, NoFalseBug
<1>2. IInv /\ NoFalseBug /\ [Next]_vars => NoFalseBug'
  BY TwoVariables, StepKeepsReports
<1>3. QED
  BY <1>1, <1>2, Invariance, PTL DEF Spec

-----------------------------------------------------------------------------
(* The notes of the reports *)

\* An unordered variable with partners on one kind of line was last located
\* at an assignment or at a clflushopt of it.
LocationsLead ==
  \A p \in manager.unitVars :
    IsWriteFlush(state[p]) /\ ~OnBothLines(p) =>
      LastLocation(manager, p) \in {AssignStmt(p), FlushStmt(p)}

\* ... and so were the partners in the reports.
NotesLead ==
  \A b \in manager.bugs :
    \/ b.pairStmt \in {AssignStmt(b.pairVar), FlushStmt(b.pairVar)}
    \/ OnBothLines(b.pairVar)

NoteInv == LocationsLead /\ NotesLead

LEMMA NotesLeadToPair ==
  NotesLead => NoteLeadsToPair
<1> SUFFICES ASSUME NotesLead, NEW b \in manager.bugs, ~OnBothLines(b.pairVar)
             PROVE  /\ b.pairStmt # NullStmt
                    /\ b.pairStmt.op \in {"assign", "flush"}
                    /\ b.pairStmt.var = b.pairVar
  BY DEF NoteLeadsToPair
<1>1. b.pairStmt \in {AssignStmt(b.pairVar), FlushStmt(b.pairVar)}
  BY DEF NotesLead
<1>2. /\ AssignStmt(b.pairVar).op = "assign"
      /\ AssignStmt(b.pairVar).var = b.pairVar
      /\ FlushStmt(b.pairVar).op = "flush"
      /\ FlushStmt(b.pairVar).var = b.pairVar
  BY DEF AssignStmt, FlushStmt
<1>3. QED
  BY <1>1, <1>2, StatementsAreLocations

-----------------------------------------------------------------------------
(* Values of one kind *)

\* A unit's variable with partners on one kind of line has one part only.
LEMMA OneKind ==
  ASSUME IInv, NEW p \in manager.unitVars, ~OnBothLines(p)
  PROVE  state[p].type \in {"DclType", "SclType"}
<1> DEFINE isDcl == GetDsclInfo(p).isDcl
           isScl == GetDsclInfo(p).isScl
<1>1. /\ isDcl \in BOOLEAN /\ isScl \in BOOLEAN
      /\ ~(isDcl /\ isScl)
  BY DEF GetDsclInfo, OnBothLines
<1>2. isDcl \/ isScl
  <2>1. PICK PI \in Pairs : p \in {PI.data, PI.check}
    BY UnitVariable DEF UsedVars
  <2>2. PI \in GetPairInfoSet(p)
    BY <2>1 DEF GetPairInfoSet
  <2>3. QED
    BY <2>2 DEF GetDsclInfo
<1>3. state[p].type = GetInit(isDcl, isScl).type
  BY UnitVariable DEF InitOf
<1> HIDE DEF isDcl, isScl
<1>4. /\ isDcl /\ ~isScl => GetInit(isDcl, isScl) = OfType("DclType")
      /\ ~isDcl /\ isScl => GetInit(isDcl, isScl) = OfType("SclType")
  BY DEF GetInit
<1>5. OfType("DclType").type = "DclType" /\ OfType("SclType").type = "SclType"
  BY UnseenFollows DEF LatticeType
<1>6. QED
  BY <1>1, <1>2, <1>3, <1>4, <1>5

\* A clflush of a variable leaves it ordered.
LEMMA RangedIsOrdered ==
  ASSUME NEW lv, NEW ve \in Nat, NEW pe \in Nat, NEW du \in Nat, NEW or \in Nat,
         Follows(lv, ve, pe, du, or), lv.type \in {"DclType", "SclType"}
  PROVE  ~IsWriteFlush(RangedValue(lv))
BY DEF RangedValue, Follows, FlushFenceValue, FlushValue, GetPfence, GetFlush,
       GetVfence, PairLattice, LatticeType, Dcl, Scl, HasDcl, HasScl,
       IsWriteDcl, IsWriteFlushDcl, UnseenDcl, UnseenScl, WriteDcl, WriteScl,
       Flush, Pfence, Vfence, IsWriteFlush

\* A fence changes only values that it leaves ordered.
LEMMA FencedIsOrdered ==
  ASSUME NEW isPfence \in BOOLEAN, NEW lv,
         NEW ve \in Nat, NEW pe \in Nat, NEW du \in Nat, NEW or \in Nat,
         Follows(lv, ve, pe, du, or), lv.type \in {"DclType", "SclType"},
         IsWriteFlush(FenceValue(isPfence, lv))
  PROVE  /\ ~PfenceApplies(isPfence, lv)
         /\ ~VfenceApplies(PfenceValue(isPfence, lv))
         /\ IsWriteFlush(lv)
BY DEF FenceValue, PfenceValue, PfenceApplies, VfenceApplies, Follows,
       GetPfence, GetVfence, PairLattice, LatticeType, Dcl, Scl, HasDcl, HasScl,
       IsWrite, IsFlush, UnseenDcl, UnseenScl, WriteDcl, WriteScl, Flush,
       Pfence, Vfence, IsWriteFlush

-----------------------------------------------------------------------------
(* Locations after a step *)

\* Updating the locations of X moves these and no others.
LEMMA Relocated ==
  ASSUME NEW m, NEW X, NEW S, NEW x,
         m = [unitVars |-> m.unitVars, lastLocation |-> m.lastLocation,
              bugged |-> m.bugged, bugs |-> m.bugs]
  PROVE  LET new == UpdateLastLocation(m, X, S)
         IN  /\ LastLocation(new, x) = IF x \in X THEN S ELSE LastLocation(m, x)
             /\ new.unitVars = m.unitVars /\ new.bugs = m.bugs
<1> DEFINE new == UpdateLastLocation(m, X, S)
<1>1. /\ new.lastLocation = [v \in DOMAIN m.lastLocation \cup X |->
                               IF v \in X THEN S ELSE m.lastLocation[v]]
      /\ new.unitVars = m.unitVars /\ new.bugs = m.bugs
  BY DEF UpdateLastLocation
<1>2. QED
  BY <1>1 DEF LastLocation

\* A step that reports nothing keeps the notes.
LEMMA QuietNotes ==
  ASSUME NoteInv, manager'.bugs = manager.bugs
  PROVE  NotesLead'
BY DEF NoteInv, NotesLead, OnBothLines

\* An assignment to v is its new location, and leads the notes of its reports.
LEMMA AssignNotes ==
  ASSUME IInv, NoteInv, NEW v \in Var, Assign(v)
  PROVE  NoteInv'
<1> DEFINE S == AssignStmt(v)
<1>1. v \in manager.unitVars /\ v \in UsedVars /\ Transfer(S)
  BY UnitVariable DEF Assign
<1>2. /\ DOMAIN state' = DOMAIN state
      /\ \A x \in DOMAIN state : x # v => state'[x] = state[x]
      /\ manager'.unitVars = manager.unitVars
      /\ \A b \in manager'.bugs :
           \/ b \in manager.bugs
           \/ \E p \in Hits(v, state') :
                /\ b.currentVar = v /\ b.pairVar = p
                /\ b.pairStmt = LastLocation(manager', p)
  BY <1>1, AssignEffect
<1>3. \A x : LastLocation(manager', x)
               = IF x = v THEN S ELSE LastLocation(manager, x)
  <2> DEFINE m1 == UpdateLastLocation(manager, {v}, S)
             ns == Put(state, v, GetWrite(ValueOf(state, v)))
  <2>1. manager' = CheckBug(m1, v, S, ns)
    BY <1>1, AssignResult DEF Transfer, HandleWrite, Result
  <2>2. manager'.lastLocation = m1.lastLocation
    <3> HIDE DEF m1, ns
    <3>1. QED
      BY <2>1 DEF CheckBug, AddAsBugs
  <2>3. \A x : LastLocation(m1, x)
                 = IF x \in {v} THEN S ELSE LastLocation(manager, x)
    BY Relocated DEF IInv, ManagerShape
  <2>4. QED
    BY <2>2, <2>3 DEF LastLocation
<1>4. LocationsLead'
  BY <1>1, <1>2, <1>3, UnitVariable DEF NoteInv, LocationsLead, OnBothLines
<1>5. NotesLead'
  <2> SUFFICES ASSUME NEW b \in manager'.bugs
               PROVE  \/ b.pairStmt \in {AssignStmt(b.pairVar),
                                         FlushStmt(b.pairVar)}
                      \/ OnBothLines(b.pairVar)
    BY DEF NotesLead, OnBothLines
  <2>1. CASE b \in manager.bugs
    BY <2>1 DEF NoteInv, NotesLead
  <2>2. CASE b \notin manager.bugs
    <3>1. PICK p \in Hits(v, state') :
            b.pairVar = p /\ b.pairStmt = LastLocation(manager', p)
      BY <1>2, <2>2
    <3>2. p \in manager'.unitVars /\ IsWriteFlush(state'[p])
      BY <1>2, <3>1 DEF Hits, GetPairSet
    <3>3. QED
      BY <1>4, <3>1, <3>2 DEF LocationsLead, OnBothLines
  <2>3. QED BY <2>1, <2>2
<1>6. QED
  BY <1>4, <1>5 DEF NoteInv

\* A flush of v: either it changes v, and is its new location, or neither.
LEMMA FlushNotes ==
  ASSUME IInv, NoteInv, NEW v \in Var, ClFlushOpt(v) \/ FlushFence(v)
  PROVE  NoteInv'
<1> DEFINE lv == ValueOf(state, v)
<1>0. PICK s \in {FlushStmt(v), FlushFenceStmt(v)} :
        /\ Transfer(s)
        /\ s = FlushFenceStmt(v) <=> IsPfence(s)
  BY DEF ClFlushOpt, FlushFence, FlushStmt, FlushFenceStmt, IsPfence
<1> DEFINE isP     == IsPfence(s)
           changed == isP \/ (HasDcl(lv) /\ IsWriteDcl(lv))
<1>1. s.var = v /\ s.op \in {"flush", "flushFence"}
  BY <1>0 DEF FlushStmt, FlushFenceStmt
<1>2. CASE v \notin UsedVars
  <2>1. state' = state /\ manager' = manager
    BY <1>0, <1>2, FlushResult DEF Transfer
  <2>2. QED
    BY <2>1 DEF NoteInv, LocationsLead, NotesLead, OnBothLines
<1>3. CASE v \in UsedVars
  <2>1. HandleStmt(s, s, state, manager) = HandleFlush(s, isP, v, state, manager)
    BY <1>1, <1>3 DEF HandleStmt, IsUsedStmt, VarOps, FenceOps
  <2>2. /\ state' = Put(state, v, FlushFenceValue(isP, lv))
        /\ manager' = IF changed THEN UpdateLastLocation(manager, {v}, s)
                                 ELSE manager
    BY <1>0, <2>1 DEF Transfer, HandleFlush, Result
  <2>3. /\ manager'.unitVars = manager.unitVars
        /\ manager'.bugs = manager.bugs
        /\ \A x : LastLocation(manager', x) =
                    IF changed /\ x = v THEN s ELSE LastLocation(manager, x)
    <3> HIDE DEF changed
    <3>1. CASE changed
      BY <2>2, <3>1, Relocated DEF IInv, ManagerShape
    <3>2. CASE ~changed
      BY <2>2, <3>2
    <3>3. QED BY <3>1, <3>2
  <2>4. LocationsLead'
    <3> SUFFICES ASSUME NEW p \in manager.unitVars,
                        IsWriteFlush(state'[p]), ~OnBothLines(p)
                 PROVE  LastLocation(manager', p)
                          \in {AssignStmt(p), FlushStmt(p)}
      BY <2>3 DEF LocationsLead, OnBothLines
    <3>1. CASE p # v
      <4>1. state'[p] = state[p]
        BY <2>2, <3>1, UnitVariable DEF Put
      <4>2. QED
        BY <2>3, <3>1, <4>1 DEF NoteInv, LocationsLead
    <3>2. CASE p = v
      <4>1. lv = state[v] /\ state'[v] = FlushFenceValue(isP, lv)
        BY <2>2, <3>2, UnitVariable DEF Put, ValueOf
      <4>2. /\ Follows(lv, ver[v], pend[v], dur[v], ord[v])
            /\ ver[v] \in Nat /\ pend[v] \in Nat /\ dur[v] \in Nat
            /\ ord[v] \in Nat
        BY <3>2, <4>1, UnitVariable
      <4>3. lv.type \in {"DclType", "SclType"}
        BY <3>2, <4>1, OneKind
      <4> HIDE DEF lv
      <4>4. isP \in BOOLEAN
        BY DEF IsPfence
      <4>5. ~isP
        <5> SUFFICES ASSUME isP PROVE FALSE
          OBVIOUS
        <5>1. FlushFenceValue(isP, lv) = RangedValue(lv)
          BY DEF RangedValue, FlushFenceValue, FlushValue
        <5>2. ~IsWriteFlush(RangedValue(lv))
          BY <4>2, <4>3, RangedIsOrdered
        <5>3. QED
          BY <3>2, <4>1, <5>1, <5>2
      <4>6. s = FlushStmt(v)
        BY <1>0, <4>5
      <4>7. FlushFenceValue(isP, lv) = FlushedValue(lv)
        BY <4>5 DEF FlushedValue, FlushFenceValue, FlushValue
      <4>8. IsWriteFlush(lv)
        BY <3>2, <4>1, <4>2, <4>7, FlushFollows
      <4>9. LastLocation(manager, v) \in {AssignStmt(v), FlushStmt(v)}
        BY <3>2, <4>1, <4>8 DEF NoteInv, LocationsLead
      <4>10. QED
        BY <2>3, <3>2, <4>6, <4>9
    <3>3. QED BY <3>1, <3>2
  <2>5. QED
    BY <2>3, <2>4, QuietNotes DEF NoteInv
<1>4. QED BY <1>2, <1>3

\* A fence is the new location of what it orders, and of nothing else.
LEMMA FenceNotes ==
  ASSUME IInv, NoteInv, PFence \/ VFence
  PROVE  NoteInv'
<1>0. PICK s \in {PfenceStmt, VfenceStmt} : Transfer(s)
  BY DEF PFence, VFence
<1> DEFINE isP    == IsPfence(s)
           fenced == {v \in DOMAIN state :
                        \/ PfenceApplies(isP, state[v])
                        \/ VfenceApplies(PfenceValue(isP, state[v]))}
<1>1. s.op \in FenceOps /\ isP \in BOOLEAN
  BY <1>0 DEF PfenceStmt, VfenceStmt, FenceOps, IsPfence
<1>2. HandleStmt(s, s, state, manager) = HandleFence(s, isP, state, manager)
  BY <1>1 DEF HandleStmt, IsUsedStmt, FenceOps
<1>3. /\ state' = [v \in DOMAIN state |-> FenceValue(isP, state[v])]
      /\ manager' = UpdateLastLocation(manager, fenced, s)
  BY <1>0, <1>2 DEF Transfer, HandleFence, Result
<1>4. /\ manager'.unitVars = manager.unitVars
      /\ manager'.bugs = manager.bugs
      /\ \A x : LastLocation(manager', x) =
                  IF x \in fenced THEN s ELSE LastLocation(manager, x)
  <2> HIDE DEF fenced
  <2>1. QED
    BY <1>3, Relocated DEF IInv, ManagerShape
<1>5. LocationsLead'
  <2> SUFFICES ASSUME NEW p \in manager.unitVars,
                      IsWriteFlush(state'[p]), ~OnBothLines(p)
               PROVE  LastLocation(manager', p) \in {AssignStmt(p), FlushStmt(p)}
    BY <1>4 DEF LocationsLead, OnBothLines
  <2>1. state'[p] = FenceValue(isP, state[p])
    BY <1>3, UnitVariable
  <2>2. /\ ~PfenceApplies(isP, state[p])
        /\ ~VfenceApplies(PfenceValue(isP, state[p]))
        /\ IsWriteFlush(state[p])
    <3> HIDE DEF isP
    <3>1. QED
      BY <1>1, <2>1, FencedIsOrdered, OneKind, UnitVariable
  <2>3. p \notin fenced
    BY <2>2
  <2>4. QED
    BY <1>4, <2>2, <2>3 DEF NoteInv, LocationsLead
<1>6. QED
  BY <1>4, <1>5, QuietNotes DEF NoteInv

-----------------------------------------------------------------------------
(* The theorem *)

LEMMA StepKeepsNotes ==
  IInv /\ NoteInv /\ [Next]_vars => NoteInv'
<1> SUFFICES ASSUME IInv, NoteInv, [Next]_vars PROVE NoteInv'
  OBVIOUS
<1>1. ASSUME NEW v \in Var, Assign(v) PROVE NoteInv'
  BY <1>1, AssignNotes
<1>2. ASSUME NEW v \in Var, ClFlushOpt(v) \/ FlushFence(v) PROVE NoteInv'
  BY <1>2, FlushNotes
<1>3. CASE PFence \/ VFence
  BY <1>3, FenceNotes
<1>4. CASE UNCHANGED vars
  BY <1>4 DEF vars, NoteInv, LocationsLead, NotesLead, OnBothLines
<1>5. QED
  BY <1>1, <1>2, <1>3, <1>4 DEF Next

\* Every note of a report is of the last assignment or clflushopt of the
\* partner (updateLastLocation, addAsBug), but for partners on both kinds of
\* line, whose location a fence takes over though it leaves them unordered.
THEOREM NotesTrue == Spec => []NoteLeadsToPair
<1>1. Init => NoteInv
  <2> SUFFICES ASSUME Init PROVE NoteInv
    OBVIOUS
  <2>1. PICK unitVars \in SUBSET UsedVars : manager = InitUnit(unitVars, {})
    BY DEF Init
  <2>2. manager.unitVars = unitVars /\ manager.bugs = {}
    BY <2>1 DEF InitUnit
  <2>3. ASSUME NEW p \in manager.unitVars
        PROVE  ~IsWriteFlush(state[p])
    <3>1. state[p] = InitOf(p)
      BY DEF Init, InitLatticeValues, InitOf
    <3>2. p \in UsedVars
      BY <2>2
    <3>3. InitOf(p) = OfType(InitOf(p).type) /\ InitOf(p).type \in LatticeType
      BY <3>2, UsedVarHasType
    <3> HIDE DEF InitOf
    <3>4. QED
      BY <3>1, <3>3, UnseenFollows
  <2>4. QED
    BY <2>2, <2>3 DEF NoteInv, LocationsLead, NotesLead
<1>2. IInv /\ NoteInv /\ [Next]_vars => NoteInv'
  BY StepKeepsNotes
<1>3. NoteInv => NoteLeadsToPair
  BY NotesLeadToPair DEF NoteInv
<1>4. QED
  BY <1>1, <1>2, <1>3, Invariance, PTL DEF Spec
=============================================================================
