---------------------------- MODULE PairLattice ----------------------------
(***************************************************************************)
(* The lattice of the pair checker (lib/pairchecker/analyzer/PairLattice.h)*)
(*                                                                         *)
(* A value has two components.  dcl is the durability of a variable that   *)
(* lies on a different cache line from its partner, scl its ordering when  *)
(* both lie on the same line.  The C++ enumerations are ordered and the    *)
(* meet takes the smaller member, so they are kept as numbers.             *)
(***************************************************************************)
EXTENDS Naturals

\* enum Dcl { WriteDcl, Flush, Pfence, UnseenDcl }
WriteDcl  == 0
Flush     == 1
Pfence    == 2
UnseenDcl == 3

\* enum Scl { WriteScl, Vfence, UnseenScl }
WriteScl  == 0
Vfence    == 1
UnseenScl == 2

Dcl == WriteDcl .. UnseenDcl
Scl == WriteScl .. UnseenScl

\* The types an initialised value may have; None is the default constructor's.
LatticeType == {"DclType", "SclType", "BothType"}

PairLattice == [type : LatticeType \cup {"None"}, dcl : Dcl, scl : Scl]

\* PairLattice(): what std::map::operator[] inserts for a missing variable.
DefaultValue == [type |-> "None", dcl |-> UnseenDcl, scl |-> UnseenScl]

\* The outcome of an assert(type < None) that fails: the process aborts.
AssertFailed == [type |-> "AssertFailed", dcl |-> UnseenDcl, scl |-> UnseenScl]

\* PairLattice(LatticeType)
OfType(type) ==
  IF type \in LatticeType
  THEN [type |-> type, dcl |-> UnseenDcl, scl |-> UnseenScl]
  ELSE AssertFailed

\* The assertion at the start of dump()
DumpAsserts(val) == val.type = "None"

GetInit(isDcl, isScl) ==
  OfType(CASE isDcl /\ isScl  -> "BothType"
           [] isDcl /\ ~isScl -> "DclType"
           [] ~isDcl /\ isScl -> "SclType"
           [] OTHER           -> "None")

\* A write that leaves the scl part alone.
GetWriteNoScl(val) ==
  [val EXCEPT !.dcl = IF val.type # "SclType" THEN WriteDcl ELSE @]

GetWrite(val) ==
  [type |-> val.type,
   dcl  |-> IF val.type # "SclType" THEN WriteDcl ELSE val.dcl,
   scl  |-> IF val.type # "DclType" THEN WriteScl ELSE val.scl]

GetFlush(val)  == [val EXCEPT !.dcl = Flush]
GetPfence(val) == [val EXCEPT !.dcl = Pfence]
GetVfence(val) == [val EXCEPT !.scl = Vfence]

Lower(a, b) == IF a < b THEN a ELSE b

\* The component-wise meet, on the components val's type uses.
MeetValue(self, val) ==
  [type |-> self.type,
   dcl  |-> IF val.type # "SclType" THEN Lower(self.dcl, val.dcl) ELSE self.dcl,
   scl  |-> IF val.type # "DclType" THEN Lower(self.scl, val.scl) ELSE self.scl]

(***************************************************************************)
(* meet is a static member function of one parameter, although its caller  *)
(* writes outVal.meet(inVal): the value it is called on does not take part.*)
(* A meet that has already failed its assertion stays failed.              *)
(***************************************************************************)
Meet(self, value) ==
  LET newValue == OfType(value.type)
  IN  IF AssertFailed \in {self, newValue}
      THEN AssertFailed
      ELSE MeetValue(newValue, value)

HasScl(val) == val.type \in {"BothType", "SclType"}
HasDcl(val) == val.type \in {"BothType", "DclType"}

IsWrite(val)         == val.dcl = WriteDcl \/ val.scl = WriteScl
IsWriteDcl(val)      == val.dcl = WriteDcl
IsWriteFlushDcl(val) == val.dcl \in {WriteDcl, Flush}
IsFlush(val)         == val.dcl = Flush
IsWriteFlush(val)    == val.scl = WriteScl \/ val.dcl \in {WriteDcl, Flush}
=============================================================================
