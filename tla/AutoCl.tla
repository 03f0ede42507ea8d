------------------------------- MODULE AutoCl -------------------------------
(***************************************************************************)
(* Which cache lines the fields of a record are on, as the pair checker    *)
(* works it out for pairs that do not say (include/parser_util/AutoCl.h),  *)
(* and as the compiler lays the record out.                                *)
(*                                                                         *)
(* A record has the bytes it asks to be aligned to (0 if it has no such    *)
(* attribute) and its fields in order, each with its declaration, its size *)
(* and the alignment of its type.  Size 0 stands for an unknown one.  The  *)
(* code keeps the lines of each record it has seen; they never change, so  *)
(* here they are computed where they are asked for.                        *)
(***************************************************************************)
EXTENDS Integers, Sequences

CONSTANT CacheLineSize

ASSUME CacheLineAssumption == CacheLineSize \in Nat \ {0}

ClNos(beg, end) == [beg |-> beg, end |-> end]

\* current after the first i fields
Current(rd, i) ==
  LET sum[j \in 0 .. i] == IF j = 0 THEN 0 ELSE sum[j-1] + rd.fields[j].size
  IN  sum[i]

\* A record that only adds up the fields before.
EndClExclusive(rd, i) ==
  IF i = 0 THEN 0 ELSE (Current(rd, i) - 1) \div CacheLineSize

EndCl(rd, i) == IF i = 0 THEN 0 ELSE Current(rd, i) \div CacheLineSize

\* The lines of the record itself are those of its address.
GetClNos(rd, nd) ==
  IF nd = rd.nd THEN ClNos(0, 0)
  ELSE LET i == CHOOSE j \in DOMAIN rd.fields : rd.fields[j].nd = nd
       IN  ClNos(EndCl(rd, i-1), EndCl(rd, i))

\* A field of unknown size clears the record.
IsRecordValid(rd) == \A i \in DOMAIN rd.fields : rd.fields[i].size > 0

IsRDAligned(rd) == rd.align > 0

\* nd1 and nd2 belong to rd1 and rd2, or are them.
IsScl(rd1, nd1, rd2, nd2) ==
  /\ IsRecordValid(rd1) /\ IsRecordValid(rd2)
  /\ IsRDAligned(rd1) /\ IsRDAligned(rd2)
  /\ rd1 = rd2
  /\ GetClNos(rd1, nd1) = GetClNos(rd2, nd2)

-----------------------------------------------------------------------------
(* The compiler's layout, for a record that starts a line *)

RoundUp(n, align) == ((n + align - 1) \div align) * align

Offset(rd, i) ==
  LET offset[j \in 1 .. i] ==
        IF j = 1 THEN 0
        ELSE RoundUp(offset[j-1] + rd.fields[j-1].size, rd.fields[j].align)
  IN  offset[i]

HasPadding(rd) ==
  \E i \in DOMAIN rd.fields : Offset(rd, i) # Current(rd, i-1)

FirstLine(rd, i) == Offset(rd, i) \div CacheLineSize
LastLine(rd, i) == (Offset(rd, i) + rd.fields[i].size - 1) \div CacheLineSize

\* Fields that no crash can tear apart: both are on one and the same line.
ShareALine(rd, i, j) ==
  /\ FirstLine(rd, i) = LastLine(rd, i)
  /\ FirstLine(rd, j) = LastLine(rd, j)
  /\ FirstLine(rd, i) = FirstLine(rd, j)

\* The last byte of the field is the last one of its line.
EndsItsLine(rd, i) ==
  (Offset(rd, i) + rd.fields[i].size) % CacheLineSize = 0
=============================================================================
