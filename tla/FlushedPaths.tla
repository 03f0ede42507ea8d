---------------------------- MODULE FlushedPaths ----------------------------
(***************************************************************************)
(* The two checkers of stored pointers on the same path: the one on the    *)
(* dataflow engine (FlushedPath), which follows variables and sees their   *)
(* assignments only, and the one on symbolic execution (PtrxTransitions),  *)
(* which follows objects and sees what is written through the variables.   *)
(*                                                                         *)
(* A symbol stands for an object.  One that no variable leads to any more  *)
(* is used again for the next object.                                      *)
(***************************************************************************)
EXTENDS FlushedPath, Functions

CONSTANTS Base,     \* pointers that are not stored, so not tracked
          Symbol, NoSymbol,
          NumArgs   \* of the calls of functions that flush and fence

Ptrx == INSTANCE PtrxTransitions

ASSUME SymbolAssumption ==
  NoSymbol \notin Symbol /\ Base \cap (Pointer \cup Field) = {}

\* All pointers of the program
Variable == Pointer \cup Base

VARIABLES at,      \* the object each pointer points to
          origin,  \* the object from whose memory it was loaded
          nodes,   \* the path's nodes in the exploded graph
          blamed,  \* the objects reported, and those they were loaded from
          dirty,   \* the objects written and not flushed since
          hidden   \* those of them last written by a statement that allocates

heapVars  == <<at, origin>>
writeVars == <<dirty, hidden>>
ptrxVars  == <<heapVars, nodes, blamed, writeVars>>
allVars   == <<vars, ptrxVars>>

\* What is not in use is forgotten.
InUse(vs, from) == UNION {Ptrx!Roots(from, s) : s \in Range(vs)}
Unused == Symbol \ InUse(at, origin)

PtrxInit ==
  /\ Init
  /\ at \in [Variable -> Symbol] /\ IsInjective(at)
  /\ origin = [s \in Symbol |-> NoSymbol]
  /\ \E params \in SUBSET Range(at) :
       /\ nodes = Ptrx!CheckBeginFunction(FALSE, TRUE, params, Ptrx!StartNode)
       /\ dirty = params
  /\ blamed = {} /\ hidden = {}

\* A callback on every node of the path
Visit(Callback(_)) ==
  LET steps == {Callback(n) : n \in nodes}
      live  == InUse(at', origin')
  IN  /\ nodes'  = {n \cap live : n \in UNION {t.nodes : t \in steps}}
      /\ blamed' = live \cap
           (blamed \cup UNION {Ptrx!Roots(origin, s) :
                             s \in UNION {t.reports : t \in steps}})

\* The object q points to is written, as the symbolic checker sees or not.
Written(q, seen) ==
  /\ dirty'  = dirty \cup {at[q]}
  /\ hidden' = IF seen THEN hidden \ {at[q]} ELSE hidden \cup {at[q]}
  /\ UNCHANGED heapVars

\* q->data = ...: nothing to the checker of variables
WriteThrough(q) ==
  LET Callback(n) == Ptrx!CheckBind(FALSE, at[q], NoSymbol, FALSE, origin, n)
  IN  Written(q, TRUE) /\ Visit(Callback) /\ UNCHANGED vars

\* q->f = p
PtrxStore(f, p, q) ==
  LET Callback(n) == Ptrx!CheckBind(TRUE, at[q], at[p], FALSE, origin, n)
  IN  Store(f, p) /\ Written(q, TRUE) /\ Visit(Callback)

\* q->f = malloc(): what is stored is no variable.
StoreNew(q) ==
  \E new \in Unused :
    LET Callback(n) == Ptrx!CheckBind(TRUE, at[q], new, TRUE, origin, n)
    IN  Written(q, FALSE) /\ Visit(Callback) /\ UNCHANGED vars

\* p = value, by a statement that allocates or does not
PtrxAssign(p, value, from, isAlloc) ==
  LET Callback(n) == Ptrx!CheckBind(FALSE, NoSymbol, value, isAlloc, origin, n)
  IN  /\ IF p \in Pointer THEN Assign(p) ELSE UNCHANGED vars
      /\ at' = [at EXCEPT ![p] = value]
      /\ LET live == InUse(at', [origin EXCEPT ![value] = from])
         IN  origin' = [s \in Symbol |-> IF s \notin live THEN NoSymbol
                                         ELSE IF s = value THEN from ELSE origin[s]]
      /\ dirty' = (dirty \cup (IF isAlloc THEN {value} ELSE {}))
                   \cap InUse(at', origin')
      /\ hidden' = hidden \cap InUse(at', origin')
      /\ Visit(Callback)

\* p = q
AssignAlias(p, q) == PtrxAssign(p, at[q], origin[at[q]], FALSE)

\* p = malloc(), or p = the result of another call
AssignNew(p, isAlloc) ==
  \E new \in Unused : PtrxAssign(p, new, NoSymbol, isAlloc)

(***************************************************************************)
(* p = q->f: the value is that of a member nothing has been stored in, or  *)
(* the object stored there before.  What is stored where is not kept, so   *)
(* either may be: clang's store is not the checker's.  Nor is an object    *)
(* kept that only memory leads to.                                         *)
(***************************************************************************)
AssignLoad(p, q) == \E new \in Unused : PtrxAssign(p, new, at[q], FALSE)

AssignStored(p) ==
  \E stored \in Symbol \ Unused : PtrxAssign(p, stored, origin[stored], FALSE)

PtrxFlushFence(p, numArgs) ==
  LET Callback(n) == Ptrx!HandleFlushFenceFnc(at[p], numArgs, n)
  IN  /\ IF p \in Pointer THEN ClFlush(p) ELSE UNCHANGED vars
      /\ UNCHANGED heapVars
      /\ Visit(Callback)
      /\ dirty' = dirty \ {at[p]} /\ hidden' = hidden \ {at[p]}

\* A clflushopt, or a fence: nothing to the symbolic checker
FlushOrFence(A) == A /\ UNCHANGED ptrxVars

\* if (c), where c mentions use_nvm
Branch(holds) ==
  LET Callback(n) == Ptrx!CheckBranchCondition(TRUE, holds, n)
  IN  /\ UNCHANGED <<vars, heapVars, writeVars>>
      /\ Visit(Callback)

\* The body of a called function begins; one annotated SkipCode has none.
Call ==
  LET Callback(n) ==
        Ptrx!Step({}, Ptrx!CheckBeginFunction(FALSE, FALSE, Range(at), n))
  IN  /\ UNCHANGED <<vars, heapVars, writeVars>>
      /\ Visit(Callback)

PtrxNext ==
  \/ \E p \in Pointer, q \in Variable :
       \E f \in Field : PtrxStore(f, p, q)
  \/ \E p, q \in Variable : AssignAlias(p, q) \/ AssignLoad(p, q)
  \/ \E p \in Variable :
       \/ AssignStored(p) \/ WriteThrough(p) \/ StoreNew(p)
       \/ \E isAlloc \in BOOLEAN : AssignNew(p, isAlloc)
       \/ \E numArgs \in NumArgs : PtrxFlushFence(p, numArgs)
  \/ \E p \in Pointer : FlushOrFence(ClFlushOpt(p))
  \/ FlushOrFence(PFence)
  \/ \E holds \in BOOLEAN : Branch(holds)
  \/ Call

PtrxSpec == PtrxInit /\ [][PtrxNext]_allVars

-----------------------------------------------------------------------------
(* Properties *)

(***************************************************************************)
(* As long as the path is explored the symbolic checker loses no dirty     *)
(* object: each is dirty in some node, has been reported or something      *)
(* loaded from it has, or was written last by a statement that allocates   *)
(* (checkBeginFunction, checkBind).                                        *)
(***************************************************************************)
DirtyKnown ==
  nodes # {} => dirty \subseteq (UNION nodes) \cup blamed \cup hidden

(***************************************************************************)
(* A store is reported only if what is stored is dirty or was loaded,      *)
(* directly or not, from an object that is: nothing that was flushed since *)
(* it was written is accused for itself (isPtrWritten, flushPtr).          *)
(***************************************************************************)
BlamesDirtyRoots ==
  [][\A f \in Field, p \in Pointer, q \in Variable :
       at[p] \in blamed' \ blamed /\ PtrxStore(f, p, q) =>
         Ptrx!Roots(origin, at[p]) \cap dirty # {}]_allVars
=============================================================================
