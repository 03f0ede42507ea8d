--------------------------- MODULE FrontEndProps ---------------------------
(***************************************************************************)
(* What the front ends promise the rest of each checker: the pairs are     *)
(* those annotated, and a unit tracks whatever its statements change.      *)
(***************************************************************************)
EXTENDS FrontEnd

-----------------------------------------------------------------------------
(* The statement parsers: the variable a statement's transfer function     *)
(* changes or checks, lib/*checker/analyzer/*StmtParser.h                  *)

NoFunc == [func |-> "no", var |-> NoDecl]
Func(func, var) == IF var = NoDecl THEN NoFunc ELSE [func |-> func, var |-> var]
UsedOr(nd) == IF IsUsedVar(nd) THEN nd ELSE NoDecl
TrackedOr(nd) == IF nd \in tracked THEN nd ELSE NoDecl

\* PairStmtParser; fences name no variable.
ParsePair(n) ==
  CASE n.kind = "assign" -> Func("write", UsedOr(GetFieldDeclFromWrite(n)))
    [] n.kind = "call" /\ n.decl \in functions["clflush"] ->
         Func("flushfence", UsedOr(GetFieldDeclFromCall(n)))
    [] n.kind = "call" /\ n.decl \in functions["clflushopt"] ->
         Func("flush", UsedOr(GetFieldDeclFromCall(n)))
    [] OTHER -> NoFunc

\* LogStmtParser; the transactions' variable is always tracked.
ParseLog(n) ==
  CASE n.kind = "assign" -> Func("write", UsedOr(GetFieldDeclFromWrite(n)))
    [] n.kind = "call" /\ n.decl \in functions["log"] ->
         Func("log", UsedOr(GetFieldDeclFromCall(n)))
    [] OTHER -> NoFunc

\* FlushedStmtParser: a write of a field is told by the pointer it stores.
ParseFlushedWrite(BO) ==
  IF /\ GetFieldDeclFromWrite(BO) \in annotated
     /\ GetNDOfRHS(BO) \in tracked
  THEN Func("store", GetNDOfRHS(BO))
  ELSE Func("write", TrackedOr(GetNDOfAssigned(BO)))

ParseFlushed(n) ==
  CASE n.kind = "assign" -> ParseFlushedWrite(n)
    [] n.kind = "call" /\
       n.decl \in functions["clflush"] \cup functions["clflushopt"] ->
         Func("flush", TrackedOr(GetPtrFromFlush(n)))
    [] OTHER -> NoFunc

\* Nothing is left of the main checker but its tables: a statement that
\* mentions a variable stands for one that changes it.
ParseMain(n) == IF n.kind = "member" THEN Func("mention", UsedOr(n.decl))
                                     ELSE NoFunc

ParseStmt(n) == CASE checker = "pair"    -> ParsePair(n)
                  [] checker = "main"    -> ParseMain(n)
                  [] checker = "log"     -> ParseLog(n)
                  [] checker = "flushed" -> ParseFlushed(n)

-----------------------------------------------------------------------------
(* What the engine analyses for a unit *)

\* getCEIfAnalyzedFunction: the calls of a body it goes into
AnalyzedCalls(nodes) ==
  {n.decl : n \in {m \in nodes : m.kind = "call" /\ ~IsSkipFunction(m.decl)
                                 /\ HasBody(m.decl)}}

NodesOf(fd) == IF HasBody(fd) THEN BodyNodes(GetBody(fd)) ELSE {}

\* In as many calls as there are declarations
ReachedFrom(fds) ==
  LET n == Cardinality(Decls("function"))
      reach[i \in 0 .. n] ==
        IF i = 0 THEN fds
        ELSE LET fs == reach[i-1]
             IN  fs \cup UNION {AnalyzedCalls(NodesOf(g)) : g \in fs}
  IN  reach[n]

ReachedNodes(fds) == UNION {NodesOf(g) : g \in ReachedFrom(fds)}

\* What the arguments of skipped and bodiless calls hide in these nodes
Hidden(nodes) ==
  LET calls == {n \in nodes : n.kind = "call" /\
                  (IsSkipFunction(n.decl) \/ ~HasBody(n.decl))}
      below == UNION {SubNodes[c] \ {c} : c \in calls}
  IN  below \cup ReachedNodes(AnalyzedCalls(below))

-----------------------------------------------------------------------------
(* Properties *)

\* The declaration a name stands for once all are visited: the last one
Named(name) ==
  LET i == CHOOSE j \in DOMAIN tu :
             /\ tu[j].kind \in {"field", "record"}
             /\ tu[j].name = name
             /\ \A k \in j + 1 .. Len(tu) :
                  tu[k].kind \in {"field", "record"} => tu[k].name # name
  IN  tu[i].nd

AnnotatedPairs ==
  UNION {{[data  |-> Named(d.name), check |-> Named(a.check),
           isScl |-> UsesScl(Named(d.name), Named(a.check), a.clType)] :
            a \in Range(PairAnnots(d))} :
         d \in Decls("field") \cup Decls("record")}

Globals == INSTANCE PairGlobals WITH
             Var   <- {d.nd : d \in Decls("field") \cup Decls("record")},
             Pairs <- AnnotatedPairs

(***************************************************************************)
(* The tables built one annotation at a time are those PairGlobals derives *)
(* from the set of pairs, which is what the pair checker's model starts    *)
(* from: no pair is lost, and a variable of several pairs keeps the flags  *)
(* of all of them, whatever the order of the declarations.  The flags in   *)
(* the main parser's trackMap are the same for a variable with pairs of    *)
(* one kind; one with both kinds has only one flag, which one depending on *)
(* where its pairs were allocated (MainWalker::fillTrackMap).              *)
(***************************************************************************)
TablesExact ==
  HasPairs /\ phase = "done" =>
    /\ pairs = AnnotatedPairs
    /\ DOMAIN usedVars = Globals!UsedVars
    /\ \A v \in DOMAIN usedVars : usedVars[v] = Globals!GetDsclInfo(v)
    /\ checker = "main" =>
         \A fd \in DOMAIN units : \A v \in units[fd].vars :
           LET info == Globals!GetDsclInfo(v)
           IN  IF info.isDcl /\ info.isScl
               THEN units[fd].kinds[v].isDcl # units[fd].kinds[v].isScl
               ELSE units[fd].kinds[v] = info

\* The clTypes of the annotations that make a pair of these two
ClTypes(data, check) ==
  UNION {{a.clType : a \in {b \in Range(PairAnnots(d)) :
                              Named(b.check) = check}} :
         d \in {e \in Decls("field") \cup Decls("record") :
                  Named(e.name) = data}}

(***************************************************************************)
(* Without an scl or dcl of its own, and in a record that is aligned to a  *)
(* line and has no padding, a pair of two fields is taken to be on one     *)
(* line exactly when it is and neither field ends with the line            *)
(* (AutoCl::isScl, createRD).  So such a record's fences are never too     *)
(* weak.  An annotation that says scl is believed, whatever another one of *)
(* the same pair leaves open.                                              *)
(***************************************************************************)
AutoClExact ==
  HasPairs /\ phase = "done" =>
    \A rd \in Decls("record") : \A i, j \in DOMAIN rd.fields :
      LET data  == rd.fields[i].nd
          check == rd.fields[j].nd
      IN  /\ IsRecordValid(rd) /\ ~HasPadding(rd)
          /\ IsRDAligned(rd) /\ rd.align % CacheLineSize = 0
          /\ i # j
          /\ "unk" \in ClTypes(data, check) /\ "scl" \notin ClTypes(data, check)
          => ( [data |-> data, check |-> check, isScl |-> TRUE] \in pairs
               <=> /\ ShareALine(rd, i, j)
                   /\ ~EndsItsLine(rd, i) /\ ~EndsItsLine(rd, j) )

\* The nodes that mention a variable v to trackStmt
Mentions(nodes, v) ==
  \E n \in nodes : IF checker = "flushed" THEN GetNDOfRHS(n) = v
                   ELSE n.kind = "member" /\ n.decl = v

(***************************************************************************)
(* A statement the engine analyses in a unit, in whatever function it is,  *)
(* changes variables the unit tracks.  The exceptions are those trackStmt  *)
(* does not see because they are only mentioned in the arguments of a      *)
(* skipped or bodiless function, and a unit that is itself skipped, which  *)
(* the log checker and named functions can have.  (A pointer the flushed   *)
(* checker sees assigned or flushed only needs no entry.)  The main parser *)
(* has no exceptions.                                                      *)
(***************************************************************************)
UntrackedOnlyIfHidden ==
  \A fd \in DOMAIN units : \A n \in ReachedNodes({fd}) :
    LET parsed == ParseStmt(n)
    IN  /\ parsed # NoFunc
        /\ checker = "flushed" => parsed.func = "store"
        /\ parsed.var \notin units[fd].vars
        => /\ checker # "main"
           /\ \/ IsSkipFunction(fd)
              \/ Mentions(Hidden(ReachedNodes({fd})), parsed.var)

\* A reason to give up: a pair without a partner or with one nobody declares,
\* two declarations of a transaction function, or none of tx_begin
CannotParse ==
  \/ /\ HasPairs
     /\ \E d \in Decls("field") \cup Decls("record") :
          \E a \in Range(PairAnnots(d)) :
            \/ a.check = NoName
            \/ \A e \in Decls("field") \cup Decls("record") : e.name # a.check
  \/ /\ checker = "log"
     /\ LET decls(name) == {d \in Decls("function") : d.name = name}
        IN  \/ /\ decls("tx_begin") # {} /\ decls("tx_end") # {}
               /\ Cardinality(decls("tx_begin") \cup decls("tx_end")) > 2
            \/ /\ decls("tx_begin") = {}
               /\ \E d \in Decls("function") : "LogCode" \in d.annots

(***************************************************************************)
(* The front end gives up exactly on programs it cannot parse: an error in *)
(* getNDFromStr or addAnnotated, the assertion in setTxMode, the read past *)
(* the end in getTxFunction.                                               *)
(***************************************************************************)
FatalExplained ==
  /\ phase = "fatal" => CannotParse
  /\ phase = "done" => ~CannotParse
=============================================================================
