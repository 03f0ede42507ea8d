------------------------------ MODULE FrontEnd ------------------------------
(***************************************************************************)
(* The front end of each checker: its global parser walks the translation  *)
(* unit once, collects functions, annotations and expressions, and then    *)
(* works out which variables and functions every analysed function, or     *)
(* unit, has to track (lib/*checker/preprocess, include/global_util).      *)
(*                                                                         *)
(* A translation unit is a sequence of declarations in source order:       *)
(*                                                                         *)
(*   field     nd, name, annots and the record it is in                    *)
(*   record    nd, name, annots, align and fields, as in AutoCl            *)
(*   function  fd, the function fn it declares, its name, annots and body  *)
(*                                                                         *)
(* clang's pointers are the members nd and fd: a function or record        *)
(* declared twice has two.  annots are the attributes in force, those      *)
(* inherited from earlier declarations included.                           *)
(*                                                                         *)
(* "main" is the older parser of pairs in include/main_util, which does    *)
(* what the pair checker's does but for its tables of variables.           *)
(***************************************************************************)
EXTENDS ParseUtils, AutoCl, FiniteSets, Functions

CONSTANTS TranslationUnits,  \* sequences of declarations
          Checkers           \* a subset of AllCheckers

AllCheckers == {"pair", "flushed", "log", "main"}

IsDecl(d) ==
  \/ d.kind = "function" /\ \A i \in DOMAIN d.body : d.body[i] \in Nodes
  \/ d.kind \in {"field", "record"} /\ d.annots \in Seq(Range(d.annots))

\* A declaration is at one place only.
IsUnit(decls) ==
  /\ decls \in Seq(Range(decls))
  /\ \A i \in DOMAIN decls : IsDecl(decls[i])
  /\ \A i, j \in DOMAIN decls :
       decls[i].kind = "function" /\ decls[j].kind = "function" /\
       decls[i].fd = decls[j].fd => i = j

ASSUME UnitsAssumption ==
  /\ Checkers \subseteq AllCheckers
  /\ \A decls \in TranslationUnits : IsUnit(decls)

\* A record has the fields declared in it, each once.  (A declaration of the
\* record that is not its definition has none.)
IsRecord(decls, rd) ==
  /\ rd.fields \in Seq(Range(rd.fields))
  /\ \A i \in DOMAIN rd.fields :
       /\ rd.fields[i].size \in Nat
       /\ \E d \in Range(decls) : /\ d.kind = "field" /\ d.record = rd.nd
                                 /\ d.nd = rd.fields[i].nd
  /\ \A i, j \in DOMAIN rd.fields :
       rd.fields[i].nd = rd.fields[j].nd => i = j

\* Every field and record declared is one of its own.
HasRecords(decls) ==
  /\ \A d, e \in {c \in Range(decls) : c.kind \in {"field", "record"}} :
       d.nd = e.nd => d = e
  /\ \A rd \in Range(decls) : rd.kind = "record" => IsRecord(decls, rd)

ASSUME RecordsAssumption == \A decls \in TranslationUnits : HasRecords(decls)

VARIABLES
  tu,         \* the translation unit
  checker,    \* the checker that parses it
  phase,      \* what its constructor is doing
  pos,        \* the next declaration TraverseDecl visits
  functions,  \* the sets of DirectFunctions or LogFunctions
  annotated,  \* AnnotVariable: the fields marked for the checker
  tracked,    \* FlushedVariables' trackedVariables
  strToND,    \* PairGlobalParser: declarations by name
  psiList,    \* PairGlobalParser: the pairs as strings
  exprs,      \* memberExprs or binaryOperators, with their functions
  usedVars,   \* PairVariables: the flags of every variable of a pair
  pairs,      \* the PairInfo objects
  units       \* functionUnitMap; MainVars' trackMap

vars == <<tu, checker, phase, pos, functions, annotated, tracked, strToND,
          psiList, exprs, usedVars, pairs, units>>

-----------------------------------------------------------------------------
(* The syntax tree *)

NoBody == <<>>

\* std::map's operator[] on the left of an assignment
Put(f, k, v) == [x \in DOMAIN f \cup {k} |-> IF x = k THEN v ELSE f[x]]

Decls(kind) == {d \in Range(tu) : d.kind = kind}

\* hasBody and getBody find the definition from any declaration.
Definitions(fd) ==
  LET fns == {d.fn : d \in {e \in Decls("function") : e.fd = fd}}
  IN  {d \in Decls("function") : d.fn \in fns /\ d.body # NoBody}
HasBody(fd) == Definitions(fd) # {}
GetBody(fd) == (CHOOSE d \in Definitions(fd) : TRUE).body

\* getRDFromAny, for a field or a record
GetRDFromAny(nd) ==
  LET d == CHOOSE r \in Decls("field") \cup Decls("record") : r.nd = nd
  IN  IF d.kind = "record" THEN d
      ELSE CHOOSE r \in Decls("record") : r.nd = d.record

-----------------------------------------------------------------------------
(* Sets of functions *)

\* The sets of functions told by their name, one name for each
DirectNames == {"pfence", "vfence", "clflushopt", "clflush"}
LogNames == {"log", "tx_begin", "tx_end"}

FunctionSets ==
  {"analyzed", "skip"} \cup IF checker = "log" THEN LogNames ELSE DirectNames

\* AnnotFunction::checkName
AnalyzeAnnotation == IF checker = "log" THEN "LogCode" ELSE "NvmCode"
IsAnnotated(d, annotation) == annotation \in d.annots

\* Whether declaration d belongs to the set s
BelongsTo(d, s) ==
  \/ s = "analyzed" /\ IsAnnotated(d, AnalyzeAnnotation)
  \/ s = "skip" /\ IsAnnotated(d, "SkipCode")
  \/ s \notin {"analyzed", "skip"} /\ d.name = s

InsertFunction(fs, d) ==
  [s \in FunctionSets |-> IF BelongsTo(d, s) THEN fs[s] \cup {d.fd} ELSE fs[s]]

IsSkipFunction(fd) ==
  \E s \in FunctionSets \ {"analyzed"} : fd \in functions[s]

-----------------------------------------------------------------------------
(* TraverseDecl and its callbacks *)

Init ==
  /\ tu \in TranslationUnits
  /\ checker \in Checkers
  /\ phase = "traverse"
  /\ pos = 1
  /\ functions = [s \in FunctionSets |-> {}]
  /\ annotated = {}
  /\ tracked = {}
  /\ strToND = [n \in {} |-> NoDecl]
  /\ psiList = <<>>
  /\ exprs = {}
  /\ usedVars = [v \in {} |-> [isDcl |-> FALSE, isScl |-> FALSE]]
  /\ pairs = {}
  /\ units = [f \in {} |-> [vars |-> {}, funcs |-> {}]]

\* The declaration TraverseDecl is at
Visits(kind) ==
  /\ phase = "traverse"
  /\ pos \in DOMAIN tu
  /\ tu[pos].kind = kind
  /\ pos' = pos + 1
  /\ UNCHANGED <<tu, checker>>

\* The checkers of annotated pairs
HasPairs == checker \in {"pair", "main"}

\* The expressions the checker's parser collects
VisitMemberExpr(n) == HasPairs /\ n.kind = "member"
VisitBinaryOperator(n) == checker = "flushed" /\ n.kind = "assign"
Collected(n) == VisitMemberExpr(n) \/ VisitBinaryOperator(n)

\* VisitFunctionDecl, and then the callbacks for the function's body
VisitFunctionDecl ==
  /\ Visits("function")
  /\ functions' = InsertFunction(functions, tu[pos])
  /\ exprs' = exprs \cup
       {[fd |-> tu[pos].fd, node |-> n] :
          n \in {m \in BodyNodes(tu[pos].body) : Collected(m)}}
  /\ UNCHANGED <<phase, annotated, tracked, strToND, psiList, usedVars, pairs,
                 units>>

\* The name an annotation without a partner gives
NoName == ""

PairAnnots(d) ==
  LET first[i \in 0 .. Len(d.annots)] ==
        IF i = 0 THEN <<>>
        ELSE IF d.annots[i].text = "pair" THEN Append(first[i-1], d.annots[i])
        ELSE first[i-1]
  IN  first[Len(d.annots)]

(***************************************************************************)
(* addAnnotated for a field or record d.  A declaration replaces an        *)
(* earlier one of its name; an annotation without a partner is fatal.      *)
(***************************************************************************)
AddAnnotated(d) ==
  /\ strToND' = Put(strToND, d.name, d.nd)
  /\ psiList' = psiList \o
       [i \in DOMAIN PairAnnots(d) |->
          [dataName  |-> d.name,
           checkName |-> PairAnnots(d)[i].check,
           clType    |-> PairAnnots(d)[i].clType]]
  /\ phase' = IF \E i \in DOMAIN PairAnnots(d) : PairAnnots(d)[i].check = NoName
              THEN "fatal" ELSE phase
  /\ UNCHANGED annotated

VariableAnnotation == IF checker = "log" THEN "LogField" ELSE "FlushedPtr"

\* AnnotVariable::insertVariable
InsertVariable(d) ==
  /\ annotated' = IF \E a \in Range(d.annots) : a.text = VariableAnnotation
                  THEN annotated \cup {d.nd} ELSE annotated
  /\ UNCHANGED <<strToND, psiList, phase>>

VisitFieldDecl ==
  /\ Visits("field")
  /\ IF HasPairs THEN AddAnnotated(tu[pos]) ELSE InsertVariable(tu[pos])
  /\ UNCHANGED <<functions, tracked, exprs, usedVars, pairs, units>>

\* The flushed checker has nothing to do for a record.
VisitRecordDecl ==
  /\ Visits("record")
  /\ \/ HasPairs /\ AddAnnotated(tu[pos])
     \/ checker = "log" /\ InsertVariable(tu[pos])
     \/ checker = "flushed" /\ UNCHANGED <<annotated, strToND, psiList, phase>>
  /\ UNCHANGED <<functions, tracked, exprs, usedVars, pairs, units>>

-----------------------------------------------------------------------------
(* fillStructures *)

\* A check of tx_begin only.
TxBeginAsserts ==
  /\ functions["tx_begin"] # {} /\ functions["tx_end"] # {}
  /\ Cardinality(functions["tx_begin"]) # 1

\* setTxMode asserts that there is one declaration of each.
TxModeAsserts ==
  /\ functions["tx_begin"] # {} /\ functions["tx_end"] # {}
  /\ ~(Cardinality(functions["tx_begin"]) = 1 /\
       Cardinality(functions["tx_end"]) = 1)

FinishTraverse ==
  /\ phase = "traverse" /\ pos \notin DOMAIN tu
  /\ \/ HasPairs /\ phase' = "fillMainVars"
     \/ checker = "flushed" /\ phase' = "autoFindFunctions"
     \/ /\ checker = "log"
        /\ phase' = IF TxModeAsserts THEN "fatal" ELSE "fillTrackMap"
  /\ UNCHANGED <<tu, checker, pos, functions, annotated, tracked, strToND,
                 psiList, exprs, usedVars, pairs, units>>

UsesScl(dataND, checkND, clType) ==
  \/ clType = "scl"
  \/ /\ clType \notin {"scl", "dcl"}
     /\ IsScl(GetRDFromAny(dataND), dataND, GetRDFromAny(checkND), checkND)

\* An insertVariable that forgets the flags of the pairs before
InsertPairFresh(used, nd, isScl) ==
  Put(used, nd, [isDcl |-> ~isScl, isScl |-> isScl])

\* insertVariable: the flags of nd after one more pair
InsertPair(used, nd, isScl) ==
  LET flags == IF nd \in DOMAIN used THEN used[nd]
               ELSE [isDcl |-> FALSE, isScl |-> FALSE]
  IN  Put(used, nd, [isDcl |-> flags.isDcl \/ ~isScl,
                     isScl |-> flags.isScl \/ isScl])

\* One iteration of fillMainVars.  A name nobody declared is fatal.
FillMainVars ==
  /\ phase = "fillMainVars" /\ psiList # <<>>
  /\ LET psi == Head(psiList)
     IN IF {psi.dataName, psi.checkName} \subseteq DOMAIN strToND
        THEN LET data  == strToND[psi.dataName]
                 check == strToND[psi.checkName]
                 scl   == UsesScl(data, check, psi.clType)
             IN  /\ pairs' = pairs \cup
                      {[data |-> data, check |-> check, isScl |-> scl]}
                 /\ usedVars' = InsertPair(InsertPair(usedVars, data, scl),
                                           check, scl)
                 /\ UNCHANGED phase
        ELSE /\ phase' = "fatal"
             /\ UNCHANGED <<pairs, usedVars>>
  /\ psiList' = Tail(psiList)
  /\ UNCHANGED <<tu, checker, pos, functions, annotated, tracked, strToND,
                 exprs, units>>

FinishMainVars ==
  /\ phase = "fillMainVars" /\ psiList = <<>>
  /\ phase' = "autoFindFunctions"
  /\ UNCHANGED <<tu, checker, pos, functions, annotated, tracked, strToND,
                 psiList, exprs, usedVars, pairs, units>>

\* The expressions that make their function one to analyse, and the pointers
\* stored by them
Marks(n) ==
  IF HasPairs THEN n.decl \in DOMAIN usedVars
  ELSE GetFieldDeclFromWrite(n) \in annotated
FindVariables(marked) ==
  IF checker = "flushed" THEN {GetNDOfRHS(e.node) : e \in marked} \ {NoDecl}
                         ELSE {}

(***************************************************************************)
(* autoFindFunctions and the flushed parser's autoFindFunctionsVariables,  *)
(* which also tracks the pointers stored.  Then removeSkipFromAnalyze,     *)
(* which knows annotated functions only, not named ones.                   *)
(***************************************************************************)
AutoFindFunctions ==
  /\ phase = "autoFindFunctions"
  /\ LET marked == {e \in exprs : Marks(e.node)}
     IN /\ functions' = [functions EXCEPT !["analyzed"] =
             (@ \cup {e.fd : e \in marked}) \ functions["skip"]]
        /\ tracked' = FindVariables(marked)
  /\ phase' = "fillTrackMap"
  /\ UNCHANGED <<tu, checker, pos, annotated, strToND, psiList, exprs,
                 usedVars, pairs, units>>

-----------------------------------------------------------------------------
(* fillTrackMap *)

\* isUsedVar of the checkers but the flushed one
IsUsedVar(nd) ==
  IF HasPairs THEN nd \in DOMAIN usedVars ELSE nd \in annotated

\* The variables a node adds to the active unit: the member it mentions, and
\* for the flushed checker the pointer it stores
MentionedMember(n) ==
  IF n.kind = "member" /\ IsUsedVar(n.decl) THEN {n.decl} ELSE {}
StoredPointer(n) ==
  IF GetFieldDeclFromWrite(n) \in annotated THEN {GetNDOfRHS(n)} \cap tracked
                                            ELSE {}
Mentioned(n) ==
  IF checker = "flushed" THEN StoredPointer(n) ELSE MentionedMember(n)

EmptyUnit == [vars |-> {}, funcs |-> {}]
JoinUnits(us) == [vars  |-> UNION {u.vars : u \in us},
                  funcs |-> UNION {u.funcs : u \in us}]

(***************************************************************************)
(* trackStmt: a call is followed into its callee and then into its         *)
(* arguments; that of a skipped or bodiless function not at all.           *)
(***************************************************************************)
TrackStmt[n \in Nodes] ==
  LET children == JoinUnits({TrackStmt[n.kids[i]] : i \in DOMAIN n.kids})
      here     == [vars |-> Mentioned(n), funcs |-> {}]
  IN  IF n.kind # "call" THEN JoinUnits({here, children})
      ELSE IF ~HasBody(n.decl) \/ IsSkipFunction(n.decl) THEN EmptyUnit
      ELSE LET body   == GetBody(n.decl)
               callee == JoinUnits({TrackStmt[body[i]] : i \in DOMAIN body})
           IN  JoinUnits({[vars |-> {}, funcs |-> {n.decl}], callee, children})

\* A parser that looks at the function's own statements only.
TrackOwnBody(fd) ==
  IF HasBody(fd) /\ ~IsSkipFunction(fd)
  THEN [vars  |-> UNION {Mentioned(n) : n \in BodyNodes(GetBody(fd))},
        funcs |-> {}]
  ELSE EmptyUnit

TrackFunction(fd) ==
  IF HasBody(fd) /\ ~IsSkipFunction(fd)
  THEN JoinUnits({TrackStmt[GetBody(fd)[i]] : i \in DOMAIN GetBody(fd)})
  ELSE EmptyUnit

(***************************************************************************)
(* One iteration of fillTrackMap; the functions are a set of pointers, so  *)
(* they come in any order.  The log checker adds the variable that stands  *)
(* for its transactions, tx_begin, and reads past the end without one.     *)
(***************************************************************************)
FillTrackMap ==
  /\ phase = "fillTrackMap" /\ checker # "main"
  /\ \E fd \in functions["analyzed"] \ DOMAIN units :
       LET unit == TrackFunction(fd)
       IN IF checker # "log"
          THEN /\ units' = Put(units, fd, unit)
               /\ UNCHANGED phase
          ELSE IF functions["tx_begin"] = {}
          THEN /\ phase' = "fatal"
               /\ UNCHANGED units
          ELSE \E tx \in functions["tx_begin"] :
               /\ units' = Put(units, fd, [unit EXCEPT !.vars = @ \cup {tx}])
               /\ UNCHANGED phase
  /\ UNCHANGED <<tu, checker, pos, functions, annotated, tracked, strToND,
                 psiList, exprs, usedVars, pairs>>

\* What NDWalker goes on with at a call
CalledBody(n) ==
  IF n.kind = "call" /\ HasBody(n.decl) THEN GetBody(n.decl) ELSE NoBody

(***************************************************************************)
(* NDWalker, the main parser's trackStmt: calls of skipped functions are   *)
(* followed too, and the arguments of every call are looked at.  A body    *)
(* seen before is not walked again, which would find nothing new.          *)
(***************************************************************************)
WalkedNDs[n \in Nodes] ==
  LET body == CalledBody(n)
  IN  UNION ({IF n.kind = "member" THEN {n.decl} ELSE {}}
               \cup {WalkedNDs[n.kids[i]] : i \in DOMAIN n.kids}
               \cup {WalkedNDs[body[i]] : i \in DOMAIN body})

GetNDs(fd) == IF HasBody(fd)
              THEN UNION {WalkedNDs[GetBody(fd)[i]] : i \in DOMAIN GetBody(fd)}
              ELSE {}

PairList(nd) == {p \in pairs : nd \in {p.data, p.check}}

\* The loop over a set of pointers leaves the flags of the pair it ends with.
KindsOfLast(ps) == {[isDcl |-> ~p.isScl, isScl |-> p.isScl] : p \in ps}

(***************************************************************************)
(* One iteration of MainWalker's fillTrackMap.  A function without any     *)
(* variable of a pair has no entry in trackMap, here an empty one.         *)
(***************************************************************************)
FillTrackVars ==
  /\ phase = "fillTrackMap" /\ checker = "main"
  /\ \E fd \in functions["analyzed"] \ DOMAIN units :
       LET nds == {nd \in GetNDs(fd) : IsUsedVar(nd)}
       IN  \E kinds \in [nds -> UNION {KindsOfLast(PairList(nd)) : nd \in nds}] :
             /\ \A nd \in nds : kinds[nd] \in KindsOfLast(PairList(nd))
             /\ units' = Put(units, fd,
                             [vars |-> nds, funcs |-> {}, kinds |-> kinds])
  /\ UNCHANGED <<tu, checker, phase, pos, functions, annotated, tracked,
                 strToND, psiList, exprs, usedVars, pairs>>

FinishTrackMap ==
  /\ phase = "fillTrackMap"
  /\ functions["analyzed"] \subseteq DOMAIN units
  /\ phase' = "done"
  /\ UNCHANGED <<tu, checker, pos, functions, annotated, tracked, strToND,
                 psiList, exprs, usedVars, pairs, units>>

Next ==
  \/ VisitFunctionDecl \/ VisitFieldDecl \/ VisitRecordDecl \/ FinishTraverse
  \/ FillMainVars \/ FinishMainVars \/ AutoFindFunctions
  \/ FillTrackMap \/ FillTrackVars \/ FinishTrackMap

Spec == Init /\ [][Next]_vars
=============================================================================
