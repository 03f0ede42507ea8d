----------------------------- MODULE ParseUtils -----------------------------
(***************************************************************************)
(* Statements as the checkers see them, clang's syntax trees, and the      *)
(* patterns their parsers look for (include/parser_util/ParseUtils.h).     *)
(*                                                                         *)
(* A node has a kind, a declaration (the member, variable or function it   *)
(* names) and its children:                                                *)
(*                                                                         *)
(*   member   x->f, child x          assign   l = r, and its compounds     *)
(*   ref      a variable             binary   any other binary operator    *)
(*   call     f(arguments)           unary    a unary operator             *)
(*   cast     an implicit cast       other    any other node               *)
(***************************************************************************)
EXTENDS Naturals, Sequences

CONSTANTS Nodes,  \* the nodes of the syntax trees
          Height  \* of each node: more than that of its children

ASSUME NodesAssumption ==
  /\ Height \in [Nodes -> Nat]
  /\ \A n \in Nodes : \A i \in DOMAIN n.kids :
       n.kids[i] \in Nodes /\ Height[n.kids[i]] < Height[n]

NoDecl == "none"

Node(kind, decl, kids) == [kind |-> kind, decl |-> decl, kids |-> kids]

\* A node and everything below it: with setAllAlwaysAdd all are statements
\* of the control-flow graph.
SubNodes[n \in Nodes] ==
  {n} \cup UNION {SubNodes[n.kids[i]] : i \in DOMAIN n.kids}

BodyNodes(body) == UNION {SubNodes[body[i]] : i \in DOMAIN body}

\* Whether n has child number i of the given kind: getNthChild and dyn_cast
HasKid(n, i, kind) == i \in DOMAIN n.kids /\ n.kids[i].kind = kind

GetNDOfRHS(BO) ==
  IF BO.kind = "assign" /\ HasKid(BO, 2, "cast") /\ HasKid(BO.kids[2], 1, "ref")
  THEN BO.kids[2].kids[1].decl ELSE NoDecl

GetNDOfAssigned(BO) ==
  IF BO.kind = "assign" /\ HasKid(BO, 1, "ref")
  THEN BO.kids[1].decl ELSE NoDecl

GetFieldDeclFromWrite(BO) ==
  IF BO.kind = "assign" /\ HasKid(BO, 1, "member")
  THEN BO.kids[1].decl ELSE NoDecl

\* The pointer flushed: a variable behind two casts, to an rvalue and to void*
GetPtrFromFlush(CE) ==
  IF /\ HasKid(CE, 1, "cast")
     /\ HasKid(CE.kids[1], 1, "cast")
     /\ HasKid(CE.kids[1].kids[1], 1, "ref")
  THEN CE.kids[1].kids[1].kids[1].decl ELSE NoDecl

\* The member whose address is flushed or logged
GetFieldDeclFromCall(CE) ==
  IF /\ HasKid(CE, 1, "cast")
     /\ HasKid(CE.kids[1], 1, "unary")
     /\ HasKid(CE.kids[1].kids[1], 1, "member")
  THEN CE.kids[1].kids[1].kids[1].decl ELSE NoDecl
=============================================================================
