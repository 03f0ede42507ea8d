---------------------------- MODULE GlobalParser ----------------------------
(***************************************************************************)
(* How the checkers' global parsers follow calls.  trackStmt is written    *)
(* out once per checker (lib/*checker/preprocess/*GlobalParser.h), alike   *)
(* in this.  A program is as in Dataflow: its functions' control-flow      *)
(* graphs, whose blocks hold every statement trackStmt would visit.        *)
(***************************************************************************)
EXTENDS Naturals, FiniteSets, Functions

Stmts(p, f) == UNION {Range(p[f].elems[b]) : b \in DOMAIN p[f].elems}

Calls(p, f) == {s.callee : s \in {t \in Stmts(p, f) : t.op = "call"}}

\* The functions with a body that trackStmt descends into from fs, in at most
\* n calls.
Reach(p, fs, n) ==
  LET reach[i \in 0 .. n] ==
        IF i = 0 THEN fs
        ELSE reach[i-1] \cup
             ((UNION {Calls(p, g) : g \in reach[i-1]}) \cap DOMAIN p)
  IN  reach[n]

ReachFrom(p, fs) == Reach(p, fs, Cardinality(DOMAIN p))

\* The statements of a unit
UnitStmts(p, f) == UNION {Stmts(p, g) : g \in ReachFrom(p, {f})}

\* trackStmt keeps no set of visited functions: below a recursive function it
\* does not end.
IsRecursive(p, g) == g \in ReachFrom(p, Calls(p, g) \cap DOMAIN p)

\* A call through a pointer: its direct callee is null, and is asked for its
\* body.
CallsByPointer(p, g) == \E s \in Stmts(p, g) : s.op = "pointerCall"

\* The traversal of a unit comes back.
Tracks(p, f) ==
  \A g \in ReachFrom(p, {f}) : ~IsRecursive(p, g) /\ ~CallsByPointer(p, g)
=============================================================================
